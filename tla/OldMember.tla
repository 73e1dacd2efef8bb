------------------------------ MODULE OldMember ------------------------------
(***************************************************************************)
(* A returning member on its own machine: the NRSC lobby scan, the probe   *)
(* of the FriendJoin trigger, the fence and the firewall that keep the     *)
(* native matching closed, and the handoff by which the main thread takes  *)
(* the game back to its previous session (src/src/reconnect_fix.cpp and    *)
(* the scan hook of src/src/network_tools.cpp).  One lobby A is saved in   *)
(* the persisted identity, with expedition 1 and owner SavedOwner; every   *)
(* other lobby is 0.  Threads: the NRSC callback thread scans, the control *)
(* thread asks the host and ages the probe, a peer loss comes on any       *)
(* thread, and the main thread runs the hooks of the game.  Every step is  *)
(* one section under the locks.  A time is a flag or a choice.             *)
(***************************************************************************)
EXTENDS Naturals

CONSTANTS MaxOwner,  \* the members who may own lobby A, 1 .. MaxOwner
          MaxExp,    \* expeditions the host may name
          MaxAuth,   \* authority commits the host may name
          MaxNonce,  \* bound: nonces drawn
          Upsets     \* what may go wrong: "lose" a peer, "age" and run late,
                     \* "move" to another owner, "unsaved" identity, native
                     \* "fault", "leave" the world

ASSUME BoundsAssumption ==
    /\ {MaxOwner, MaxExp, MaxAuth, MaxNonce} \subseteq Nat \ {0}

VARIABLES
    live,     \* the owner of lobby A as NRSC has it, 0 outside lobby A
    up,       \* active NRSC peers
    losing,   \* peer whose loss is still to reach the probe
    probe,    \* g_bhrc_expedition_probe
    fence,    \* g_bhrc_old_member_matching_fence
    handoff,  \* g_bhrc_old_member_handoff
    desc,     \* expedition of the native previous-session descriptor, 0 empty
    tried,    \* restore_attempted_nonce
    native,   \* the native quick-match facade
    world,    \* the expedition world is registered
    latch,    \* native previous-session latch: the observer that set it, 0
    main,     \* the main thread: place, pass, and the copies it has taken
    scan,     \* the NRSC thread inside HookNrscLobbyScan
    drawn,    \* nonces drawn
    entry     \* history: the entry that the firewall has to guard

vars == <<live, up, losing, probe, fence, handoff, desc, tried, native, world,
          latch, main, scan, drawn, entry>>

Owners == 1 .. MaxOwner
Exps == 1 .. MaxExp
Auths == 1 .. MaxAuth
Nonces == 0 .. MaxNonce
SavedOwner == 1
SavedExp == 1

Terminal == {"Ordinary", "Rejected", "TimedOut", "Completed"}
Granted == {"Authorized", "HandedOff"}

NoProbe == [stage |-> "Idle", nonce |-> 0, kind |-> "none", owner |-> 0,
            exp |-> 0, auth |-> 0, running |-> FALSE, ready |-> FALSE,
            aged |-> FALSE, kept |-> FALSE, asked |-> FALSE]
NoFence == [kind |-> "None", nonce |-> 0, owner |-> 0, exp |-> 0]
NoHandoff == [stage |-> "Idle", obs |-> 0, act |-> 0, owner |-> 0, exp |-> 0,
              auth |-> 0, cancel |-> FALSE, latch |-> FALSE]
Resting == [pc |-> "game", pass |-> "post", p |-> NoProbe, h |-> NoHandoff,
            ok |-> FALSE, kind |-> "none"]
NoScan == [pc |-> "idle", owner |-> 0, pre |-> 0, h |-> NoHandoff,
           armed |-> FALSE]
NoEntry == [phase |-> "none", owner |-> 0, done |-> 0, by |-> 0]

-----------------------------------------------------------------------------
\* The fence and the firewall.

Fence(kind, n, o, e) == [kind |-> kind, nonce |-> n, owner |-> o, exp |-> e]

FenceCurrent == fence.kind # "None" /\ live = fence.owner

\* Its kind, stage and scalars are never checked apart: an active stage has them.
Owning(h) == h.stage \notin {"Idle", "Failed"} /\ h.obs # 0 /\ h.exp # 0

Firewall == Owning(handoff) \/ FenceCurrent

ClearForTransport(f, o) ==
    IF f.kind # "None" /\ f.owner = o THEN NoFence ELSE f

SameTuple(p, q) == p.owner = q.owner /\ p.exp = q.exp

Exact(f, p) == /\ f.kind # "None" /\ p.nonce # 0 /\ f.nonce = p.nonce
               /\ SameTuple(f, p)

\* Faulty: any attempt at the same session clears the fence.
ClearAny(f, p) == IF f.kind # "None" /\ SameTuple(f, p) THEN NoFence ELSE f

ClearExact(f, p) == IF Exact(f, p) THEN NoFence ELSE f

\* The entry that an attempt guards ends with the fence of that attempt.
Released(e, p) ==
    IF Exact(fence, p) /\ e.owner = p.owner
    THEN [e EXCEPT !.phase = "none", !.owner = 0] ELSE e

\* The lobby is left, or it has another owner: the entry is over.
Left(e, o) ==
    IF e.owner # o THEN [e EXCEPT !.phase = "none", !.owner = 0] ELSE e

RebindFence(f, before, after) ==
    IF /\ f.kind # "None" /\ before.nonce # 0 /\ f.nonce = before.nonce
       /\ SameTuple(before, after) /\ SameTuple(f, before)
    THEN [f EXCEPT !.nonce = after.nonce] ELSE f

RebindHandoff(h, before, after) ==
    IF /\ before.kind = "active" /\ after.kind = "active"
       /\ h.stage \notin {"Idle", "Failed"} /\ h.act = before.nonce
       /\ SameTuple(before, after) /\ SameTuple(h, before)
    THEN [h EXCEPT !.act = after.nonce] ELSE h

\* ApplyBhrcOldMemberMatchingFenceForAcceptedProbeResponse.
Applied(f, before, after) ==
    LET e == IF after.exp # 0 THEN after.exp ELSE before.exp
        kind == CASE after.stage = "Authorized" -> "Authorized"
                  [] after.stage = "Rejected" -> "FailClosed"
                  [] OTHER -> "Pending" IN
    IF after.stage = "Ordinary" THEN ClearExact(f, before)
    ELSE IF e = 0 THEN f ELSE Fence(kind, after.nonce, after.owner, e)

-----------------------------------------------------------------------------
\* The control thread: the probe.

\* A fresh nonce under the same request: what a lost peer or an authorization
\* that has aged makes of the probe, the fence and the handoff.
Rotated(p) == [p EXCEPT !.stage = "Pending", !.nonce = drawn + 1, !.auth = 0,
                        !.running = FALSE, !.aged = FALSE, !.kept = FALSE,
                        !.asked = FALSE]

Rotate ==
    /\ drawn < MaxNonce
    /\ drawn' = drawn + 1
    /\ probe' = Rotated(probe)
    /\ fence' = RebindFence(fence, probe, probe')
    /\ handoff' = RebindHandoff(handoff, probe, probe')

Reachable(p) == live = p.owner /\ p.owner \in up

Ask ==
    /\ probe.stage = "Pending" /\ Reachable(probe) /\ ~probe.asked
    /\ probe' = [probe EXCEPT !.asked = TRUE]
    /\ UNCHANGED <<live, up, losing, fence, handoff, desc, tried, native, world,
                   latch, main, scan, drawn, entry>>

TimeOut ==
    /\ probe.stage = "Pending"
    /\ "age" \in Upsets
    /\ probe' = [probe EXCEPT !.stage = "TimedOut", !.asked = FALSE]
    /\ UNCHANGED <<live, up, losing, fence, handoff, desc, tried, native, world,
                   latch, main, scan, drawn, entry>>

\* What the host answers: it has an expedition unless it sits in the hall.
Answers == [member : {"Ordinary"}, exp : {0}, auth : {0}, running : {FALSE}]
    \cup [member : {"Returning", "Unknown", "Reject"}, exp : Exps, auth : Auths,
          running : BOOLEAN]

\* A running host redirects a returning friend; nothing else changes B.
Acceptable(a) ==
    \/ a.exp = 0
    \/ probe.exp \in {0, a.exp}
    \/ a.member = "Returning"

StageOf(a) ==
    CASE a.member = "Unknown" \/ (a.member = "Returning" /\ ~a.running) -> "Pending"
      [] a.member = "Returning" /\ a.running -> "Authorized"
      [] a.member = "Ordinary" -> "Ordinary"
      [] a.member = "Reject" -> "Rejected"

\* The answer that finds an ordinary lobby ends the entry of its own fence;
\* an answer to the old probe takes the fence of a scan that is still arming.
Classified(e) ==
    IF e.phase = "arming" /\ fence' # fence THEN [e EXCEPT !.phase = "taken"]
    ELSE IF probe'.stage = "Ordinary" THEN Released(e, probe) ELSE e

Respond ==
    /\ probe.stage = "Pending" /\ probe.asked
    /\ \E a \in Answers :
          /\ Acceptable(a)
          /\ probe' = [probe EXCEPT !.stage = StageOf(a), !.exp = a.exp,
                           !.auth = a.auth, !.running = a.running,
                           !.aged = FALSE,
                           !.asked = StageOf(a) = "Pending"]
    /\ fence' = Applied(fence, probe, probe')
    /\ entry' = Classified(entry)
    /\ UNCHANGED <<live, up, losing, handoff, desc, tried, native, world, latch, main, scan, drawn>>

Age ==
    /\ "age" \in Upsets
    /\ probe.stage \in Granted /\ ~probe.aged
    /\ probe' = [probe EXCEPT !.aged = TRUE]
    /\ UNCHANGED <<live, up, losing, fence, handoff, desc, tried, native, world,
                   latch, main, scan, drawn, entry>>

Rearm ==
    /\ probe.stage \in Granted /\ ~probe.kept /\ probe.aged
    /\ Rotate
    /\ UNCHANGED <<live, up, losing, desc, tried, native, world, latch,
                   main, scan, entry>>

\* Whose handoff is this?  (CompleteBhrcClientAdmissionIfWorldReady)
SubmittedBy(h, p) == /\ h.stage = "Submitted" /\ h.act = p.nonce
                     /\ h.auth = p.auth /\ SameTuple(h, p)

Finished(e, h, p) ==
    [Released(e, p) EXCEPT !.done = IF SubmittedBy(h, p) THEN h.obs ELSE @]

\* Faulty: only the stage of the scheduler is reset.
StageOnly(h) == [h EXCEPT !.stage = "Idle"]

Retired(h) == NoHandoff

Complete ==
    /\ probe.kind = "active" /\ probe.stage \in Granted
    /\ probe.exp # 0 /\ probe.auth # 0 /\ live = probe.owner /\ world
    /\ probe' = [probe EXCEPT !.stage = "Completed", !.aged = FALSE]
    /\ fence' = ClearExact(fence, probe)
    /\ handoff' = IF SubmittedBy(handoff, probe) THEN Retired(handoff)
                  ELSE handoff
    /\ entry' = Finished(entry, handoff, probe)
    /\ UNCHANGED <<live, up, losing, desc, tried, native, world, latch,
                   main, scan, drawn>>

-----------------------------------------------------------------------------
\* A peer is lost: first it is no longer active, then its probe is reset.

LosePeer(o) ==
    /\ "lose" \in Upsets
    /\ o \in up /\ losing = 0
    /\ up' = up \ {o}
    /\ losing' = o
    /\ UNCHANGED <<live, probe, fence, handoff, desc, tried, native, world,
                   latch, main, scan, drawn, entry>>

LoseProbe ==
    /\ losing # 0
    /\ losing' = 0
    /\ \/ probe.owner = losing /\ probe.stage \in Terminal
          /\ probe' = NoProbe
          /\ UNCHANGED <<fence, handoff, drawn>>
       \/ probe.owner = losing /\ probe.stage \notin Terminal /\ Rotate
       \/ probe.owner # losing /\ UNCHANGED <<probe, fence, handoff, drawn>>
    /\ UNCHANGED <<live, up, desc, tried, native, world, latch, main,
                   scan, entry>>

RegisterPeer(o) ==
    /\ live # 0 /\ o \notin up
    /\ up' = up \cup {o}
    /\ UNCHANGED <<live, losing, probe, fence, handoff, desc, tried, native,
                   world, latch, main, scan, drawn, entry>>

\* The lobby is left, or NRSC sees another owner in it.
Move(o) ==
    /\ "move" \in Upsets
    /\ scan.pc = "idle" /\ live # 0 /\ o # live
    /\ live' = o
    /\ entry' = Left(entry, o)
    /\ UNCHANGED <<up, losing, probe, fence, handoff, desc, tried, native, world,
                   latch, main, scan, drawn>>

-----------------------------------------------------------------------------
\* The NRSC thread: HookNrscLobbyScan.  The owner that Steam names guards the
\* gap until NRSC has committed the lobby; 0 stands for a machine without a
\* saved identity for it, which does not change during the scan.

Armed(kind, o, e) ==
    [NoProbe EXCEPT !.stage = "Pending", !.kind = kind, !.nonce = drawn + 1,
                    !.owner = o, !.exp = e]

Arming(o) == [entry EXCEPT !.phase = "arming", !.owner = o]

ScanEnter(pre) ==
    /\ scan.pc = "idle"
    /\ drawn < MaxNonce
    /\ pre = 0 => "unsaved" \in Upsets
    /\ scan' = [NoScan EXCEPT !.pc = "commit", !.pre = pre]
    /\ fence' = IF pre = 0 THEN fence ELSE Fence("Pending", 0, pre, SavedExp)
    /\ entry' = IF pre = 0 THEN entry ELSE Arming(pre)
    /\ UNCHANGED <<live, up, losing, probe, handoff, desc, tried, native, world,
                   latch, main, drawn>>

\* The fence of the scan is withdrawn, and with it the entry it stood for.
Withdraw(o) ==
    /\ fence' = ClearForTransport(fence, o)
    /\ entry' = IF entry.owner = o /\ o # 0
                THEN [entry EXCEPT !.phase = "none", !.owner = 0] ELSE entry

ScanFault ==
    /\ scan.pc = "commit"
    /\ "fault" \in Upsets
    /\ scan' = NoScan
    /\ IF scan.pre # 0 THEN Withdraw(scan.pre) ELSE UNCHANGED <<fence, entry>>
    /\ UNCHANGED <<live, up, losing, probe, handoff, desc, tried, native, world,
                   latch, main, drawn>>

\* NRSC takes the lobby, with its owner and usually its peer, or leaves it.
ScanCommit(o) ==
    /\ scan.pc = "commit"
    /\ live' = o
    /\ up' \in {up, up \cup ({o} \ {0})}
    /\ scan' = [scan EXCEPT !.pc = IF o = 0 THEN "exit" ELSE "publish",
                            !.owner = o]
    /\ entry' = IF scan.pre = 0 THEN Left(entry, o) ELSE entry
    /\ UNCHANGED <<losing, probe, fence, handoff, desc, tried, native, world,
                   latch, main, drawn>>

\* ArmBhrcFriendJoinAuthorityObserverFromCommittedScan publishes the fence of
\* the committed owner and looks at the scheduler of the last attempt.
ScanPublish ==
    /\ scan.pc = "publish" /\ scan.owner \in up /\ scan.pre # 0
    /\ fence' = Fence("Pending", 0, scan.owner, SavedExp)
    /\ entry' = Arming(scan.owner)
    /\ scan' = [scan EXCEPT !.pc = IF handoff.stage = "Failed" THEN "retire"
                                   ELSE "arm",
                            !.h = handoff]
    /\ UNCHANGED <<live, up, losing, probe, handoff, desc, tried, native, world,
                   latch, main, drawn>>

ScanRefuse ==
    /\ scan.pc = "publish"
    /\ \/ scan.owner \notin up /\ UNCHANGED <<fence, entry>>
       \/ scan.owner \in up /\ scan.pre = 0 /\ Withdraw(scan.owner)
    /\ scan' = [scan EXCEPT !.pc = "exit"]
    /\ UNCHANGED <<live, up, losing, probe, handoff, desc, tried, native, world,
                   latch, main, drawn>>

StillFailed(h) ==
    handoff.stage = "Failed" /\ handoff.obs = h.obs /\ handoff.act = h.act

ScanRetireHandoff ==
    /\ scan.pc = "retire"
    /\ handoff' = IF StillFailed(scan.h) THEN Retired(handoff) ELSE handoff
    /\ scan' = [scan EXCEPT !.pc = IF StillFailed(scan.h) THEN "forget"
                                   ELSE "arm"]
    /\ UNCHANGED <<live, up, losing, probe, fence, desc, tried, native, world,
                   latch, main, drawn, entry>>

ScanForgetProbe ==
    /\ scan.pc = "forget"
    /\ probe' = IF probe.nonce \in {scan.h.obs, scan.h.act} THEN NoProbe ELSE probe
    /\ scan' = [scan EXCEPT !.pc = "arm"]
    /\ UNCHANGED <<live, up, losing, fence, handoff, desc, tried, native, world,
                   latch, main, drawn, entry>>

\* The new observer replaces whatever probe there is, and the fence takes its
\* nonce under the probe lock.
ScanArm ==
    /\ scan.pc = "arm"
    /\ drawn < MaxNonce
    /\ drawn' = drawn + 1
    /\ probe' = Armed("observer", scan.owner, SavedExp)
    /\ fence' = Fence("Pending", drawn + 1, scan.owner, SavedExp)
    /\ entry' = [entry EXCEPT !.phase = "armed", !.owner = scan.owner]
    /\ scan' = [scan EXCEPT !.pc = "exit", !.h = NoHandoff, !.armed = TRUE]
    /\ UNCHANGED <<live, up, losing, handoff, desc, tried, native, world, latch, main>>

ScanExit ==
    /\ scan.pc = "exit"
    /\ scan' = NoScan
    /\ IF scan.pre # 0 /\ (~scan.armed \/ scan.pre # scan.owner)
       THEN Withdraw(scan.pre) ELSE UNCHANGED <<fence, entry>>
    /\ UNCHANGED <<live, up, losing, probe, handoff, desc, tried, native, world,
                   latch, main, drawn>>

\* HookNrscQuickMatchFinalize: the finalizer of a superseded attempt is
\* discarded.  No attempt is ever bound to a probe, so none is held.
Finalize ==
    /\ scan.pc = "idle" /\ native = "match"
    /\ ~Firewall
    /\ ~(probe.kind = "active" /\ probe.stage \in {"HandedOff", "Completed"})
    /\ native' = "idle"
    /\ UNCHANGED <<live, up, losing, probe, fence, handoff, desc, tried, world,
                   latch, main, scan, drawn, entry>>

-----------------------------------------------------------------------------
\* The main thread, HookNativeMainGameUpdate.  Between two passes of the hooks
\* the game itself runs, and the other hooks with it.

At(pc) == main.pc = pc

\* A native call may raise instead of doing its work.
Perhaps(works) == {works} \cup {works /\ "fault" \notin Upsets}

\* The main thread moves on and lets go of its copies.
Go(pc) == main' = IF pc = "game" THEN Resting
                  ELSE [Resting EXCEPT !.pc = pc, !.pass = main.pass]

Valid(p, kind) ==
    /\ p.kind = kind /\ p.stage = "Authorized" /\ ~p.aged
    /\ p.nonce # 0 /\ p.exp # 0 /\ p.auth # 0 /\ Reachable(p)

\* TryRestoreBhrcAuthorizedNativeDescriptor: one attempt for each nonce.
Restorable == /\ Valid(probe, "observer") /\ desc = 0 /\ tried # probe.nonce

RestoreLook ==
    /\ At("game") \/ At("top")
    /\ IF Restorable
       THEN /\ tried' = probe.nonce
            /\ main' = [main EXCEPT !.pc = "copy", !.p = probe]
       ELSE tried' = tried /\ Go("begin")
    /\ UNCHANGED <<live, up, losing, probe, fence, handoff, desc, native, world,
                   latch, scan, drawn, entry>>

\* After the sidecar is read the probe and the descriptor are checked again.
StillSame(p) == /\ probe.nonce = p.nonce /\ probe.auth = p.auth
                /\ SameTuple(probe, p) /\ Valid(probe, "observer")

RestoreCopy ==
    /\ At("copy")
    /\ \/ desc' = IF StillSame(main.p) /\ desc = 0 THEN main.p.exp ELSE desc
       \/ "fault" \in Upsets /\ UNCHANGED desc
    /\ Go("begin")
    /\ UNCHANGED <<live, up, losing, probe, fence, handoff, tried, native, world,
                   latch, scan, drawn, entry>>

\* QueueBhrcOldMemberFailClosed: a fresh cancel is due.
Queued(h, obs) ==
    IF h.obs = obs THEN [h EXCEPT !.stage = "FailClosing", !.cancel = FALSE] ELSE h

\* After TryBegin the pass before the game goes on to the game.
AfterBegin == IF main.pass = "post" THEN "process" ELSE "game"

Successor(h) == /\ probe.kind = "observer"
                /\ probe.nonce \notin {h.obs, h.act}

\* TryBeginBhrcAuthorizedOldMemberHandoff, over an earlier handoff.
BeginOver ==
    /\ At("begin") /\ handoff.stage # "Idle"
    /\ handoff' =
         IF ~Successor(handoff) THEN handoff
         ELSE IF handoff.stage = "Failed" THEN Retired(handoff)
         ELSE Queued(handoff, handoff.obs)
    /\ Go(AfterBegin)
    /\ UNCHANGED <<live, up, losing, probe, fence, desc, tried, native, world,
                   latch, scan, drawn, entry>>

BeginLook ==
    /\ At("begin") /\ handoff.stage = "Idle"
    /\ IF probe.kind = "observer" /\ probe.stage # "Ordinary"
       THEN main' = [main EXCEPT !.pc = "open", !.p = probe]
       ELSE Go(AfterBegin)
    /\ UNCHANGED <<live, up, losing, probe, fence, handoff, desc, tried, native,
                   world, latch, scan, drawn, entry>>

HandoffOf(p, stage) ==
    [NoHandoff EXCEPT !.stage = stage, !.obs = p.nonce, !.owner = p.owner,
                      !.exp = p.exp, !.auth = p.auth]

BeginOpen ==
    /\ At("open")
    /\ LET p == main.p IN
       \/ /\ Valid(p, "observer") /\ drawn < MaxNonce
          /\ handoff' = HandoffOf(p, "Awaiting")
          /\ main' = [main EXCEPT !.pc = "promote"]
       \/ /\ ~Valid(p, "observer") /\ p.running /\ p.stage # "Pending"
          /\ handoff' = HandoffOf(p, "FailClosing")
          /\ Go(AfterBegin)
       \/ /\ ~Valid(p, "observer") /\ ~(p.running /\ p.stage # "Pending")
          /\ handoff' = handoff
          /\ Go(AfterBegin)
    /\ UNCHANGED <<live, up, losing, probe, fence, desc, tried, native, world,
                   latch, scan, drawn, entry>>

\* The active probe replaces the probe of the moment, the copied observer or not.
Promote ==
    /\ At("promote")
    /\ drawn < MaxNonce
    /\ drawn' = drawn + 1
    /\ probe' = Armed("active", main.p.owner, main.p.exp)
    /\ fence' = RebindFence(fence, probe, probe')
    /\ handoff' = RebindHandoff(handoff, probe, probe')
    /\ main' = [main EXCEPT !.pc = "snap"]
    /\ UNCHANGED <<live, up, losing, desc, tried, native, world, latch,
                   scan, entry>>

BeginSnap ==
    /\ At("snap")
    /\ main' = [main EXCEPT !.pc = "bind",
                   !.h.act = IF probe.kind = "active" /\ SameTuple(probe, main.p)
                             THEN probe.nonce ELSE 0]
    /\ UNCHANGED <<live, up, losing, probe, fence, handoff, desc, tried, native,
                   world, latch, scan, drawn, entry>>

BeginBind ==
    /\ At("bind")
    /\ handoff' =
         IF handoff.obs # main.p.nonce THEN handoff
         ELSE [handoff EXCEPT !.act = main.h.act,
                              !.stage = IF main.h.act = 0 THEN "FailClosing" ELSE @]
    /\ Go(AfterBegin)
    /\ UNCHANGED <<live, up, losing, probe, fence, desc, tried, native, world,
                   latch, scan, drawn, entry>>

-----------------------------------------------------------------------------
\* ProcessBhrcAuthorizedOldMemberHandoff, at the end of the second pass.

Done == main' = [Resting EXCEPT !.pc = "top", !.pass = "pre"]

FailClosed == handoff' = Queued(handoff, handoff.obs)

Matches(h) == /\ probe.kind = "active" /\ probe.nonce = h.act
              /\ SameTuple(probe, h)

SameAuthority(h, p) == p.auth = h.auth

AtProcess(stages) == At("process") /\ handoff.stage \in stages

ProcessNothing ==
    /\ AtProcess({"Idle", "Failed"})
    /\ Done
    /\ UNCHANGED <<live, up, losing, probe, fence, handoff, desc, tried, native,
                   world, latch, scan, drawn, entry>>

\* The native owner has been submitted: watch its transport until the world is in.
Broken ==
    \/ ~Matches(handoff)
    \/ probe.stage \in {"Rejected", "TimedOut", "Ordinary"}
    \/ handoff.owner \notin up
    \/ probe.stage # "Pending" /\ ~SameAuthority(handoff, probe)

ProcessSubmitted ==
    /\ AtProcess({"Submitted"})
    /\ Done
    /\ \/ /\ Broken \/ (probe.stage \in Granted /\ "age" \in Upsets)
          /\ FailClosed
          /\ UNCHANGED entry
       \/ /\ ~Broken /\ probe.stage # "Completed"
          /\ UNCHANGED <<handoff, entry>>
       \/ /\ ~Broken /\ probe.stage = "Completed"
          /\ handoff' = Retired(handoff)
          /\ entry' = [entry EXCEPT !.done = handoff.obs]
    /\ UNCHANGED <<live, up, losing, probe, fence, desc, tried, native, world,
                   latch, scan, drawn>>

\* The handoff has lasted too long: it fails closed in the same call.
Overdue ==
    /\ AtProcess({"Awaiting", "Waiting"})
    /\ "age" \in Upsets
    /\ FailClosed
    /\ UNCHANGED <<live, up, losing, probe, fence, desc, tried, native, world,
                   latch, main, scan, drawn, entry>>

\* What the original cancel leaves: a busy owner takes a while to stop.
Cancelled == IF native \in {"match", "join", "stopping"} THEN "stopping" ELSE native

\* The native side of failing closed: cancel, clear the latch, look.
FailCancel ==
    /\ AtProcess({"FailClosing"})
    /\ \E works, clears \in Perhaps(TRUE) :
          LET try == ~handoff.cancel IN
          /\ native' = IF try /\ works THEN Cancelled ELSE native
          /\ latch' = IF handoff.latch /\ clears THEN 0 ELSE latch
          /\ main' = [main EXCEPT !.pc = "fail", !.ok = native' = "idle",
                         !.h = [handoff EXCEPT !.cancel = ~try \/ works,
                                               !.latch = @ /\ ~clears]]
    /\ UNCHANGED <<live, up, losing, probe, fence, handoff, desc, tried, world, scan, drawn, entry>>

\* Only then does the handoff end.
Over(h, idle) == h.cancel /\ ~h.latch /\ idle

FailCommit ==
    /\ At("fail")
    /\ LET h == main.h IN
       handoff' =
         IF handoff.obs = h.obs /\ handoff.act = h.act
         THEN [handoff EXCEPT !.cancel = h.cancel, !.latch = h.latch,
                  !.stage = IF Over(h, main.ok) THEN "Failed" ELSE @]
         ELSE handoff
    /\ Done
    /\ UNCHANGED <<live, up, losing, probe, fence, desc, tried, native, world,
                   latch, scan, drawn, entry>>

Refused == ~Matches(handoff)

Authority(h) == Valid(probe, "active") /\ SameAuthority(h, probe)

\* AwaitingActiveAuthority: with authority the persistent facade is cancelled.
AwaitRefused ==
    /\ AtProcess({"Awaiting"})
    /\ \/ Refused
       \/ probe.stage # "Pending" /\ (~Authority(handoff) \/ "fault" \in Upsets)
    /\ FailClosed
    /\ Done
    /\ UNCHANGED <<live, up, losing, probe, fence, desc, tried, native, world,
                   latch, scan, drawn, entry>>

AwaitMore ==
    /\ AtProcess({"Awaiting", "Waiting"})
    /\ Matches(handoff) /\ probe.stage = "Pending"
    /\ Done
    /\ UNCHANGED <<live, up, losing, probe, fence, handoff, desc, tried, native,
                   world, latch, scan, drawn, entry>>

AwaitCancel ==
    /\ AtProcess({"Awaiting"})
    /\ Matches(handoff) /\ Authority(handoff)
    /\ native' = Cancelled
    /\ main' = [main EXCEPT !.pc = "await", !.h = handoff]
    /\ UNCHANGED <<live, up, losing, probe, fence, handoff, desc, tried, world,
                   latch, scan, drawn, entry>>

AwaitCommit ==
    /\ At("await")
    /\ handoff' = IF handoff.obs = main.h.obs /\ handoff.act = main.h.act
                  THEN [handoff EXCEPT !.stage = "Waiting", !.cancel = TRUE]
                  ELSE handoff
    /\ Done
    /\ UNCHANGED <<live, up, losing, probe, fence, desc, tried, native, world,
                   latch, scan, drawn, entry>>

\* WaitingOwnerIdle: the native owner has to be idle, with no other match.
WaitRefused ==
    /\ AtProcess({"Waiting"})
    /\ \/ Refused
       \/ probe.stage # "Pending" /\ (~Authority(handoff) \/ native = "match")
    /\ FailClosed
    /\ Done
    /\ UNCHANGED <<live, up, losing, probe, fence, desc, tried, native, world,
                   latch, scan, drawn, entry>>

WaitBusy ==
    /\ AtProcess({"Waiting"})
    /\ Matches(handoff) /\ Authority(handoff)
    /\ native \in {"join", "stopping"}
    /\ Done
    /\ UNCHANGED <<live, up, losing, probe, fence, handoff, desc, tried, native,
                   world, latch, scan, drawn, entry>>

WaitIdle ==
    /\ AtProcess({"Waiting"})
    /\ Matches(handoff) /\ Authority(handoff) /\ native = "idle"
    /\ main' = [main EXCEPT !.pc = "check", !.h = handoff]
    /\ UNCHANGED <<live, up, losing, probe, fence, handoff, desc, tried, native,
                   world, latch, scan, drawn, entry>>

\* The last look at the probe, the descriptor and the online manager.
FinalCheck ==
    /\ At("check")
    /\ LET h == main.h
           exact == /\ Authority(h) /\ probe.nonce = h.act
                    /\ desc = h.exp IN
       \/ /\ exact
          /\ handoff' = handoff
          /\ main' = [main EXCEPT !.pc = "latch"]
       \/ /\ ~exact \/ "fault" \in Upsets
          /\ handoff' = Queued(handoff, h.obs)
          /\ Done
    /\ UNCHANGED <<live, up, losing, probe, fence, desc, tried, native, world,
                   latch, scan, drawn, entry>>

\* The latch, then the mark in the handoff: no other thread changes that part
\* of a waiting handoff.
SetLatch ==
    /\ At("latch")
    /\ \/ /\ latch' = main.h.obs
          /\ handoff' = IF handoff.obs = main.h.obs THEN [handoff EXCEPT !.latch = TRUE]
                        ELSE handoff
          /\ main' = [main EXCEPT !.pc = "adapter"]
       \/ /\ "fault" \in Upsets
          /\ handoff' = Queued(handoff, main.h.obs)
          /\ Done
          /\ UNCHANGED latch
    /\ UNCHANGED <<live, up, losing, probe, fence, desc, tried, native, world,
                   scan, drawn, entry>>

\* The gate of the backend and of the factory is open for this very handoff.
GateCurrent(h) ==
    /\ handoff.stage = "Waiting" /\ handoff.obs = h.obs /\ handoff.act = h.act
    /\ SameTuple(handoff, h) /\ SameAuthority(handoff, h)
    /\ Matches(h) /\ probe.stage = "Authorized" /\ SameAuthority(h, probe)
    /\ Reachable(probe) /\ desc = h.exp

\* The original adapter may start the native join with or without the gate;
\* only the gate makes that evidence.
Adapter ==
    /\ At("adapter")
    /\ \E joins \in BOOLEAN :
          /\ native' = IF joins /\ native = "idle" THEN "join" ELSE native
          /\ entry' = [entry EXCEPT !.by = IF native' # native THEN main.h.obs ELSE @]
          /\ \E proven \in Perhaps(native' # native /\ GateCurrent(main.h)) :
                main' = [main EXCEPT !.pc = "owner", !.ok = proven]
    /\ UNCHANGED <<live, up, losing, probe, fence, handoff, desc, tried, world,
                   latch, scan, drawn>>

\* CommitBhrcActivePreviousSessionOwnerHandoff, after the authority has been
\* validated once more.
OwnerCommit ==
    /\ At("owner")
    /\ LET commits == /\ main.ok /\ Authority(main.h) /\ probe.nonce = main.h.act IN
       /\ probe' = IF commits THEN [probe EXCEPT !.stage = "HandedOff", !.ready = TRUE,
                                                 !.aged = FALSE]
                   ELSE probe
       /\ main' = [main EXCEPT !.pc = "verify", !.ok = commits]
    /\ UNCHANGED <<live, up, losing, fence, handoff, desc, tried, native, world,
                   latch, scan, drawn, entry>>

Started(h) == probe.nonce = h.act /\ probe.stage = "HandedOff" /\ probe.ready

\* Faulty: the handoff is given up at once.
RolledOff(h, cleared) == IF h.obs = main.h.obs THEN NoHandoff ELSE h

RolledBack(h, cleared) ==
    IF h.obs = main.h.obs
    THEN [h EXCEPT !.latch = ~cleared, !.cancel = FALSE, !.stage = "FailClosing"]
    ELSE h

\* The owner has started, or the latch is taken back and the handoff fails.
Verify ==
    /\ At("verify")
    /\ \/ /\ main.ok /\ Started(main.h)
          /\ main' = [main EXCEPT !.pc = "submit"]
          /\ UNCHANGED <<handoff, latch>>
       \/ /\ ~(main.ok /\ Started(main.h))
          /\ \E works \in Perhaps(TRUE) :
                /\ latch' = IF works THEN 0 ELSE latch
                /\ handoff' = RolledBack(handoff, works)
          /\ Done
    /\ UNCHANGED <<live, up, losing, probe, fence, desc, tried, native, world,
                   scan, drawn, entry>>

Submit ==
    /\ At("submit")
    /\ handoff' = IF handoff.obs = main.h.obs /\ handoff.act = main.h.act
                  THEN [handoff EXCEPT !.stage = "Submitted"] ELSE handoff
    /\ Done
    /\ UNCHANGED <<live, up, losing, probe, fence, desc, tried, native, world,
                   latch, scan, drawn, entry>>

-----------------------------------------------------------------------------
\* While the game itself runs: the start hooks and the teardown of a manager.

Elsewhere == <<live, up, losing, desc, tried, world, latch, scan, drawn>>

\* A start hook looks at the firewall first and acts on what it saw.
StartLook(kind) ==
    /\ At("game")
    /\ ~Firewall
    /\ main' = [main EXCEPT !.pc = "start", !.kind = kind]
    /\ UNCHANGED <<probe, fence, handoff, native, entry>>
    /\ UNCHANGED Elsewhere

StartDone(n) ==
    /\ native' = n
    /\ main' = Resting
    /\ UNCHANGED <<probe, fence, handoff, entry>>
    /\ UNCHANGED Elsewhere

\* A match of before is cancelled first, if it can be accounted for; a start
\* that finds one it cannot account for does nothing.
Restarts == IF native = "match" THEN {"match", "idle"} ELSE {native}

Starts(n) == IF n = "idle" THEN {"idle", "match"} ELSE {n}

\* HookQuickMatchUiAttemptStart.
StartUi ==
    /\ At("start") /\ main.kind = "ui"
    /\ \E n \in Restarts : \E m \in Starts(n) : StartDone(m)

\* HookQuickMatchResultAttemptStart, HookQuickMatchAlternateAttemptStart and
\* HookNativeBState2Owner: a second phase keeps the match there is.
StartOther ==
    /\ At("start") /\ main.kind = "other"
    /\ \E n \in Starts(native) : StartDone(n)

\* HookNativeManagerTeardown and the NRSC leave of a restored member: lobby A
\* stays, and the handoff and the fence are retired one after the other.
Preservable ==
    /\ probe.kind = "active" /\ probe.stage = "HandedOff" /\ probe.ready
    /\ ~probe.kept /\ probe.auth # 0 /\ Reachable(probe)
    /\ SubmittedBy(handoff, probe)

KeepProbe ==
    /\ At("game") /\ Preservable
    /\ probe' = [probe EXCEPT !.kept = TRUE, !.aged = FALSE]
    /\ main' = [main EXCEPT !.pc = "kept", !.p = probe']
    /\ UNCHANGED <<fence, handoff, native, entry>>
    /\ UNCHANGED Elsewhere

KeepHandoff ==
    /\ At("kept")
    /\ LET mine == /\ handoff.stage = "Submitted" /\ handoff.act = main.p.nonce
                   /\ SameTuple(handoff, main.p) IN
       /\ handoff' = IF mine THEN Retired(handoff) ELSE handoff
       /\ entry' = IF mine THEN [entry EXCEPT !.done = handoff.obs] ELSE entry
    /\ main' = [main EXCEPT !.pc = "unfence"]
    /\ UNCHANGED <<probe, fence, native>>
    /\ UNCHANGED Elsewhere

KeepFence ==
    /\ At("unfence")
    /\ fence' = ClearExact(fence, main.p)
    /\ entry' = Released(entry, main.p)
    /\ main' = Resting
    /\ UNCHANGED <<probe, handoff, native>>
    /\ UNCHANGED Elsewhere

-----------------------------------------------------------------------------
\* The native task and its world, and the game that comes and goes.

Native(n, w) ==
    /\ native' = n
    /\ world' = w
    /\ UNCHANGED <<live, up, losing, probe, fence, handoff, desc, tried, latch, main, scan, drawn, entry>>

Stopped == native = "stopping" /\ Native("idle", world)

JoinEnds == native = "join" /\ \E in \in BOOLEAN : Native("idle", in)

MatchEnds == native = "match" /\ Native("idle", world)

LeaveWorld == "leave" \in Upsets /\ world /\ Native(native, FALSE)

-----------------------------------------------------------------------------
Init ==
    /\ live = 0 /\ up = {} /\ losing = 0
    /\ probe = NoProbe /\ fence = NoFence /\ handoff = NoHandoff
    /\ desc = 0 /\ tried = 0
    /\ native = "idle" /\ world = FALSE /\ latch = 0
    /\ main = Resting /\ scan = NoScan /\ drawn = 0 /\ entry = NoEntry

Network ==
    \/ Ask \/ TimeOut \/ Respond \/ Age \/ Rearm \/ Complete \/ LoseProbe
    \/ \E o \in Owners : LosePeer(o) \/ RegisterPeer(o)
    \/ \E o \in {0} \cup Owners : Move(o)

Scan ==
    \/ \E o \in {0} \cup Owners : ScanEnter(o)
    \/ \E o \in {live} \cup Owners : ScanCommit(o)
    \/ ScanFault \/ ScanPublish \/ ScanRefuse \/ ScanRetireHandoff
    \/ ScanForgetProbe \/ ScanArm \/ ScanExit \/ Finalize

Main ==
    \/ RestoreLook \/ RestoreCopy
    \/ BeginOver \/ BeginLook \/ BeginOpen \/ Promote \/ BeginSnap \/ BeginBind
    \/ ProcessNothing \/ ProcessSubmitted \/ Overdue \/ FailCancel \/ FailCommit
    \/ AwaitRefused \/ AwaitMore \/ AwaitCancel \/ AwaitCommit
    \/ WaitRefused \/ WaitBusy \/ WaitIdle \/ FinalCheck \/ SetLatch
    \/ Adapter \/ OwnerCommit \/ Verify \/ Submit
    \/ \E kind \in {"ui", "other"} : StartLook(kind)
    \/ StartUi \/ StartOther
    \/ KeepProbe \/ KeepHandoff \/ KeepFence

World == Stopped \/ JoinEnds \/ MatchEnds \/ LeaveWorld

Next == Network \/ Scan \/ Main \/ World

Spec == Init /\ [][Next]_vars

-----------------------------------------------------------------------------
\* Types and shapes: every record stays in its set, no nonce is beyond those
\* drawn, a probe that is handed off is an active one, and the scheduler that
\* is idle carries nothing over of the attempt before
\* (BhrcOldMemberHandoffState is always replaced as a whole).
ProbeRecords ==
    [stage : {"Idle", "Pending"} \cup Terminal \cup Granted, nonce : 0 .. drawn,
     kind : {"none", "observer", "active"}, owner : {0} \cup Owners,
     exp : {0} \cup Exps, auth : {0} \cup Auths, running : BOOLEAN,
     ready : BOOLEAN, aged : BOOLEAN, kept : BOOLEAN, asked : BOOLEAN]

HandoffRecords ==
    [stage : {"Idle", "Awaiting", "Waiting", "Submitted", "FailClosing", "Failed"},
     obs : 0 .. drawn, act : 0 .. drawn, owner : {0} \cup Owners,
     exp : {0} \cup Exps, auth : {0} \cup Auths, cancel : BOOLEAN, latch : BOOLEAN]

TypeOK ==
    /\ live \in {0} \cup Owners /\ up \subseteq Owners /\ losing \in {0} \cup Owners
    /\ probe \in ProbeRecords /\ handoff \in HandoffRecords
    /\ fence \in [kind : {"None", "Pending", "Authorized", "FailClosed"},
                  nonce : 0 .. drawn, owner : {0} \cup Owners, exp : {0} \cup Exps]
    /\ desc \in {0} \cup Exps /\ tried \in 0 .. drawn /\ latch \in 0 .. drawn
    /\ native \in {"idle", "match", "join", "stopping"}
    /\ world \in BOOLEAN /\ drawn \in Nonces
    /\ probe.stage = "HandedOff" => probe.kind = "active" /\ probe.ready
    /\ handoff.stage = "Idle" => handoff = NoHandoff

\* From the moment the scan has published its fence until the host has called
\* the lobby ordinary, the world is in, or the transport is given up, the
\* member who is in the lobby with that owner cannot enter matching: the
\* handoff or the fence holds the firewall, through lost peers, new nonces,
\* late answers and promotions.  (One gap is known and excepted: an answer to
\* the probe of before, which takes the fence of a scan that is still arming.)
ClosedUntilReleased ==
    entry.phase \in {"arming", "armed"} /\ live = entry.owner => Firewall

\* What a handoff has done to the game is never left without an owner: a set
\* previous-session latch and a native join both belong to a handoff that is
\* still at work or that was finished in good order.
NoOrphanOwner ==
    LET answered(n) == (Owning(handoff) /\ handoff.obs = n) \/ entry.done = n IN
    /\ latch # 0 => answered(latch)
    /\ native = "join" => answered(entry.by)

=============================================================================
