--------------------------- MODULE FullPgdRestore ---------------------------
(***************************************************************************)
(* The client side of the full PlayerGameData (PGD) restore of             *)
(* src/src/reconnect_fix.cpp.  A returning member asks the host of the     *)
(* running expedition for admission; the host delivers the PGD snapshot it *)
(* pinned for that attempt; the client installs it as a restore TICKET and *)
(* its game thread replays it through the native codec twice: as a SEED    *)
(* before the native update that builds the player, and as the FINAL pass  *)
(* after the world has registered the local player.  A GATE, per authority *)
(* generation, freezes the periodic capture of local PGD until then.       *)
(*                                                                         *)
(* Four actors run concurrently:                                           *)
(*   Main   the game thread (HookNativeMainGameUpdate, once per frame);    *)
(*   Ctl    the Steam control thread (packets in, periodic BHRC tick);     *)
(*   Peer   an NRSC callback thread reporting the loss of the host peer;   *)
(*   time   GetTickCount64 passing the 60 s restore window.                *)
(* Main, Ctl and Peer share the probe (g_bhrc_expedition_probe_lock), the  *)
(* ticket, payload and gate (g_bhrc_full_pgd_restore_lock) and the native  *)
(* authority (g_bhrc_native_expedition_authority_lock).  An action below   *)
(* is one critical section, or one stretch between two of them; what a     *)
(* thread carries from one section to the next is in main, ctl and commit. *)
(*                                                                         *)
(* Abstractions.  One host, one master lobby and one client identity.  A   *)
(* value of Gens stands for the host's authority tuple (expedition lobby,  *)
(* authority_commit_seq, source manager id); LocalGen for a tuple the      *)
(* client numbered itself when it joined as an ordinary guest.  Manager,   *)
(* PGD and world objects are numbered in creation order, so equal numbers  *)
(* mean equal pointers. A restore window is the value of                   *)
(* full_pgd_restore_started_tick_ms, which is unique to it; `elapsed'      *)
(* holds the windows 60 s old.  A payload is its snapshot revision.  Chunk *)
(* assembly is outside this module.                                        *)
(***************************************************************************)
EXTENDS Naturals

CONSTANTS
    MaxNonce,   \* request nonces the client may draw
    MaxGen,     \* authority generations the host may go through
    MaxRev,     \* snapshot revisions the host may pin
    MaxMgr,     \* native lobby managers the game may create
    MaxPgd,     \* allocations of the local player's PGD
    MaxReg,     \* registrations of the local player in a world
    MaxWindow,  \* restore windows that may be started
    GuestJoins  \* whether the game may complete an ordinary guest join

ASSUME BoundsAssumption ==
    /\ MaxNonce \in Nat \ {0} /\ MaxGen \in Nat \ {0} /\ MaxRev \in Nat \ {0}
    /\ MaxMgr \in Nat \ {0}   /\ MaxPgd \in Nat \ {0} /\ MaxReg \in Nat \ {0}
    /\ MaxWindow \in Nat \ {0} /\ GuestJoins \in BOOLEAN

LocalGen == MaxGen + 1

Nonces  == 0..MaxNonce          \* 0: no attempt
Gens    == 0..LocalGen          \* 0: no authority
Revs    == 0..MaxRev            \* 0: zeroed payload
Mgrs    == 0..MaxMgr            \* 0: null
Pgds    == 0..MaxPgd            \* 0: null
Regs    == 0..MaxReg            \* 0: never registered
Windows == 0..MaxWindow         \* 0: not started

\* BhrcExpeditionProbeStage; the four stages before the host has answered are
\* "Pending", and OrdinaryLobby, Rejected and TimedOut are "Terminal".
Stages == {"Idle", "Pending", "Authorized", "HandedOff", "Completed", "Terminal"}
AuthorizedStages == {"Authorized", "HandedOff", "Completed"}

\* BhrcFullPgdRestoreGateStage, in its order.
NoGateStage   == 0
AwaitingSeed  == 1
SeedApplied   == 2
FinalApplied  == 3
GateCompleted == 4

VARIABLES
    probe,      \* g_bhrc_expedition_probe
    ticket,     \* g_bhrc_full_pgd_restore_ticket
    payload,    \* g_bhrc_full_pgd_restore_payload
    gate,       \* g_bhrc_full_pgd_restore_gate
    authority,  \* g_bhrc_native_expedition_authority
    candidate,  \* g_bhrc_native_expedition_authority_candidate
    world,      \* g_bhrc_expedition_world_phase
    native,     \* the game's own objects: current manager, PGD, live world
    hot,        \* the client's hot snapshot of its own PGD
    elapsed,    \* windows whose 60 s have passed
    main,       \* the game thread: pc and what TryApply carries across locks
    ctl,        \* the control thread: pc and what its handlers carry
    commit,     \* an authority commit between its two critical sections
    peer,       \* pc of the NRSC callback that reports peer loss
    history     \* what the native codec has done so far (history variable)

vars == <<probe, ticket, payload, gate, authority, candidate, world, native,
          hot, elapsed, main, ctl, commit, peer, history>>

-----------------------------------------------------------------------------
\* Records and their empty values.

NoProbe == [stage |-> "Idle", nonce |-> 0, gen |-> 0, ready |-> FALSE,
            win |-> 0, expired |-> FALSE, finished |-> FALSE]

NoTicket == [valid |-> FALSE, nonce |-> 0, gen |-> 0, mgr |-> 0, rev |-> 0,
             readyPgd |-> 0, applying |-> FALSE, applied |-> FALSE,
             final |-> FALSE, pgd |-> 0, failed |-> FALSE, cancel |-> FALSE]

NoGate == [valid |-> FALSE, gen |-> 0, mgr |-> 0, stage |-> NoGateStage,
           pgd |-> 0, reg |-> 0]

NoAuthority == [gen |-> 0, mgr |-> 0]
NoCandidate == [gen |-> 0, mgr |-> 0, nonce |-> 0]
NoCommit    == [pc |-> "idle", by |-> "none", gen |-> 0, mgr |-> 0,
                moved |-> FALSE, fresh |-> FALSE]

Idle == [pc |-> "idle", nonce |-> 0, gen |-> 0, rev |-> 0, authGen |-> 0,
         mgr |-> 0, pgd |-> 0, reg |-> 0, stage |-> "Idle"]

FrameStart == [pc |-> "top", post |-> FALSE, seeded |-> FALSE, late |-> FALSE,
               nonce |-> 0, gen |-> 0, win |-> 0, rev |-> 0, mgr |-> 0,
               pgd |-> 0, blob |-> 0]

-----------------------------------------------------------------------------
\* Predicates the handlers share.

IsAuthorized(p) == p.stage \in AuthorizedStages

\* Faulty: forgets that a final copy ends the window.
WindowClosedByTimeOnly(p) == p.expired \/ p.win \in elapsed

WindowClosed(p) == p.expired \/ p.finished \/ p.win \in elapsed

\* Faulty: trusts the first section's check of the window.
SnapshotTrusted(win) == FALSE

\* The part of WindowClosed that a snapshot cannot make stale.
SnapshotElapsed(win) == win \in elapsed

\* The ticket of this attempt, failed or not (same_attempt of
\* ArmBhrcFullPgdRestoreTicket).
SameAttempt(t, nonce, gen) == t.valid /\ t.nonce = nonce /\ t.gen = gen

\* BhrcFullPgdRestoreTicketMatchesProbe.
TicketMatches(t, nonce, gen) == SameAttempt(t, nonce, gen) /\ ~t.failed

\* SameBhrcFullPgdRestoreTicketIdentity against what the game thread claimed.
SameIdentity(t) ==
    /\ t.valid
    /\ <<t.nonce, t.gen, t.mgr, t.rev>> =
          <<main.nonce, main.gen, main.mgr, main.rev>>

\* BhrcFullPgdRestoreGateMatchesProbe: the gate carries no nonce.
GateMatches(g, gen, auth) ==
    /\ g.valid /\ g.gen = gen
    /\ \/ auth.mgr = 0 /\ g.mgr = 0
       \/ auth.mgr # 0 /\ auth.gen = gen /\ g.mgr \in {0, auth.mgr}

\* ResolveBhrcAuthorizedFullPgdRestoreTarget: the PGD the restore of generation
\* gen may write, or 0.
Target(gen) ==
    IF authority.mgr # 0 /\ authority.gen = gen /\ native.mgr = authority.mgr
    THEN native.pgd ELSE 0

\* ResolveBhrcFinalFullPgdRestoreTarget, its 1 s of stability apart: the world
\* has registered the local player since this authority was committed.
FinalTarget(gen) ==
    IF /\ world.gen = gen /\ world.regGen = gen
       /\ world.reg > world.base /\ native.world
    THEN Target(gen) ELSE 0

\* Faulty: leaves the payload of the cleared ticket behind.
ClearTicketOnly == ticket' = NoTicket /\ UNCHANGED payload

ClearTicket == ticket' = NoTicket /\ payload' = 0

\* Faulty: clears the ticket under a replay in progress.
ClearUnderReplay == ClearTicket

\* Every clear of the ticket that may meet a replay in progress.
CancelOrClearTicket ==
    IF ticket.applying
    THEN ticket' = [ticket EXCEPT !.cancel = TRUE] /\ UNCHANGED payload
    ELSE ClearTicket

MainPCs == {"top", "commit", "read", "check", "claim", "mismatch", "codec",
            "recheck", "settle", "fail", "mark", "finish", "preExpire",
            "native", "expire", "capture", "store"}
CtlPCs  == {"idle", "arm", "readGate", "armGate", "dropGate", "dropTicket",
            "complete", "completeGate"}

FreshNonce == history.nonces + 1

\* The bound MaxNonce leaves a nonce for a peer loss that is under way.
NonceLeft == IF peer = "probe" THEN FreshNonce < MaxNonce ELSE FreshNonce <= MaxNonce

\* What remains of an attempt under a fresh nonce (peer lost, lifetime over).
Reauthorizing(p) ==
    [p EXCEPT !.stage = "Pending", !.nonce = FreshNonce, !.gen = 0]

\* ArmBhrcFullPgdRestoreGate with the authority, PGD and registration it read
\* before it took the restore lock: keep the gate of a live final object
\* generation, bind a gate armed before the authority, else arm afresh.
ArmGate(gen, auth, pgd, reg) ==
    LET same  == GateMatches(gate, gen, auth)
        bound == IF same /\ gate.mgr = 0 THEN auth.mgr ELSE gate.mgr
        live  == /\ auth.mgr # 0 /\ bound = auth.mgr
                 /\ pgd # 0 /\ gate.pgd = pgd
                 /\ reg # 0 /\ gate.reg = reg
    IN  gate' = IF ~same \/ (gate.stage >= FinalApplied /\ ~live)
                THEN [valid |-> TRUE, gen |-> gen, stage |-> AwaitingSeed,
                      mgr |-> IF auth.gen = gen THEN auth.mgr ELSE 0,
                      pgd |-> 0, reg |-> 0]
                ELSE [gate EXCEPT !.mgr = bound]

\* The registration of the world that is loaded now, or 0.
LiveReg == IF native.world THEN world.reg ELSE 0

\* Faulty: takes the PGD the seed was noted for.
SeededPgd(nonce, gen) ==
    IF TicketMatches(ticket, nonce, gen) /\ ticket.final
    THEN ticket.readyPgd ELSE gate.pgd

\* The PGD a final gate names: the one the final ticket was replayed on.
RestoredPgd(nonce, gen) ==
    IF TicketMatches(ticket, nonce, gen) /\ ticket.final
    THEN ticket.pgd ELSE gate.pgd

\* MarkBhrcFullPgdRestoreGateStage: the stage only moves up, and only for the
\* gate of this generation.
MarkGate(nonce, gen, stage) ==
    gate' =
      IF GateMatches(gate, gen, authority) /\ stage > gate.stage
      THEN [gate EXCEPT
              !.stage = stage,
              !.mgr = IF gate.mgr = 0 THEN authority.mgr ELSE gate.mgr,
              !.pgd = IF stage = FinalApplied THEN RestoredPgd(nonce, gen)
                      ELSE gate.pgd,
              !.reg = IF stage = FinalApplied THEN LiveReg ELSE gate.reg]
      ELSE gate

-----------------------------------------------------------------------------
\* The game thread: one frame of HookNativeMainGameUpdate.

MainGoto(pc) == main' = [main EXCEPT !.pc = pc]

\* TryApply returns to HookNativeMainGameUpdate; its locals are gone.
Return == main' = [FrameStart EXCEPT
                     !.pc = IF main.post THEN "expire" ELSE "native",
                     !.post = main.post, !.seeded = main.seeded]

\* Nothing to publish: the frame goes straight to the pre-update TryApply.
BeginFrame ==
    /\ main.pc = "top"
    /\ MainGoto("read")
    /\ UNCHANGED <<probe, ticket, payload, gate, authority, candidate, world,
                   native, hot, elapsed, ctl, commit, peer, history>>

\* TryPublishBhrcAuthorizedReturningAuthorityCandidate.
PublishCandidate ==
    /\ main.pc = "top"
    /\ probe.stage = "HandedOff" /\ probe.ready
    /\ native.mgr # 0 /\ native.pgd # 0
    /\ authority # [gen |-> probe.gen, mgr |-> native.mgr]
    /\ candidate' = [gen |-> probe.gen, mgr |-> native.mgr, nonce |-> probe.nonce]
    /\ MainGoto("commit")
    /\ UNCHANGED <<probe, ticket, payload, gate, authority, world, native, hot,
                   elapsed, ctl, commit, peer, history>>

\* TryCommitPendingNativeExpeditionAuthority finds the candidate not ready.
SkipCommit ==
    /\ main.pc = "commit" /\ commit.by # "main"
    /\ MainGoto("read")
    /\ UNCHANGED <<probe, ticket, payload, gate, authority, candidate, world,
                   native, hot, elapsed, ctl, commit, peer, history>>

\* TryApply, first section: snapshot the probe.  A closed window ends the
\* attempt, except that the final pass may drain a seed of this same frame.
ReadProbe ==
    LET late == main.post /\ main.seeded
    IN  /\ main.pc = "read"
        /\ IF WindowClosed(probe) /\ ~late
           THEN MainGoto(IF main.post THEN "expire" ELSE "preExpire")
           ELSE IF IsAuthorized(probe) /\ probe.ready
           THEN main' = [main EXCEPT !.pc = "check", !.late = late,
                                     !.nonce = probe.nonce, !.gen = probe.gen,
                                     !.win = probe.win]
           ELSE Return
        /\ UNCHANGED <<probe, ticket, payload, gate, authority, candidate,
                       world, native, hot, elapsed, ctl, commit, peer, history>>

\* Faulty: lets either pass claim the ticket.
ForAnyPass == TRUE

\* The seed pass takes a ticket that is not seeded, the final pass one that is.
ForThisPass == ticket.applied = main.post

\* The ticket this pass may claim: pending, bound to the live manager, and at
\* the stage of this side of the native update.
Claimable(target) ==
    /\ TicketMatches(ticket, main.nonce, main.gen)
    /\ ~ticket.applying /\ ~ticket.final /\ ~ticket.cancel
    /\ ForThisPass
    /\ authority.mgr # 0 /\ ticket.mgr = authority.mgr
    /\ target # 0

\* Second section: snapshot ticket and authority, resolve the target.  A seed
\* target is first noted, and claimed in a later frame once it is 1 s old.
CheckTicket ==
    LET target == IF main.post THEN FinalTarget(main.gen) ELSE Target(main.gen)
        settled == main.post \/ ticket.readyPgd = target
    IN  /\ main.pc = "check"
        /\ IF Claimable(target)
           THEN \/ /\ settled
                   /\ \E pc \in {"claim", "mismatch"} :
                        main' = [main EXCEPT !.pc = pc, !.mgr = ticket.mgr,
                                             !.rev = ticket.rev, !.pgd = target]
                   /\ UNCHANGED ticket
                \/ /\ ~settled
                   /\ ticket' = [ticket EXCEPT !.readyPgd = target]
                   /\ Return
                \/ Return /\ UNCHANGED ticket
           ELSE Return /\ UNCHANGED ticket
        /\ UNCHANGED <<probe, payload, gate, authority, candidate, world,
                       native, hot, elapsed, ctl, commit, peer, history>>

\* Third section: claim the ticket and copy the payload.
ClaimTicket ==
    /\ main.pc = "claim"
    /\ IF /\ SameIdentity(ticket)
          /\ ~ticket.applying /\ ~ticket.final /\ ~ticket.failed /\ ~ticket.cancel
          /\ ForThisPass
          /\ main.late \/ ~SnapshotElapsed(main.win)
          /\ main.post \/ ticket.readyPgd = main.pgd
       THEN /\ ticket' = [ticket EXCEPT !.applying = TRUE]
            /\ main' = [main EXCEPT !.pc = "codec", !.blob = payload]
       ELSE Return /\ UNCHANGED ticket
    /\ UNCHANGED <<probe, payload, gate, authority, candidate, world, native,
                   hot, elapsed, ctl, commit, peer, history>>

\* Outside every lock: check the blob's hash, run the native deserializer and
\* its post-load refresh on the target.
RunCodec ==
    /\ main.pc = "codec"
    /\ \/ /\ main.blob = main.rev
          /\ MainGoto(IF main.post THEN "recheck" ELSE "settle")
          /\ history' =
               IF main.post
               THEN [history EXCEPT !.objects = @ \cup
                       {[gen |-> main.gen, pgd |-> main.pgd, reg |-> world.reg]}]
               ELSE [history EXCEPT !.seeds = @ \cup {<<main.nonce, main.rev>>}]
       \/ /\ MainGoto("fail")
          /\ UNCHANGED history
    /\ UNCHANGED <<probe, ticket, payload, gate, authority, candidate, world,
                   native, hot, elapsed, ctl, commit, peer>>

\* The final pass applies missing saved effects only while its probe and its
\* claim are still the live ones.
RecheckEffects ==
    /\ main.pc = "recheck"
    /\ \/ /\ probe.nonce = main.nonce /\ probe.gen = main.gen
          /\ SameIdentity(ticket) /\ ticket.applying /\ ~ticket.cancel
          /\ MainGoto("settle")
       \/ MainGoto("fail")
    /\ UNCHANGED <<probe, ticket, payload, gate, authority, candidate, world,
                   native, hot, elapsed, ctl, commit, peer, history>>

\* Last section of a replay that ran: honour a cancellation, else record it.
SettleTicket ==
    /\ main.pc = "settle"
    /\ IF ~(SameIdentity(ticket) /\ ticket.applying)
       THEN Return /\ UNCHANGED <<ticket, payload>>
       ELSE IF ticket.cancel
       THEN Return /\ ClearTicket
       ELSE /\ ticket' = IF main.post
                         THEN [ticket EXCEPT !.applying = FALSE, !.final = TRUE,
                                             !.pgd = main.pgd]
                         ELSE [ticket EXCEPT !.applying = FALSE, !.applied = TRUE]
            /\ MainGoto("mark")
            /\ UNCHANGED payload
    /\ UNCHANGED <<probe, gate, authority, candidate, world, native, hot,
                   elapsed, ctl, commit, peer, history>>

\* After the commit: store the final copy as the revision floor of the hot
\* snapshot, note a seed of this frame, and raise the gate.
RaiseGate ==
    /\ main.pc = "mark"
    /\ MarkGate(main.nonce, main.gen,
                IF main.post THEN FinalApplied ELSE SeedApplied)
    /\ IF main.post
       THEN /\ hot' = "restored"
            /\ MainGoto("finish")
            /\ history' = [history EXCEPT !.finals = @ \cup {main.nonce}]
       ELSE /\ main' = [FrameStart EXCEPT !.pc = "native", !.seeded = TRUE]
            /\ UNCHANGED <<hot, history>>
    /\ UNCHANGED <<probe, ticket, payload, authority, candidate, world, native,
                   elapsed, ctl, commit, peer>>

\* The window is finished if the probe is still the attempt that ran.
FinishWindow ==
    /\ main.pc = "finish"
    /\ probe' = IF probe.nonce = main.nonce /\ probe.win = main.win
                THEN [probe EXCEPT !.finished = TRUE] ELSE probe
    /\ Return
    /\ UNCHANGED <<ticket, payload, gate, authority, candidate, world, native,
                   hot, elapsed, ctl, commit, peer, history>>

\* Faulty: leaves the failed ticket to its replay.
FailedApplying(t) == [t EXCEPT !.failed = TRUE, !.applied = FALSE]

Failed(t) == [t EXCEPT !.applying = FALSE, !.failed = TRUE, !.applied = FALSE]

\* MarkBhrcFullPgdRestoreFailed, from a codec version mismatch (before the
\* claim) or from a replay that went wrong (after it).
FailTicket ==
    /\ main.pc \in {"mismatch", "fail"}
    /\ IF ~SameIdentity(ticket)
       THEN UNCHANGED <<ticket, payload>>
       ELSE IF ticket.cancel
       THEN ClearTicket
       ELSE ticket' = Failed(ticket) /\ UNCHANGED payload
    /\ Return
    /\ UNCHANGED <<probe, gate, authority, candidate, world, native, hot,
                   elapsed, ctl, commit, peer, history>>

\* Faulty: expires a window that has been finished.
ExpiryDueAnyway == /\ ~probe.expired /\ probe.win \in elapsed
                   /\ ~ticket.applying

ExpiryDue == /\ ~probe.expired /\ ~probe.finished /\ probe.win \in elapsed
             /\ ~ticket.applying /\ ~ticket.final

\* Faulty: leaves the ticket of an expired window as it is.
ExpiredInName(t) == t

Expired(t) == [t EXCEPT !.failed = TRUE, !.cancel = TRUE]

\* ExpireBhrcFullPgdRestoreWindowMainThread: only the game thread closes a
\* window, and never under a replay or after a final copy.
ExpireWindow ==
    /\ main.pc \in {"preExpire", "expire"}
    /\ probe' = IF ExpiryDue THEN [probe EXCEPT !.expired = TRUE] ELSE probe
    /\ IF ExpiryDue /\ ticket.valid
       THEN ticket' = Expired(ticket) /\ payload' = 0
       ELSE UNCHANGED <<ticket, payload>>
    /\ MainGoto(IF main.pc = "expire" THEN "capture" ELSE "native")
    /\ UNCHANGED <<gate, authority, candidate, world, native, hot, elapsed,
                   ctl, commit, peer, history>>

\* CaptureBhrcLocalFullPgdMainThread, first half: IsBhrcFullPgdCaptureFrozen.
CaptureFrozen ==
    /\ ~ (/\ probe.expired \/ probe.finished
          /\ probe.gen = authority.gen)
    /\ gate.valid /\ gate.gen = authority.gen /\ gate.mgr = authority.mgr
    /\ gate.stage < FinalApplied

BeginCapture ==
    /\ main.pc = "capture"
    /\ IF authority.mgr = 0 \/ ~native.world \/ native.pgd = 0 \/ CaptureFrozen
       THEN main' = FrameStart
       ELSE \/ MainGoto("store")
            \/ main' = FrameStart       \* the interval has not passed
    /\ UNCHANGED <<probe, ticket, payload, gate, authority, candidate, world,
                   native, hot, elapsed, ctl, commit, peer, history>>

\* Faulty: any gate of the attempt will do.
GateIsEnough == GateMatches(gate, probe.gen, authority)

\* Second half, with a new snapshot of the probe: a returning member whose
\* final copy is not live does not publish; otherwise its PGD becomes the hot
\* snapshot of its own.
FinalCopyLive ==
    /\ GateMatches(gate, probe.gen, authority)
    /\ gate.stage >= FinalApplied /\ gate.pgd = native.pgd

RestorePending ==
    /\ IsAuthorized(probe) /\ ~probe.expired /\ ~probe.finished
    /\ probe.ready /\ probe.gen = authority.gen
    /\ ~FinalCopyLive

IsRestored(pgd) == \E o \in history.objects : o.pgd = pgd

StoreCapture ==
    /\ main.pc = "store"
    /\ hot' = IF RestorePending THEN hot
              ELSE IF IsRestored(native.pgd) THEN "restored" ELSE "raw"
    /\ main' = FrameStart
    /\ UNCHANGED <<probe, ticket, payload, gate, authority, candidate, world,
                   native, elapsed, ctl, commit, peer, history>>

-----------------------------------------------------------------------------
\* The original native update, on the game thread: what the game and the hooks
\* it runs into may do before it returns.

InNative == main.pc = "native"

\* The game allocates the local player's data anew.
NewPlayerGameData ==
    /\ InNative /\ native.pgd < MaxPgd
    /\ native' = [native EXCEPT !.pgd = @ + 1]
    /\ UNCHANGED <<probe, ticket, payload, gate, authority, candidate, world,
                   hot, elapsed, main, ctl, commit, peer, history>>

\* The native lobby manager of a new session reaches its joined state.
NewManager ==
    /\ InNative /\ native.mgr = 0 /\ native.made < MaxMgr
    /\ native' = [native EXCEPT !.mgr = native.made + 1, !.made = @ + 1]
    /\ UNCHANGED <<probe, ticket, payload, gate, authority, candidate, world,
                   hot, elapsed, main, ctl, commit, peer, history>>

\* InvalidateNativeExpeditionEvidenceForManager: the manager is torn down; an
\* authority bound to it is retired and the admission state goes with it.
RetireManager ==
    /\ InNative /\ native.mgr # 0
    /\ native' = [native EXCEPT !.mgr = 0]
    /\ candidate' = IF candidate.mgr = native.mgr THEN NoCandidate ELSE candidate
    /\ IF authority.mgr = native.mgr
       THEN authority' = NoAuthority /\ CancelOrClearTicket
       ELSE UNCHANGED <<authority, ticket, payload>>
    /\ UNCHANGED <<probe, gate, world, hot, elapsed, main, ctl, commit, peer,
                   history>>

\* ObserveBhrcExpeditionWorldRegistration of the local player.
RegisterWorld ==
    /\ InNative /\ world.reg < MaxReg
    /\ world' = [world EXCEPT !.reg = @ + 1, !.regGen = world.gen]
    /\ native' = [native EXCEPT !.world = TRUE]
    /\ UNCHANGED <<probe, ticket, payload, gate, authority, candidate, hot,
                   elapsed, main, ctl, commit, peer, history>>

UnloadWorld ==
    /\ InNative /\ native.world
    /\ native' = [native EXCEPT !.world = FALSE]
    /\ UNCHANGED <<probe, ticket, payload, gate, authority, candidate, world,
                   hot, elapsed, main, ctl, commit, peer, history>>

\* Faulty: every handoff starts a window.
RestartedWindow(p) == history.wins + 1

\* The window of an attempt is started once.
WindowOf(p) == IF p.win = 0 THEN history.wins + 1 ELSE p.win

\* The native previous-session owner takes the authorized attempt over: the
\* handoff starts the restore window and arms the world generation.
HandOff ==
    /\ InNative /\ probe.stage = "Authorized"
    /\ probe.win = 0 => history.wins < MaxWindow
    /\ probe' = [probe EXCEPT !.stage = "HandedOff", !.ready = TRUE,
                              !.win = WindowOf(probe)]
    /\ history' = [history EXCEPT !.wins = IF probe.win = 0 THEN @ + 1 ELSE @]
    /\ world' = [world EXCEPT !.pendNonce = probe.nonce, !.pendBase = world.reg]
    /\ UNCHANGED <<ticket, payload, gate, authority, candidate, native, hot,
                   elapsed, main, ctl, commit, peer>>

\* PublishNativeExpeditionGuestAuthorityAfterReady: the game completed a guest
\* join for which no returning attempt is authorized.
GuestCandidate ==
    /\ InNative /\ GuestJoins /\ ~IsAuthorized(probe)
    /\ native.mgr # 0 /\ native.pgd # 0 /\ authority.mgr # native.mgr
    /\ candidate' = [gen |-> LocalGen, mgr |-> native.mgr, nonce |-> 0]
    /\ UNCHANGED <<probe, ticket, payload, gate, authority, world, native, hot,
                   elapsed, main, ctl, commit, peer, history>>

\* The update returns, or raises and skips everything after it in this frame.
EndNative ==
    /\ InNative
    /\ \/ main' = [main EXCEPT !.pc = "read", !.post = TRUE]
       \/ main' = FrameStart
    /\ UNCHANGED <<probe, ticket, payload, gate, authority, candidate, world,
                   native, hot, elapsed, ctl, commit, peer, history>>

-----------------------------------------------------------------------------
\* TryCommitPendingNativeExpeditionAuthority: on the game thread right after
\* it published a candidate, or in the control thread's periodic tick.

MayCommit(by) ==
    /\ commit.pc = "idle" /\ candidate.gen # 0
    /\ by = "main" => main.pc = "commit"
    /\ by = "ctl"  => ctl.pc = "idle"

CandidateMatchesProbe ==
    /\ probe.stage = "HandedOff" /\ probe.ready
    /\ probe.nonce = candidate.nonce /\ probe.gen = candidate.gen

\* A returning candidate whose attempt has changed is dropped.
DropCandidate(by) ==
    /\ MayCommit(by) /\ candidate.nonce # 0 /\ ~CandidateMatchesProbe
    /\ candidate' = NoCandidate
    /\ main' = IF by = "main" THEN [main EXCEPT !.pc = "read"] ELSE main
    /\ UNCHANGED <<probe, ticket, payload, gate, authority, world, native, hot,
                   elapsed, ctl, commit, peer, history>>

\* The world generation at a commit.  A registration that the native owner
\* produced after the handoff but before the commit is promoted into the new
\* authority's generation; otherwise the generation starts at the commit.
WorldAfterCommit ==
    LET new == authority # [gen |-> candidate.gen, mgr |-> candidate.mgr]
        promoted == /\ candidate.nonce # 0
                    /\ world.pendNonce = candidate.nonce
                    /\ native.world /\ world.reg > world.pendBase
    IN  [world EXCEPT
           !.gen = candidate.gen,
           !.base = IF ~new THEN @ ELSE IF promoted THEN world.pendBase ELSE world.reg,
           !.regGen = IF ~new THEN @ ELSE IF promoted THEN candidate.gen ELSE 0,
           !.pendNonce = 0, !.pendBase = 0]

CommitAuthority(by) ==
    /\ MayCommit(by)
    /\ candidate.nonce # 0 => CandidateMatchesProbe
    /\ native.mgr = candidate.mgr /\ native.pgd # 0
    /\ authority' = [gen |-> candidate.gen, mgr |-> candidate.mgr]
    /\ world' = WorldAfterCommit
    /\ candidate' = NoCandidate
    /\ \E moved \in BOOLEAN :           \* the expedition lobby changed too
         /\ moved => authority.gen \notin {0, candidate.gen}
         /\ commit' = [pc |-> "reconcile", by |-> by, gen |-> candidate.gen,
                       mgr |-> candidate.mgr, moved |-> moved,
                       fresh |-> authority.mgr = 0]
    /\ UNCHANGED <<probe, ticket, payload, gate, native, hot, elapsed, main,
                   ctl, peer, history>>

\* The commit is over; the game thread, if it ran it, goes on to TryApply.
EndCommit ==
    /\ commit' = NoCommit
    /\ main' = IF commit.by = "main" THEN [main EXCEPT !.pc = "read"] ELSE main

CommitGoto(pc) == commit' = [commit EXCEPT !.pc = pc] /\ UNCHANGED main

\* ReconcileBhrcFullPgdAuthorityGeneration: bind ticket and gate of the probe's
\* own generation to the committed manager, retire those of any other.
Reconcile ==
    LET committed == [gen |-> commit.gen, mgr |-> commit.mgr]
        mine == IsAuthorized(probe) /\ probe.gen = commit.gen
        ticketMine == /\ mine /\ TicketMatches(ticket, probe.nonce, probe.gen)
                      /\ ticket.mgr \in {0, commit.mgr}
        gateMine == mine /\ GateMatches(gate, probe.gen, committed)
        rearm == gate.valid /\ ~gateMine /\ mine
                 /\ ~probe.expired /\ ~probe.finished
    IN  /\ commit.pc = "reconcile"
        /\ IF ticketMine
           THEN ticket' = [ticket EXCEPT !.mgr = commit.mgr] /\ UNCHANGED payload
           ELSE IF ticket.valid THEN CancelOrClearTicket
           ELSE UNCHANGED <<ticket, payload>>
        /\ gate' = IF gateMine THEN [gate EXCEPT !.mgr = commit.mgr] ELSE NoGate
        /\ IF rearm
           THEN /\ commit' = [commit EXCEPT !.pc = "gate",
                                            !.moved = @ /\ ~ticketMine]
                /\ UNCHANGED main
           ELSE IF commit.moved /\ ~ticketMine THEN CommitGoto("clear")
           ELSE EndCommit
        \* a hot snapshot of another expedition is dropped
        /\ hot' \in IF commit.moved THEN {"none"}
                    ELSE IF commit.fresh THEN {hot, "none"} ELSE {hot}
        /\ UNCHANGED <<probe, authority, candidate, world, native, elapsed, ctl,
                       peer, history>>

\* A gate retired under an attempt of the same generation is armed again.
RearmGate ==
    /\ commit.pc = "gate"
    /\ ArmGate(commit.gen, authority, Target(commit.gen), LiveReg)
    /\ IF commit.moved THEN CommitGoto("clear") ELSE EndCommit
    /\ UNCHANGED <<probe, ticket, payload, authority, candidate, world, native,
                   hot, elapsed, ctl, peer, history>>

\* ClearBhrcFullPgdAdmissionTransport after the expedition changed.
ClearMovedTicket ==
    /\ commit.pc = "clear"
    /\ CancelOrClearTicket
    /\ EndCommit
    /\ UNCHANGED <<probe, gate, authority, candidate, world, native, hot,
                   elapsed, ctl, peer, history>>

-----------------------------------------------------------------------------
\* The control thread.

CtlIdle == ctl.pc = "idle" /\ ~(commit.pc # "idle" /\ commit.by = "ctl")

\* A restore delivery is complete and belongs to the live attempt
\* (HandleRevenantFixFullPgdChunk); ArmBhrcFullPgdRestoreTicket then reads the
\* authority, the PGD and the world before it takes its locks.
ReceiveDelivery(rev) ==
    /\ CtlIdle /\ IsAuthorized(probe) /\ ~WindowClosed(probe)
    /\ ctl' = [Idle EXCEPT !.pc = "arm", !.nonce = probe.nonce, !.gen = probe.gen,
                           !.rev = rev, !.pgd = native.pgd, !.reg = LiveReg,
                           !.mgr = IF authority.gen = probe.gen
                                   THEN authority.mgr ELSE 0]
    /\ UNCHANGED <<probe, ticket, payload, gate, authority, candidate, world,
                   native, hot, elapsed, main, commit, peer, history>>

\* Faulty: does not compare the PGD.
GateFinalForGeneration ==
    /\ gate.valid /\ gate.stage >= FinalApplied /\ gate.gen = ctl.gen
    /\ ctl.mgr # 0 /\ gate.mgr = ctl.mgr
    /\ ctl.reg # 0 /\ gate.reg = ctl.reg

\* The gate says that this very native object generation is already final.
GateFinalForDelivery ==
    /\ gate.valid /\ gate.stage >= FinalApplied /\ gate.gen = ctl.gen
    /\ ctl.mgr # 0 /\ gate.mgr = ctl.mgr
    /\ gate.pgd # 0 /\ gate.pgd = ctl.pgd
    /\ ctl.reg # 0 /\ gate.reg = ctl.reg

\* ArmBhrcFullPgdRestoreTicket under the probe and restore locks: a delivery of
\* the attempt that already has a ticket never touches it; one for another
\* attempt replaces whatever is there, unless a replay is running.
ArmTicket ==
    LET current == probe.nonce = ctl.nonce /\ ~WindowClosed(probe)
        installed == [NoTicket EXCEPT !.valid = TRUE, !.nonce = ctl.nonce,
                         !.gen = ctl.gen, !.mgr = ctl.mgr, !.rev = ctl.rev]
    IN  /\ ctl.pc = "arm"
        /\ ctl' = Idle
        /\ IF current /\ ~SameAttempt(ticket, ctl.nonce, ctl.gen) /\ ~ticket.applying
           THEN IF GateFinalForDelivery
                THEN /\ ticket' = [installed EXCEPT !.applied = TRUE,
                                      !.final = TRUE, !.pgd = gate.pgd]
                     /\ payload' = 0
                ELSE ticket' = installed /\ payload' = ctl.rev
           ELSE UNCHANGED <<ticket, payload>>
        /\ UNCHANGED <<probe, gate, authority, candidate, world, native, hot,
                       elapsed, main, commit, peer, history>>

\* HandleBhrcExpeditionProbeResponse of a running expedition that recognises
\* the member: the attempt is authorized under the host's generation.
Authorize(gen) ==
    /\ CtlIdle /\ probe.stage = "Pending"
    /\ probe' = [probe EXCEPT !.stage = "Authorized", !.gen = gen]
    /\ ctl' = IF probe.expired \/ probe.finished THEN Idle
              ELSE [Idle EXCEPT !.pc = "readGate", !.gen = gen]
    /\ UNCHANGED <<ticket, payload, gate, authority, candidate, world, native,
                   hot, elapsed, main, commit, peer, history>>

\* ArmBhrcFullPgdRestoreGate, before and under the restore lock.
ReadForGate ==
    /\ ctl.pc = "readGate"
    /\ ctl' = [ctl EXCEPT !.pc = "armGate", !.mgr = authority.mgr,
                          !.authGen = authority.gen, !.pgd = Target(ctl.gen),
                          !.reg = LiveReg]
    /\ UNCHANGED <<probe, ticket, payload, gate, authority, candidate, world,
                   native, hot, elapsed, main, commit, peer, history>>

ArmGateForResponse ==
    /\ ctl.pc = "armGate"
    /\ ArmGate(ctl.gen, [gen |-> ctl.authGen, mgr |-> ctl.mgr], ctl.pgd, ctl.reg)
    /\ ctl' = Idle
    /\ UNCHANGED <<probe, ticket, payload, authority, candidate, world, native,
                   hot, elapsed, main, commit, peer, history>>

\* An OrdinaryLobby or Rejected response, or the probe's own timeout, ends the
\* attempt; gate and ticket go in two further critical sections.
Terminate ==
    /\ CtlIdle /\ probe.stage = "Pending"
    /\ probe' = [probe EXCEPT !.stage = "Terminal"]
    /\ ctl' = [Idle EXCEPT !.pc = "dropGate"]
    /\ UNCHANGED <<ticket, payload, gate, authority, candidate, world, native,
                   hot, elapsed, main, commit, peer, history>>

DropGate ==
    /\ ctl.pc = "dropGate"
    /\ gate' = NoGate
    /\ ctl' = [ctl EXCEPT !.pc = "dropTicket"]
    /\ UNCHANGED <<probe, ticket, payload, authority, candidate, world, native,
                   hot, elapsed, main, commit, peer, history>>

DropTicket ==
    /\ ctl.pc = "dropTicket"
    /\ CancelOrClearTicket
    /\ ctl' = Idle
    /\ UNCHANGED <<probe, gate, authority, candidate, world, native, hot,
                   elapsed, main, commit, peer, history>>

\* AdvanceBhrcNativeAdmissionTransport: an authorization older than its
\* lifetime asks again under a fresh nonce; the ticket is left where it is.
RearmByLifetime ==
    /\ CtlIdle /\ probe.stage \in {"Authorized", "HandedOff"}
    /\ NonceLeft
    /\ probe' = Reauthorizing(probe)
    /\ history' = [history EXCEPT !.nonces = @ + 1]
    /\ UNCHANGED <<ticket, payload, gate, authority, candidate, world, native,
                   hot, elapsed, main, ctl, commit, peer>>

\* Faulty: a seeded ticket completes the admission.
SeedIsEnough ==
    /\ Target(probe.gen) # 0
    /\ TicketMatches(ticket, probe.nonce, probe.gen) /\ ticket.applied

\* IsBhrcFullPgdFinalRestoreAppliedForProbe.
FinalRestoreApplied ==
    LET target == Target(probe.gen)
    IN  /\ target # 0
        /\ TicketMatches(ticket, probe.nonce, probe.gen)
        /\ ticket.mgr = authority.mgr /\ ticket.final /\ ticket.pgd = target
        /\ GateMatches(gate, probe.gen, authority)
        /\ gate.mgr = authority.mgr /\ gate.stage >= FinalApplied
        /\ gate.pgd = target /\ gate.reg # 0 /\ gate.reg = LiveReg

\* CompleteBhrcClientAdmissionIfWorldReady: checks first, then the probe is
\* completed under its lock if it is still that attempt in that stage.
CheckCompletion ==
    /\ CtlIdle /\ probe.stage \in {"Authorized", "HandedOff"}
    /\ FinalRestoreApplied
    /\ ctl' = [Idle EXCEPT !.pc = "complete", !.nonce = probe.nonce,
                           !.gen = probe.gen, !.stage = probe.stage]
    /\ UNCHANGED <<probe, ticket, payload, gate, authority, candidate, world,
                   native, hot, elapsed, main, commit, peer, history>>

CompleteAdmission ==
    /\ ctl.pc = "complete"
    /\ IF <<probe.nonce, probe.gen, probe.stage>> = <<ctl.nonce, ctl.gen, ctl.stage>>
       THEN /\ probe' = [probe EXCEPT !.stage = "Completed"]
            /\ ctl' = [ctl EXCEPT !.pc = "completeGate"]
       ELSE ctl' = Idle /\ UNCHANGED probe
    /\ UNCHANGED <<ticket, payload, gate, authority, candidate, world, native,
                   hot, elapsed, main, commit, peer, history>>

CompleteGate ==
    /\ ctl.pc = "completeGate"
    /\ MarkGate(ctl.nonce, ctl.gen, GateCompleted)
    /\ ctl' = Idle
    /\ UNCHANGED <<probe, ticket, payload, authority, candidate, world, native,
                   hot, elapsed, main, commit, peer, history>>

-----------------------------------------------------------------------------
\* Other threads.

\* ArmBhrcExpeditionProbe: a new attempt, from a lobby entry or the startup
\* path.  The same native attempt keeps its window, any other starts anew.
ArmProbe ==
    /\ NonceLeft
    /\ \E keep \in BOOLEAN :
         probe' = [NoProbe EXCEPT !.stage = "Pending", !.nonce = FreshNonce,
                     !.win = IF keep THEN probe.win ELSE 0,
                     !.expired = keep /\ probe.win # 0 /\ probe.expired,
                     !.finished = keep /\ probe.win # 0 /\ probe.finished]
    /\ history' = [history EXCEPT !.nonces = @ + 1]
    /\ UNCHANGED <<ticket, payload, gate, authority, candidate, world, native,
                   hot, elapsed, main, ctl, commit, peer>>

\* ClearBhrcNativeAdmissionForPeer on the loss of the host: first the restore
\* transport (ClearBhrcFullPgdTransportForPeer) ...
LosePeer ==
    /\ peer = "idle" /\ probe.stage # "Idle"
    /\ probe.stage \in {"Completed", "Terminal"} \/ NonceLeft
    /\ IF ticket.valid THEN CancelOrClearTicket ELSE UNCHANGED <<ticket, payload>>
    /\ peer' = "probe"
    /\ UNCHANGED <<probe, gate, authority, candidate, world, native, hot,
                   elapsed, main, ctl, commit, history>>

\* ... then the probe: a finished attempt is forgotten, or kept for the native
\* cancellation of its quick match to find; one in flight asks again under a
\* fresh nonce and keeps its native owner and its window.
ResetLostProbe ==
    /\ peer = "probe"
    /\ peer' = "idle"
    /\ IF probe.stage \in {"Idle", "Completed", "Terminal"}
       THEN probe' \in {NoProbe, probe} /\ UNCHANGED history
       ELSE /\ FreshNonce <= MaxNonce
            /\ probe' = Reauthorizing(probe)
            /\ history' = [history EXCEPT !.nonces = @ + 1]
    /\ UNCHANGED <<ticket, payload, gate, authority, candidate, world, native,
                   hot, elapsed, main, ctl, commit>>

\* Sixty seconds have passed since the window of the probe was started.
Elapse ==
    /\ probe.win # 0 /\ probe.win \notin elapsed
    /\ elapsed' = elapsed \cup {probe.win}
    /\ UNCHANGED <<probe, ticket, payload, gate, authority, candidate, world,
                   native, hot, main, ctl, commit, peer, history>>

-----------------------------------------------------------------------------
Init ==
    /\ probe = NoProbe /\ ticket = NoTicket /\ payload = 0 /\ gate = NoGate
    /\ authority = NoAuthority /\ candidate = NoCandidate
    /\ world = [gen |-> 0, reg |-> 0, base |-> 0, regGen |-> 0,
                pendNonce |-> 0, pendBase |-> 0]
    /\ native = [mgr |-> 0, made |-> 0, pgd |-> 0, world |-> FALSE]
    /\ hot = "none" /\ elapsed = {} /\ main = FrameStart /\ ctl = Idle
    /\ commit = NoCommit /\ peer = "idle"
    /\ history = [nonces |-> 0, wins |-> 0, seeds |-> {}, finals |-> {},
                  objects |-> {}]

TryApply == \/ ReadProbe \/ CheckTicket \/ ClaimTicket \/ RunCodec
            \/ RecheckEffects \/ SettleTicket \/ RaiseGate \/ FinishWindow
            \/ FailTicket

NativeEvent == \/ NewPlayerGameData \/ NewManager \/ RetireManager
               \/ RegisterWorld \/ UnloadWorld \/ HandOff \/ GuestCandidate

CommitStep == Reconcile \/ RearmGate \/ ClearMovedTicket

\* What the game thread does of itself, frame after frame.
MainStep == \/ BeginFrame \/ PublishCandidate \/ SkipCommit
            \/ DropCandidate("main") \/ CommitAuthority("main")
            \/ TryApply \/ ExpireWindow \/ BeginCapture \/ StoreCapture
            \/ EndNative

\* What the control thread does to finish a handler it has begun.
CtlStep == \/ ArmTicket \/ ReadForGate \/ ArmGateForResponse \/ DropGate
           \/ DropTicket \/ CompleteAdmission \/ CompleteGate

CtlBegin == \/ \E rev \in 1..MaxRev : ReceiveDelivery(rev)
            \/ \E gen \in 1..MaxGen : Authorize(gen)
            \/ Terminate \/ RearmByLifetime \/ CheckCompletion
            \/ DropCandidate("ctl") \/ CommitAuthority("ctl")

Next == \/ MainStep \/ NativeEvent \/ CommitStep \/ CtlStep \/ CtlBegin
        \/ ArmProbe \/ LosePeer \/ ResetLostProbe \/ Elapse

Spec == Init /\ [][Next]_vars

\* The threads keep running and the clock keeps ticking; nothing is assumed of
\* the host, of the network or of what the game chooses to do.
Fairness == /\ WF_vars(MainStep) /\ WF_vars(CommitStep) /\ WF_vars(CtlStep)
            /\ WF_vars(ResetLostProbe) /\ WF_vars(Elapse)

FairSpec == Spec /\ Fairness

-----------------------------------------------------------------------------
\* Properties.

\* Every variable keeps the shape its C++ counterpart is declared with.
ProbeRecords == [stage : Stages, nonce : Nonces, gen : Gens, ready : BOOLEAN,
                 win : Windows, expired : BOOLEAN, finished : BOOLEAN]
TicketRecords == [valid : BOOLEAN, nonce : Nonces, gen : Gens, mgr : Mgrs,
                  rev : Revs, readyPgd : Pgds, applying : BOOLEAN,
                  applied : BOOLEAN, final : BOOLEAN, pgd : Pgds,
                  failed : BOOLEAN, cancel : BOOLEAN]
GateRecords == [valid : BOOLEAN, gen : Gens, mgr : Mgrs,
                stage : NoGateStage..GateCompleted, pgd : Pgds, reg : Regs]
AuthorityRecords == [gen : Gens, mgr : Mgrs]
CandidateRecords == [gen : Gens, mgr : Mgrs, nonce : Nonces]
WorldRecords == [gen : Gens, reg : Regs, base : Regs, regGen : Gens,
                 pendNonce : Nonces, pendBase : Regs]
NativeRecords == [mgr : Mgrs, made : Mgrs, pgd : Pgds, world : BOOLEAN]
MainRecords == [pc : MainPCs, post : BOOLEAN, seeded : BOOLEAN, late : BOOLEAN,
                nonce : Nonces, gen : Gens, win : Windows, rev : Revs,
                mgr : Mgrs, pgd : Pgds, blob : Revs]
CtlRecords == [pc : CtlPCs, nonce : Nonces, gen : Gens, rev : Revs,
               authGen : Gens, mgr : Mgrs, pgd : Pgds, reg : Regs,
               stage : Stages]
CommitRecords == [pc : {"idle", "reconcile", "gate", "clear"},
                  by : {"none", "main", "ctl"}, gen : Gens, mgr : Mgrs,
                  moved : BOOLEAN, fresh : BOOLEAN]
HistoryRecords == [nonces : Nonces, wins : Windows,
                   seeds : SUBSET (Nonces \X Revs), finals : SUBSET Nonces,
                   objects : SUBSET [gen : Gens, pgd : Pgds, reg : Regs]]

TypeOK ==
    /\ probe \in ProbeRecords         /\ ticket \in TicketRecords
    /\ payload \in Revs               /\ gate \in GateRecords
    /\ authority \in AuthorityRecords /\ candidate \in CandidateRecords
    /\ world \in WorldRecords         /\ native \in NativeRecords
    /\ hot \in {"none", "raw", "restored"}
    /\ elapsed \in SUBSET Windows     /\ main \in MainRecords
    /\ ctl \in CtlRecords             /\ commit \in CommitRecords
    /\ peer \in {"idle", "probe"}     /\ history \in HistoryRecords

\* A replay in progress is the game thread's own: from its claim to its last
\* section the ticket is the one it claimed, and a ticket marked `applying'
\* never outlives that stretch (it would refuse every later delivery, and no
\* other thread could clear it).
InReplay == main.pc \in {"codec", "recheck", "settle", "fail"}

ReplayOwnsTicket ==
    /\ ticket.applying <=> InReplay
    /\ InReplay => SameIdentity(ticket)

\* The payload buffer belongs to the ticket beside it: a ticket that may still
\* be replayed has its own payload, and no other payload is left behind.
PayloadBelongsToTicket ==
    /\ payload \in {0, ticket.rev}
    /\ ticket.valid /\ ~ticket.final /\ ~ticket.cancel => payload = ticket.rev

\* A final replay only follows a seed of the same snapshot in the same attempt
\* ("the seed must exist before the original update builds the player").
FinalAfterSeed ==
    InReplay /\ main.post => <<main.nonce, main.rev>> \in history.seeds

\* A restore window ends one way: it is expired or it is finished, and a final
\* copy is never declared failed.
OneOutcome == ~(probe.expired /\ probe.finished) /\ ~(ticket.final /\ ticket.failed)

\* A gate past FinalApplied stands for a final replay that did run on the PGD
\* it names: it is what unfreezes the capture of that PGD.
GateMeansRestored ==
    gate.stage >= FinalApplied /\ gate.pgd # 0 => IsRestored(gate.pgd)

\* A final ticket names a PGD the final replay did write, also when it was
\* installed as already final from the gate of an earlier attempt.
FinalTicketMeansRestored == ticket.final => IsRestored(ticket.pgd)

\* Admission is completed only under an authority generation whose snapshot
\* was finally replayed.
CompletedMeansRestored ==
    probe.stage = "Completed" => \E o \in history.objects : o.gen = probe.gen

\* An attempt commits at most one final replay, however often its ticket was
\* cleared, delivered again and bound again.
OneFinalPerAttempt ==
    [][ main.pc = "mark" /\ main'.pc = "finish"
          => main.nonce \notin history.finals ]_vars

\* A replay that starts after the 60 s are over is the final pass of an update
\* whose seed was started in time: "no later frame may start or finish an
\* expired replay".
LatePassOnlyDrainsSeed ==
    [][ main.pc = "claim" /\ main'.pc = "codec" /\ main.win \in elapsed
          => main.post /\ main.seeded
             /\ <<main.nonce, main.rev>> \in history.seeds ]_vars

\* While its window is open, an authorized returning member publishes its own
\* PGD only after the final replay has written that very allocation.
PublishesOnlyRestored ==
    [][ main.pc = "store" /\ hot' = "raw" /\ hot' # hot
          => ~ (/\ IsAuthorized(probe) /\ probe.ready
                /\ probe.gen = authority.gen
                /\ ~probe.expired /\ ~probe.finished) ]_vars

\* A replay that was started is settled, whatever happens to its ticket.
ReplayEnds == ticket.applying ~> ~ticket.applying

\* A delivered snapshot is not kept waiting: once the window of its attempt has
\* started, it is replayed to the end, fails, is withdrawn or expires.
PendingFor(nonce) ==
    /\ TicketMatches(ticket, nonce, probe.gen) /\ probe.nonce = nonce
    /\ probe.win # 0
    /\ ~ticket.final /\ ~ticket.cancel

PendingTicketResolves ==
    \A nonce \in 1..MaxNonce : PendingFor(nonce) ~> ~PendingFor(nonce)

\* "A fresh nonce reauthorizes the transport payloads" (the peer-loss branch of
\* ClearBhrcNativeAdmissionForPeer): an authorized attempt that has no restore
\* ticket yet is still able to receive one.
FreshNonceIsServed ==
    IsAuthorized(probe) /\ probe.stage # "Completed"
      => SameAttempt(ticket, probe.nonce, probe.gen) \/ ~probe.finished

-----------------------------------------------------------------------------
\* The inductive invariant: what the properties above rest on.

TryPCs == {"check", "claim", "mismatch", "codec", "recheck", "settle", "fail"}

\* A claimed ticket is bound to a manager, so that a commit finds it bound
\* already; a commit on the game thread keeps the game thread.
ClaimIsBound ==
    /\ main.pc \in TryPCs \ {"check"} => main.mgr # 0
    /\ commit.by = "main" => main.pc = "commit" /\ commit.pc # "idle"

Ownership == ReplayOwnsTicket /\ PayloadBelongsToTicket /\ ClaimIsBound

\* A ticket is only marked as seeded by a seed that ran.
SeedRecorded ==
    /\ ticket.valid /\ ticket.applied /\ ~ticket.final
         => <<ticket.nonce, ticket.rev>> \in history.seeds
    /\ main.pc \in {"recheck", "settle"} => <<main.nonce, main.rev>> \in history.seeds
    /\ FinalAfterSeed

\* Whatever names a PGD as restored names one the final replay wrote under
\* the same authority generation.
RestoredIn(gen, pgd) == \E o \in history.objects : o.gen = gen /\ o.pgd = pgd

CopyRecorded ==
    /\ main.pc \in {"recheck", "settle"} /\ main.post => RestoredIn(main.gen, main.pgd)
    /\ ticket.final => RestoredIn(ticket.gen, ticket.pgd)
    /\ gate.pgd # 0 => RestoredIn(gate.gen, gate.pgd)
    /\ ctl.pc = "complete" => \E o \in history.objects : o.gen = ctl.gen
    /\ CompletedMeansRestored
    /\ main.pc = "store" => native.pgd # 0

\* No window is closed under the pass that runs in it; a pass that is late
\* follows a seed of its own frame.
WindowOpen ==
    /\ main.pc \in TryPCs \cup {"mark", "finish"} => ~probe.expired /\ ~probe.finished
    /\ main.seeded /\ main.pc \in {"native", "read"} => ~probe.expired /\ ~probe.finished
    /\ main.seeded /\ ~main.post => main.pc = "native"
    /\ main.pc \in {"top", "commit", "preExpire"} => ~main.seeded
    /\ main.late => main.post /\ main.seeded
    /\ ~(probe.expired /\ probe.finished)

\* An attempt whose final copy is made is finished, or is about to be.
FinalOnce ==
    /\ probe.nonce <= history.nonces
    /\ probe.stage # "Idle" => probe.nonce # 0
    /\ ctl.pc = "complete" => ctl.stage # "Idle"
    /\ \A n \in history.finals : n \in 1..history.nonces
    /\ main.pc \in TryPCs \cup {"mark", "finish"} =>
         /\ main.nonce \in 1..history.nonces
         /\ probe.nonce = main.nonce => probe.win = main.win
    /\ main.pc \in TryPCs \cup {"mark"} => main.nonce \notin history.finals
    /\ probe.nonce \in history.finals =>
         probe.finished \/ (main.pc = "finish" /\ main.nonce = probe.nonce)

IInv == TypeOK /\ Ownership /\ SeedRecorded /\ CopyRecorded /\ WindowOpen /\ FinalOnce
=============================================================================
