------------------------ MODULE FullPgdRestoreProofs ------------------------
(***************************************************************************)
(* Machine-checked proofs about FullPgdRestore, for every value of its     *)
(* constants.                                                              *)
(***************************************************************************)
EXTENDS FullPgdRestore, TLAPS

-----------------------------------------------------------------------------
(* Type correctness. *)

\* Every number may be 0.
LEMMA ZeroValues ==
  /\ 0 \in Nonces /\ 0 \in Gens /\ 0 \in Revs /\ 0 \in Mgrs
  /\ 0 \in Pgds /\ 0 \in Regs /\ 0 \in Windows
BY BoundsAssumption
   DEF Nonces, Gens, LocalGen, Revs, Mgrs, Pgds, Regs, Windows

\* The initial state has the declared types.
LEMMA InitTypeOK == Init => TypeOK
<1> SUFFICES ASSUME Init PROVE TypeOK
  OBVIOUS
<1> USE ZeroValues DEF Init
<1>1. probe \in ProbeRecords
  BY DEF NoProbe, ProbeRecords, Stages
<1>2. ticket \in TicketRecords /\ payload \in Revs
  BY DEF NoTicket, TicketRecords
<1>3. gate \in GateRecords
  BY DEF NoGate, GateRecords, NoGateStage, GateCompleted
<1>4. authority \in AuthorityRecords /\ candidate \in CandidateRecords
  BY DEF NoAuthority, AuthorityRecords, NoCandidate, CandidateRecords
<1>5. world \in WorldRecords /\ native \in NativeRecords
  BY DEF WorldRecords, NativeRecords
<1>6. main \in MainRecords
  BY DEF FrameStart, MainRecords, MainPCs
<1>7. ctl \in CtlRecords
  BY DEF Idle, CtlRecords, CtlPCs, Stages
<1>8. commit \in CommitRecords
  BY DEF NoCommit, CommitRecords
<1>9. history \in HistoryRecords
  BY DEF HistoryRecords
<1>q. QED
  BY <1>1, <1>2, <1>3, <1>4, <1>5, <1>6, <1>7, <1>8, <1>9 DEF TypeOK

\* A frame may go to any of its program points, start over, or go on after
\* TryApply, and its locals keep their types.
LEMMA MainMoves ==
  ASSUME main \in MainRecords
  PROVE  /\ \A pc \in MainPCs : [main EXCEPT !.pc = pc] \in MainRecords
         /\ FrameStart \in MainRecords
         /\ Return => main' \in MainRecords
<1>1. \A pc \in MainPCs : [main EXCEPT !.pc = pc] \in MainRecords
  BY DEF MainRecords
<1>2. FrameStart \in MainRecords
  BY ZeroValues DEF FrameStart, MainRecords, MainPCs
<1>3. ASSUME Return PROVE main' \in MainRecords
  BY <1>2, <1>3 DEF Return, MainRecords, MainPCs
<1>q. QED
  BY <1>1, <1>2, <1>3

\* The clears of the ticket keep its type, and the payload's.
LEMMA TicketMoves ==
  ASSUME ticket \in TicketRecords, payload \in Revs
  PROVE  /\ ClearTicket => ticket' \in TicketRecords /\ payload' \in Revs
         /\ CancelOrClearTicket => ticket' \in TicketRecords /\ payload' \in Revs
<1>1. NoTicket \in TicketRecords /\ 0 \in Revs
  BY ZeroValues DEF NoTicket, TicketRecords
<1>2. [ticket EXCEPT !.cancel = TRUE] \in TicketRecords
  BY DEF TicketRecords
<1>q. QED
  BY <1>1, <1>2 DEF ClearTicket, CancelOrClearTicket

\* Raising the gate and arming it keep its type.
LEMMA GateMoves ==
  ASSUME TypeOK, NEW nonce, NEW gen \in Gens
  PROVE  /\ \A stage \in NoGateStage..GateCompleted :
              MarkGate(nonce, gen, stage) => gate' \in GateRecords
         /\ \A auth \in AuthorityRecords : \A pgd, reg :
              ArmGate(gen, auth, pgd, reg) => gate' \in GateRecords
<1> USE DEF TypeOK, GateRecords
<1>1. LiveReg \in Regs
  BY BoundsAssumption DEF LiveReg, WorldRecords, Regs
<1>2. ASSUME NEW stage \in NoGateStage..GateCompleted, MarkGate(nonce, gen, stage)
      PROVE  gate' \in GateRecords
  BY <1>1, <1>2 DEF MarkGate, RestoredPgd, AuthorityRecords, TicketRecords
<1>3. ASSUME NEW auth \in AuthorityRecords, NEW pgd, NEW reg,
             ArmGate(gen, auth, pgd, reg)
      PROVE  gate' \in GateRecords
  BY <1>3, BoundsAssumption
     DEF ArmGate, AuthorityRecords, NoGateStage, AwaitingSeed, GateCompleted,
         Mgrs, Pgds, Regs
<1>q. QED
  BY <1>2, <1>3

\* A commit of the candidate keeps the types, on whichever thread it runs.
LEMMA CommitTypeOK ==
  ASSUME TypeOK, NEW by \in {"main", "ctl"}, CommitAuthority(by)
  PROVE  TypeOK'
<1> USE DEF TypeOK
<1>1. authority' \in AuthorityRecords
  BY DEF CommitAuthority, AuthorityRecords, CandidateRecords
<1>2. candidate' \in CandidateRecords
  BY ZeroValues DEF CommitAuthority, NoCandidate, CandidateRecords
<1>3. world' \in WorldRecords
  <2>1. candidate.gen \in Gens
    BY DEF CandidateRecords
  <2>2. WorldAfterCommit \in WorldRecords
    BY <2>1, ZeroValues DEF WorldAfterCommit, WorldRecords
  <2>q. QED
    BY <2>2 DEF CommitAuthority
<1>4. commit' \in CommitRecords
  BY DEF CommitAuthority, CommitRecords, CandidateRecords
<1>q. QED
  BY <1>1, <1>2, <1>3, <1>4 DEF CommitAuthority

\* Every step of the game thread keeps the types.
LEMMA MainTypeOK == ASSUME TypeOK, MainStep PROVE TypeOK'
<1> USE DEF TypeOK, MainGoto, MainPCs
<1>m. /\ \A pc \in MainPCs : [main EXCEPT !.pc = pc] \in MainRecords
      /\ FrameStart \in MainRecords
      /\ Return => main' \in MainRecords
      /\ ClearTicket => ticket' \in TicketRecords /\ payload' \in Revs
      /\ 0 \in Revs /\ 0 \in Pgds
  BY ZeroValues, MainMoves, TicketMoves
<1>1. CASE BeginFrame
  BY <1>1, <1>m DEF BeginFrame
<1>2. CASE PublishCandidate
  <2>1. candidate' \in CandidateRecords
    BY <1>2 DEF PublishCandidate, CandidateRecords, ProbeRecords, NativeRecords
  <2>q. QED
    BY <1>2, <1>m, <2>1 DEF PublishCandidate
<1>3. CASE SkipCommit
  BY <1>3, <1>m DEF SkipCommit
<1>4. CASE DropCandidate("main")
  <2>1. NoCandidate \in CandidateRecords
    BY ZeroValues DEF NoCandidate, CandidateRecords
  <2>q. QED
    BY <1>4, <1>m, <2>1 DEF DropCandidate
<1>5. CASE CommitAuthority("main")
  BY <1>5, CommitTypeOK
<1>6. CASE ReadProbe
  <2>1. CASE main' \in {[main EXCEPT !.pc = pc] : pc \in MainPCs}
    BY <1>6, <1>m, <2>1 DEF ReadProbe
  <2>2. CASE Return
    BY <1>6, <1>m, <2>2 DEF ReadProbe
  <2>3. CASE main' = [main EXCEPT !.pc = "check", !.late = main.post /\ main.seeded,
                        !.nonce = probe.nonce, !.gen = probe.gen, !.win = probe.win]
    <3>1. main' \in MainRecords
      BY <2>3 DEF MainRecords, ProbeRecords
    <3>q. QED
      BY <1>6, <3>1 DEF ReadProbe
  <2>q. QED
    BY <1>6, <2>1, <2>2, <2>3 DEF ReadProbe
<1>7. CASE CheckTicket
  <2> DEFINE target == IF main.post THEN FinalTarget(main.gen) ELSE Target(main.gen)
  <2>1. target \in Pgds
    BY <1>m DEF FinalTarget, Target, NativeRecords
  <2>2. \A pc \in {"claim", "mismatch"} :
          [main EXCEPT !.pc = pc, !.mgr = ticket.mgr, !.rev = ticket.rev, !.pgd = target]
             \in MainRecords
    BY <2>1 DEF MainRecords, TicketRecords
  <2>3. [ticket EXCEPT !.readyPgd = target] \in TicketRecords
    BY <2>1 DEF TicketRecords
  <2>4. main' \in MainRecords /\ ticket' \in TicketRecords
    BY <1>7, <1>m, <2>2, <2>3 DEF CheckTicket
  <2>q. QED
    BY <1>7, <2>4 DEF CheckTicket
<1>8. CASE ClaimTicket
  <2>1. [main EXCEPT !.pc = "codec", !.blob = payload] \in MainRecords
    BY DEF MainRecords
  <2>2. [ticket EXCEPT !.applying = TRUE] \in TicketRecords
    BY DEF TicketRecords
  <2>q. QED
    BY <1>8, <1>m, <2>1, <2>2 DEF ClaimTicket
<1>9. CASE RunCodec
  <2>1. main' \in MainRecords
    BY <1>9, <1>m DEF RunCodec
  <2>2. [gen |-> main.gen, pgd |-> main.pgd, reg |-> world.reg]
          \in [gen : Gens, pgd : Pgds, reg : Regs]
    BY DEF MainRecords, WorldRecords
  <2>3. <<main.nonce, main.rev>> \in Nonces \X Revs
    BY DEF MainRecords
  <2>4. history' \in HistoryRecords
    BY <1>9, <2>2, <2>3 DEF RunCodec, HistoryRecords
  <2>q. QED
    BY <1>9, <2>1, <2>4 DEF RunCodec
<1>10. CASE RecheckEffects
  BY <1>10, <1>m DEF RecheckEffects
<1>11. CASE SettleTicket
  <2>1. /\ [ticket EXCEPT !.applying = FALSE, !.final = TRUE, !.pgd = main.pgd]
             \in TicketRecords
        /\ [ticket EXCEPT !.applying = FALSE, !.applied = TRUE] \in TicketRecords
    BY DEF TicketRecords, MainRecords
  <2>2. main' \in MainRecords /\ ticket' \in TicketRecords /\ payload' \in Revs
    BY <1>11, <1>m, <2>1 DEF SettleTicket
  <2>q. QED
    BY <1>11, <2>2 DEF SettleTicket
<1>12. CASE RaiseGate
  <2>1. gate' \in GateRecords
    <3>1. main.gen \in Gens
      BY DEF MainRecords
    <3>2. PICK stage \in {SeedApplied, FinalApplied} : MarkGate(main.nonce, main.gen, stage)
      BY <1>12 DEF RaiseGate
    <3>q. QED
      BY <3>1, <3>2, GateMoves
         DEF NoGateStage, SeedApplied, FinalApplied, GateCompleted
  <2>2. main' \in MainRecords
    <3>1. [FrameStart EXCEPT !.pc = "native", !.seeded = TRUE] \in MainRecords
      BY ZeroValues DEF FrameStart, MainRecords
    <3>q. QED
      BY <1>12, <1>m, <3>1 DEF RaiseGate
  <2>3. history' \in HistoryRecords
    BY <1>12 DEF RaiseGate, HistoryRecords, MainRecords
  <2>q. QED
    BY <1>12, <2>1, <2>2, <2>3 DEF RaiseGate
<1>13. CASE FinishWindow
  <2>1. [probe EXCEPT !.finished = TRUE] \in ProbeRecords
    BY DEF ProbeRecords
  <2>q. QED
    BY <1>13, <1>m, <2>1 DEF FinishWindow
<1>14. CASE FailTicket
  <2>1. [ticket EXCEPT !.applying = FALSE, !.failed = TRUE, !.applied = FALSE]
          \in TicketRecords
    BY DEF TicketRecords
  <2>q. QED
    BY <1>14, <1>m, <2>1 DEF FailTicket, Failed
<1>15. CASE ExpireWindow
  <2>1. [probe EXCEPT !.expired = TRUE] \in ProbeRecords
    BY DEF ProbeRecords
  <2>2. [ticket EXCEPT !.failed = TRUE, !.cancel = TRUE] \in TicketRecords
    BY DEF TicketRecords
  <2>q. QED
    BY <1>15, <1>m, <2>1, <2>2 DEF ExpireWindow, Expired
<1>16. CASE BeginCapture
  BY <1>16, <1>m DEF BeginCapture
<1>17. CASE StoreCapture
  BY <1>17, <1>m DEF StoreCapture
<1>18. CASE EndNative
  <2>1. [main EXCEPT !.pc = "read", !.post = TRUE] \in MainRecords
    BY DEF MainRecords
  <2>q. QED
    BY <1>18, <1>m, <2>1 DEF EndNative
<1>q. QED
  BY <1>1, <1>2, <1>3, <1>4, <1>5, <1>6, <1>7, <1>8, <1>9, <1>10, <1>11, <1>12,
     <1>13, <1>14, <1>15, <1>16, <1>17, <1>18 DEF MainStep, TryApply

\* Whatever the native update does keeps the types.
LEMMA NativeTypeOK == ASSUME TypeOK, NativeEvent PROVE TypeOK'
<1> USE DEF TypeOK
<1>1. CASE NewPlayerGameData
  <2>1. native' \in NativeRecords
    BY <1>1, BoundsAssumption DEF NewPlayerGameData, NativeRecords, Pgds
  <2>q. QED
    BY <1>1, <2>1 DEF NewPlayerGameData
<1>2. CASE NewManager
  <2>1. native' \in NativeRecords
    <3>1. native.made + 1 \in Mgrs
      BY <1>2, BoundsAssumption DEF NewManager, NativeRecords, Mgrs
    <3>q. QED
      BY <1>2, <3>1 DEF NewManager, NativeRecords
  <2>q. QED
    BY <1>2, <2>1 DEF NewManager
<1>3. CASE RetireManager
  <2>1. native' \in NativeRecords
    BY <1>3, ZeroValues DEF RetireManager, NativeRecords
  <2>2. NoCandidate \in CandidateRecords /\ NoAuthority \in AuthorityRecords
    BY ZeroValues DEF NoCandidate, CandidateRecords, NoAuthority, AuthorityRecords
  <2>q. QED
    BY <1>3, <2>1, <2>2, TicketMoves DEF RetireManager
<1>4. CASE RegisterWorld
  <2>1. world' \in WorldRecords
    <3>1. world.reg + 1 \in Regs
      BY <1>4, BoundsAssumption DEF RegisterWorld, WorldRecords, Regs
    <3>q. QED
      BY <1>4, <3>1 DEF RegisterWorld, WorldRecords
  <2>2. native' \in NativeRecords
    BY <1>4 DEF RegisterWorld, NativeRecords
  <2>q. QED
    BY <1>4, <2>1, <2>2 DEF RegisterWorld
<1>5. CASE UnloadWorld
  <2>1. native' \in NativeRecords
    BY <1>5 DEF UnloadWorld, NativeRecords
  <2>q. QED
    BY <1>5, <2>1 DEF UnloadWorld
<1>6. CASE HandOff
  <2>1. probe.win = 0 => history.wins + 1 \in Windows
    BY <1>6, BoundsAssumption DEF HandOff, HistoryRecords, Windows
  <2>2. probe' \in ProbeRecords
    BY <1>6, <2>1 DEF HandOff, WindowOf, ProbeRecords, Stages
  <2>3. history' \in HistoryRecords
    BY <1>6, <2>1 DEF HandOff, HistoryRecords
  <2>4. world' \in WorldRecords
    BY <1>6 DEF HandOff, WorldRecords, ProbeRecords
  <2>q. QED
    BY <1>6, <2>2, <2>3, <2>4 DEF HandOff
<1>7. CASE GuestCandidate
  <2>1. candidate' \in CandidateRecords
    BY <1>7, BoundsAssumption, ZeroValues
       DEF GuestCandidate, CandidateRecords, NativeRecords, Gens, LocalGen
  <2>q. QED
    BY <1>7, <2>1 DEF GuestCandidate
<1>q. QED
  BY <1>1, <1>2, <1>3, <1>4, <1>5, <1>6, <1>7 DEF NativeEvent

\* The sections that follow a commit keep the types.
LEMMA ReconcileTypeOK == ASSUME TypeOK, CommitStep PROVE TypeOK'
<1> USE DEF TypeOK
<1>1. /\ \A pc \in {"gate", "clear"} : [commit EXCEPT !.pc = pc] \in CommitRecords
      /\ EndCommit => commit' \in CommitRecords /\ main' \in MainRecords
      /\ \A pc \in {"gate", "clear"} :
           CommitGoto(pc) => commit' \in CommitRecords /\ main' \in MainRecords
  <2>1. \A pc \in {"gate", "clear"} : [commit EXCEPT !.pc = pc] \in CommitRecords
    BY DEF CommitRecords
  <2>2. NoCommit \in CommitRecords
    BY ZeroValues DEF NoCommit, CommitRecords
  <2>3. [main EXCEPT !.pc = "read"] \in MainRecords
    BY MainMoves DEF MainPCs
  <2>q. QED
    BY <2>1, <2>2, <2>3 DEF EndCommit, CommitGoto
<1>2. CASE Reconcile
  <2>1. commit.mgr \in Mgrs /\ commit.gen \in Gens
    BY DEF CommitRecords
  <2>2. ticket' \in TicketRecords /\ payload' \in Revs
    <3>1. [ticket EXCEPT !.mgr = commit.mgr] \in TicketRecords
      BY <2>1 DEF TicketRecords
    <3>q. QED
      BY <1>2, <3>1, TicketMoves DEF Reconcile
  <2>3. gate' \in GateRecords
    <3>1. [gate EXCEPT !.mgr = commit.mgr] \in GateRecords
      BY <2>1 DEF GateRecords
    <3>2. NoGate \in GateRecords
      BY ZeroValues DEF NoGate, GateRecords, NoGateStage, GateCompleted
    <3>q. QED
      BY <1>2, <3>1, <3>2 DEF Reconcile
  <2>4. commit' \in CommitRecords /\ main' \in MainRecords
    <3>1. \A b \in BOOLEAN : [commit EXCEPT !.pc = "gate", !.moved = @ /\ b] \in CommitRecords
      BY DEF CommitRecords
    <3>q. QED
      BY <1>1, <1>2, <3>1 DEF Reconcile
  <2>5. hot' \in {"none", "raw", "restored"}
    BY <1>2 DEF Reconcile
  <2>q. QED
    BY <1>2, <2>2, <2>3, <2>4, <2>5 DEF Reconcile
<1>3. CASE RearmGate
  <2>1. gate' \in GateRecords
    <3>1. commit.gen \in Gens
      BY DEF CommitRecords
    <3>q. QED
      BY <1>3, <3>1, GateMoves DEF RearmGate
  <2>q. QED
    BY <1>1, <1>3, <2>1 DEF RearmGate
<1>4. CASE ClearMovedTicket
  BY <1>1, <1>4, TicketMoves DEF ClearMovedTicket
<1>q. QED
  BY <1>2, <1>3, <1>4 DEF CommitStep

\* The steps that finish a handler of the control thread keep the types.
LEMMA CtlTypeOK == ASSUME TypeOK, CtlStep PROVE TypeOK'
<1> USE DEF TypeOK
<1>i. Idle \in CtlRecords
  BY ZeroValues DEF Idle, CtlRecords, CtlPCs, Stages
<1>p. \A pc \in CtlPCs : [ctl EXCEPT !.pc = pc] \in CtlRecords
  BY DEF CtlRecords
<1>g. ctl.gen \in Gens
  BY DEF CtlRecords
<1>1. CASE ArmTicket
  <2> DEFINE installed == [NoTicket EXCEPT !.valid = TRUE, !.nonce = ctl.nonce,
                             !.gen = ctl.gen, !.mgr = ctl.mgr, !.rev = ctl.rev]
  <2>1. installed \in TicketRecords
    BY ZeroValues DEF NoTicket, TicketRecords, CtlRecords
  <2>2. [installed EXCEPT !.applied = TRUE, !.final = TRUE, !.pgd = gate.pgd] \in TicketRecords
    BY <2>1 DEF TicketRecords, GateRecords
  <2>3. payload' \in Revs
    BY <1>1, ZeroValues DEF ArmTicket, CtlRecords
  <2>4. ticket' \in TicketRecords
    BY <1>1, <2>1, <2>2 DEF ArmTicket
  <2>q. QED
    BY <1>1, <1>i, <2>3, <2>4 DEF ArmTicket
<1>2. CASE ReadForGate
  <2>1. Target(ctl.gen) \in Pgds /\ LiveReg \in Regs
    BY ZeroValues DEF Target, LiveReg, NativeRecords, WorldRecords
  <2>2. ctl' \in CtlRecords
    BY <1>2, <2>1 DEF ReadForGate, CtlRecords, CtlPCs, AuthorityRecords
  <2>q. QED
    BY <1>2, <2>2 DEF ReadForGate
<1>3. CASE ArmGateForResponse
  <2>1. [gen |-> ctl.authGen, mgr |-> ctl.mgr] \in AuthorityRecords
    BY DEF AuthorityRecords, CtlRecords
  <2>2. gate' \in GateRecords
    BY <1>3, <1>g, <2>1, GateMoves DEF ArmGateForResponse
  <2>q. QED
    BY <1>3, <1>i, <2>2 DEF ArmGateForResponse
<1>4. CASE DropGate
  <2>1. NoGate \in GateRecords
    BY ZeroValues DEF NoGate, GateRecords, NoGateStage, GateCompleted
  <2>q. QED
    BY <1>4, <1>p, <2>1 DEF DropGate, CtlPCs
<1>5. CASE DropTicket
  BY <1>5, <1>i, TicketMoves DEF DropTicket
<1>6. CASE CompleteAdmission
  <2>1. [probe EXCEPT !.stage = "Completed"] \in ProbeRecords
    BY DEF ProbeRecords, Stages
  <2>q. QED
    BY <1>6, <1>i, <1>p, <2>1 DEF CompleteAdmission, CtlPCs
<1>7. CASE CompleteGate
  <2>1. gate' \in GateRecords
    BY <1>7, <1>g, GateMoves DEF CompleteGate, NoGateStage, GateCompleted
  <2>q. QED
    BY <1>7, <1>i, <2>1 DEF CompleteGate
<1>q. QED
  BY <1>1, <1>2, <1>3, <1>4, <1>5, <1>6, <1>7 DEF CtlStep

\* A fresh nonce keeps the types of the probe and of the count of nonces.
LEMMA FreshNonceTypeOK ==
  ASSUME TypeOK, FreshNonce <= MaxNonce
  PROVE  /\ Reauthorizing(probe) \in ProbeRecords
         /\ FreshNonce \in Nonces
         /\ [history EXCEPT !.nonces = @ + 1] \in HistoryRecords
<1>1. FreshNonce \in Nonces
  BY BoundsAssumption DEF TypeOK, FreshNonce, HistoryRecords, Nonces
<1>2. Reauthorizing(probe) \in ProbeRecords
  BY <1>1, ZeroValues DEF TypeOK, Reauthorizing, ProbeRecords, Stages
<1>3. [history EXCEPT !.nonces = @ + 1] \in HistoryRecords
  BY <1>1 DEF TypeOK, FreshNonce, HistoryRecords
<1>q. QED
  BY <1>1, <1>2, <1>3

\* The steps that begin a handler of the control thread keep the types.
LEMMA CtlBeginTypeOK == ASSUME TypeOK, CtlBegin PROVE TypeOK'
<1> USE DEF TypeOK
<1>1. ASSUME NEW rev \in 1..MaxRev, ReceiveDelivery(rev) PROVE TypeOK'
  <2>1. rev \in Revs
    BY BoundsAssumption DEF Revs
  <2>2. LiveReg \in Regs
    BY ZeroValues DEF LiveReg, WorldRecords
  <2>3. ctl' \in CtlRecords
    BY <1>1, <2>1, <2>2, ZeroValues
       DEF ReceiveDelivery, Idle, CtlRecords, CtlPCs, ProbeRecords, NativeRecords,
           AuthorityRecords, Stages
  <2>q. QED
    BY <1>1, <2>3 DEF ReceiveDelivery
<1>2. ASSUME NEW gen \in 1..MaxGen, Authorize(gen) PROVE TypeOK'
  <2>1. gen \in Gens
    BY BoundsAssumption DEF Gens, LocalGen
  <2>2. probe' \in ProbeRecords
    BY <1>2, <2>1 DEF Authorize, ProbeRecords, Stages
  <2>3. ctl' \in CtlRecords
    BY <1>2, <2>1, ZeroValues DEF Authorize, Idle, CtlRecords, CtlPCs, Stages
  <2>q. QED
    BY <1>2, <2>2, <2>3 DEF Authorize
<1>3. CASE Terminate
  <2>1. probe' \in ProbeRecords
    BY <1>3 DEF Terminate, ProbeRecords, Stages
  <2>2. ctl' \in CtlRecords
    BY <1>3, ZeroValues DEF Terminate, Idle, CtlRecords, CtlPCs, Stages
  <2>q. QED
    BY <1>3, <2>1, <2>2 DEF Terminate
<1>4. CASE RearmByLifetime
  <2>1. FreshNonce <= MaxNonce
    BY <1>4, BoundsAssumption DEF RearmByLifetime, NonceLeft, FreshNonce, HistoryRecords, Nonces
  <2>q. QED
    BY <1>4, <2>1, FreshNonceTypeOK DEF RearmByLifetime
<1>5. CASE CheckCompletion
  <2>1. ctl' \in CtlRecords
    BY <1>5, ZeroValues DEF CheckCompletion, Idle, CtlRecords, CtlPCs, ProbeRecords
  <2>q. QED
    BY <1>5, <2>1 DEF CheckCompletion
<1>6. CASE DropCandidate("ctl")
  <2>1. NoCandidate \in CandidateRecords
    BY ZeroValues DEF NoCandidate, CandidateRecords
  <2>q. QED
    BY <1>6, <2>1 DEF DropCandidate
<1>7. CASE CommitAuthority("ctl")
  BY <1>7, CommitTypeOK
<1>q. QED
  BY <1>1, <1>2, <1>3, <1>4, <1>5, <1>6, <1>7 DEF CtlBegin

\* Every step keeps the types.
LEMMA NextTypeOK == ASSUME TypeOK, Next PROVE TypeOK'
<1> USE DEF TypeOK
<1>1. CASE ArmProbe
  <2>1. FreshNonce <= MaxNonce
    BY <1>1, BoundsAssumption DEF ArmProbe, NonceLeft, FreshNonce, HistoryRecords, Nonces
  <2>2. FreshNonce \in Nonces
    BY <2>1, FreshNonceTypeOK
  <2>3. probe' \in ProbeRecords
    BY <1>1, <2>2, ZeroValues DEF ArmProbe, NoProbe, ProbeRecords, Stages
  <2>q. QED
    BY <1>1, <2>1, <2>3, FreshNonceTypeOK DEF ArmProbe
<1>2. CASE LosePeer
  BY <1>2, TicketMoves DEF LosePeer
<1>3. CASE ResetLostProbe
  <2>1. NoProbe \in ProbeRecords
    BY ZeroValues DEF NoProbe, ProbeRecords, Stages
  <2>q. QED
    BY <1>3, <2>1, FreshNonceTypeOK DEF ResetLostProbe
<1>4. CASE Elapse
  <2>1. elapsed' \in SUBSET Windows
    BY <1>4 DEF Elapse, ProbeRecords
  <2>q. QED
    BY <1>4, <2>1 DEF Elapse
<1>q. QED
  BY <1>1, <1>2, <1>3, <1>4, MainTypeOK, NativeTypeOK, ReconcileTypeOK,
     CtlTypeOK, CtlBeginTypeOK DEF Next

\* A step that changes nothing keeps the types.
LEMMA StutterTypeOK == ASSUME TypeOK, UNCHANGED vars PROVE TypeOK'
BY DEF TypeOK, vars

\* Type correctness: every variable keeps the shape its C++ counterpart is
\* declared with, whatever the threads do.
THEOREM TypeCorrect == Spec => []TypeOK
<1>1. TypeOK /\ [Next]_vars => TypeOK'
  BY NextTypeOK, StutterTypeOK
<1>q. QED
  BY <1>1, InitTypeOK, PTL DEF Spec

-----------------------------------------------------------------------------
(* The ticket belongs to the replay that claimed it, and the payload to the *)
(* ticket.                                                                  *)

\* What the ways of moving the game thread do to its fields.
LEMMA MainFields ==
  ASSUME main \in MainRecords
  PROVE  /\ \A pc : main' = [main EXCEPT !.pc = pc] =>
              /\ main'.pc = pc /\ main'.post = main.post
              /\ main'.seeded = main.seeded /\ main'.late = main.late
              /\ main'.nonce = main.nonce /\ main'.gen = main.gen
              /\ main'.win = main.win /\ main'.rev = main.rev
              /\ main'.mgr = main.mgr /\ main'.pgd = main.pgd
         /\ Return =>
              /\ main'.pc = IF main.post THEN "expire" ELSE "native"
              /\ main'.post = main.post /\ main'.seeded = main.seeded
              /\ main'.late = FALSE
         /\ main' = FrameStart =>
              /\ main'.pc = "top" /\ main'.post = FALSE
              /\ main'.seeded = FALSE /\ main'.late = FALSE
<1>1. ASSUME NEW pc, main' = [main EXCEPT !.pc = pc]
      PROVE  /\ main'.pc = pc /\ main'.post = main.post
             /\ main'.seeded = main.seeded /\ main'.late = main.late
             /\ main'.nonce = main.nonce /\ main'.gen = main.gen
             /\ main'.win = main.win /\ main'.rev = main.rev
             /\ main'.mgr = main.mgr /\ main'.pgd = main.pgd
  BY <1>1 DEF MainRecords
<1>2. ASSUME Return
      PROVE  /\ main'.pc = IF main.post THEN "expire" ELSE "native"
             /\ main'.post = main.post /\ main'.seeded = main.seeded
             /\ main'.late = FALSE
  BY <1>2 DEF Return, FrameStart
<1>3. ASSUME main' = FrameStart
      PROVE  /\ main'.pc = "top" /\ main'.post = FALSE
             /\ main'.seeded = FALSE /\ main'.late = FALSE
  BY <1>3 DEF FrameStart
<1>q. QED
  BY <1>1, <1>2, <1>3

\* Where the first section of TryApply goes, and with what.
LEMMA ReadProbeMoves ==
  ASSUME TypeOK, ReadProbe
  PROVE  \/ /\ main'.pc \in {"expire", "preExpire"} /\ WindowClosed(probe)
            /\ main'.pc = "preExpire" => ~main.post
            /\ main'.late = main.late
            /\ main'.post = main.post /\ main'.seeded = main.seeded
         \/ /\ main'.pc = IF main.post THEN "expire" ELSE "native"
            /\ main'.late = FALSE
            /\ main'.post = main.post /\ main'.seeded = main.seeded
            /\ WindowClosed(probe) => main.seeded
         \/ /\ main'.pc = "check" /\ IsAuthorized(probe)
            /\ main'.late = (main.post /\ main.seeded)
            /\ main'.post = main.post /\ main'.seeded = main.seeded
            /\ main'.nonce = probe.nonce /\ main'.win = probe.win
            /\ WindowClosed(probe) => main.post /\ main.seeded
<1>1. CASE WindowClosed(probe) /\ ~(main.post /\ main.seeded)
  <2>1. main' = [main EXCEPT !.pc = IF main.post THEN "expire" ELSE "preExpire"]
    BY <1>1 DEF ReadProbe, MainGoto
  <2>q. QED
    BY <1>1, <2>1, MainFields DEF TypeOK
<1>2. CASE /\ ~WindowClosed(probe) \/ (main.post /\ main.seeded)
           /\ ~(IsAuthorized(probe) /\ probe.ready)
  <2>1. Return
    BY <1>2 DEF ReadProbe
  <2>q. QED
    BY <1>2, <2>1, MainFields DEF TypeOK
<1>3. CASE /\ ~WindowClosed(probe) \/ (main.post /\ main.seeded)
           /\ IsAuthorized(probe) /\ probe.ready
  <2>1. main' = [main EXCEPT !.pc = "check", !.late = main.post /\ main.seeded,
                   !.nonce = probe.nonce, !.gen = probe.gen, !.win = probe.win]
    BY <1>3 DEF ReadProbe
  <2>2. /\ main'.pc = "check" /\ main'.post = main.post /\ main'.seeded = main.seeded
        /\ main'.nonce = probe.nonce /\ main'.win = probe.win
    BY <2>1 DEF TypeOK, MainRecords
  <2>3. main'.late = (main.post /\ main.seeded)
    BY <2>1 DEF TypeOK, MainRecords
  <2>q. QED
    BY <1>3, <2>2, <2>3
<1>q. QED
  BY <1>1, <1>2, <1>3

\* What is left of an attempt under a fresh nonce, and of none.
LEMMA ProbeFields ==
  ASSUME TypeOK
  PROVE  /\ Reauthorizing(probe).stage = "Pending"
         /\ Reauthorizing(probe).nonce = FreshNonce
         /\ Reauthorizing(probe).win = probe.win
         /\ Reauthorizing(probe).expired = probe.expired
         /\ Reauthorizing(probe).finished = probe.finished
         /\ NoProbe.stage = "Idle" /\ NoProbe.nonce = 0
         /\ NoProbe.expired = FALSE /\ NoProbe.finished = FALSE
BY DEF Reauthorizing, NoProbe, TypeOK, ProbeRecords

\* A clear meets a replay only to mark its ticket as cancelled.
LEMMA ClearKeepsOwnership ==
  ASSUME TypeOK, Ownership,
         CancelOrClearTicket \/ UNCHANGED <<ticket, payload>>, UNCHANGED main
  PROVE  ReplayOwnsTicket' /\ PayloadBelongsToTicket'
<1>1. CASE UNCHANGED <<ticket, payload>>
  BY <1>1 DEF Ownership, ReplayOwnsTicket, PayloadBelongsToTicket, InReplay, SameIdentity
<1>2. CASE ticket.applying /\ CancelOrClearTicket
  BY <1>2 DEF TypeOK, TicketRecords, Ownership, ReplayOwnsTicket,
              PayloadBelongsToTicket, InReplay, SameIdentity, CancelOrClearTicket
<1>3. CASE ~ticket.applying /\ CancelOrClearTicket
  BY <1>3 DEF Ownership, ReplayOwnsTicket, PayloadBelongsToTicket, InReplay,
              SameIdentity, CancelOrClearTicket, ClearTicket, NoTicket
<1>q. QED
  BY <1>1, <1>2, <1>3

\* A step that touches neither the ticket nor the point the game thread is at
\* keeps the ownership.
LEMMA OtherKeepsOwnership ==
  ASSUME Ownership, UNCHANGED <<ticket, payload, main>>
  PROVE  ReplayOwnsTicket' /\ PayloadBelongsToTicket'
BY DEF Ownership, ReplayOwnsTicket, PayloadBelongsToTicket, InReplay, SameIdentity

\* The game thread keeps the ownership.
LEMMA MainOwnership ==
  ASSUME TypeOK, Ownership, MainStep
  PROVE  ReplayOwnsTicket' /\ PayloadBelongsToTicket'
<1> USE DEF TypeOK, MainRecords, MainGoto
<1>o. ReplayOwnsTicket /\ PayloadBelongsToTicket
  BY DEF Ownership
<1>f. /\ \A pc : main' = [main EXCEPT !.pc = pc] => main'.pc = pc
      /\ Return => main'.pc \in {"native", "expire"}
      /\ main' = FrameStart => main'.pc = "top"
  BY MainFields
<1> USE DEF ReplayOwnsTicket, PayloadBelongsToTicket, InReplay, SameIdentity
<1>1. CASE BeginFrame \/ PublishCandidate \/ SkipCommit \/ BeginCapture
           \/ StoreCapture \/ EndNative \/ ReadProbe \/ FinishWindow
  <2>1. UNCHANGED <<ticket, payload>>
    BY <1>1 DEF BeginFrame, PublishCandidate, SkipCommit, BeginCapture,
       StoreCapture, EndNative, ReadProbe, FinishWindow
  <2>2. main.pc \notin {"codec", "recheck", "settle", "fail"}
    BY <1>1 DEF BeginFrame, PublishCandidate, SkipCommit, BeginCapture,
       StoreCapture, EndNative, InNative, ReadProbe, FinishWindow
  <2>3. main'.pc \notin {"codec", "recheck", "settle", "fail"}
    <3>1. CASE BeginFrame \/ PublishCandidate \/ SkipCommit \/ BeginCapture
               \/ StoreCapture \/ FinishWindow
      BY <1>f, <3>1 DEF BeginFrame, PublishCandidate, SkipCommit, BeginCapture,
         StoreCapture, FinishWindow
    <3>2. CASE EndNative
      BY <1>f, <3>2 DEF EndNative
    <3>3. CASE ReadProbe
      BY <1>f, <3>3 DEF ReadProbe
    <3>q. QED
      BY <1>1, <3>1, <3>2, <3>3
  <2>q. QED
    BY <1>o, <2>1, <2>2, <2>3
<1>2. CASE DropCandidate("main") \/ CommitAuthority("main")
  BY <1>2, <1>o DEF DropCandidate, CommitAuthority, MayCommit
<1>3. CASE CheckTicket
  BY <1>3, <1>o, ZenonT(60) DEF CheckTicket, Return, FrameStart, TicketRecords
<1>4. CASE ClaimTicket
  <2>1. CASE ticket' = ticket /\ Return
    BY <1>4, <1>o, <1>f, <2>1 DEF ClaimTicket
  <2>2. CASE /\ SameIdentity(ticket)
             /\ ticket' = [ticket EXCEPT !.applying = TRUE]
             /\ main' = [main EXCEPT !.pc = "codec", !.blob = payload]
    BY <1>4, <1>o, <2>2 DEF ClaimTicket, TicketRecords
  <2>q. QED
    BY <1>4, <2>1, <2>2 DEF ClaimTicket
<1>5. CASE RunCodec \/ RecheckEffects
  BY <1>5, <1>o DEF RunCodec, RecheckEffects
<1>6. CASE SettleTicket
  <2>1. ticket.applying /\ SameIdentity(ticket)
    BY <1>6, <1>o DEF SettleTicket
  <2>2. CASE ticket.cancel
    BY <1>6, <1>f, <2>1, <2>2 DEF SettleTicket, ClearTicket, NoTicket
  <2>3. CASE ~ticket.cancel
    BY <1>6, <1>o, <2>1, <2>3 DEF SettleTicket, TicketRecords
  <2>q. QED
    BY <2>2, <2>3
<1>7. CASE RaiseGate
  BY <1>7, <1>o DEF RaiseGate, FrameStart
<1>8. CASE FailTicket
  <2>1. ~InReplay'
    BY <1>8 DEF FailTicket, Return, FrameStart
  <2>2. CASE ~SameIdentity(ticket)
    BY <1>8, <1>o, <2>1, <2>2 DEF FailTicket
  <2>3. CASE SameIdentity(ticket) /\ ticket.cancel
    BY <1>8, <1>o, <2>1, <2>3 DEF FailTicket, ClearTicket, NoTicket
  <2>4. CASE SameIdentity(ticket) /\ ~ticket.cancel
    BY <1>8, <1>o, <2>1, <2>4, ZenonT(60) DEF FailTicket, Failed, TicketRecords
  <2>q. QED
    BY <2>2, <2>3, <2>4
<1>9. CASE ExpireWindow
  BY <1>9, <1>o DEF ExpireWindow, ExpiryDue, Expired, TicketRecords
<1>q. QED
  BY <1>1, <1>2, <1>3, <1>4, <1>5, <1>6, <1>7, <1>8, <1>9 DEF MainStep, TryApply

\* A claim stays bound to a manager, and a commit of the game thread's keeps
\* it where it is.
LEMMA NextClaimIsBound == ASSUME TypeOK, Ownership, Next PROVE ClaimIsBound'
<1>o. ClaimIsBound
  BY DEF Ownership
<1>f. /\ \A pc : main' = [main EXCEPT !.pc = pc] => main'.pc = pc /\ main'.mgr = main.mgr
      /\ Return => main'.pc \in {"native", "expire"}
      /\ main' = FrameStart => main'.pc = "top"
  BY MainFields DEF TypeOK
<1> USE DEF ClaimIsBound, TryPCs
<1>1. CASE MainStep
  <2>1. CASE BeginFrame \/ PublishCandidate \/ SkipCommit
    BY <1>o, <1>f, <2>1 DEF BeginFrame, PublishCandidate, SkipCommit, MainGoto
  <2>2. CASE BeginCapture \/ StoreCapture
    BY <1>o, <1>f, <2>2 DEF BeginCapture, StoreCapture, MainGoto
  <2>3. CASE EndNative
    BY <1>o, <1>f, <2>3 DEF EndNative, InNative, TypeOK, MainRecords
  <2>4. CASE ReadProbe
    BY <1>o, <1>f, <2>4 DEF ReadProbe, MainGoto, TypeOK, MainRecords
  <2>5. CASE DropCandidate("main")
    BY <1>o, <1>f, <2>5 DEF DropCandidate, MayCommit
  <2>6. CASE CommitAuthority("main")
    BY <1>o, <2>6 DEF CommitAuthority, MayCommit
  <2>7. CASE CheckTicket
    <3> DEFINE target == IF main.post THEN FinalTarget(main.gen) ELSE Target(main.gen)
    <3>1. CASE Claimable(target)
      <4>1. ticket.mgr # 0
        BY <3>1 DEF Claimable
      <4>2. commit'.by # "main"
        BY <1>o, <2>7 DEF CheckTicket
      <4>3. CASE Return
        BY <1>f, <4>2, <4>3
      <4>4. CASE ~Return
        <5>1. PICK pc \in {"claim", "mismatch"} :
                 main' = [main EXCEPT !.pc = pc, !.mgr = ticket.mgr,
                                      !.rev = ticket.rev, !.pgd = target]
          BY <2>7, <3>1, <4>4 DEF CheckTicket
        <5>2. main'.mgr = ticket.mgr
          BY <5>1 DEF TypeOK, MainRecords
        <5>q. QED
          BY <4>1, <4>2, <5>2
      <4>q. QED
        BY <4>3, <4>4
    <3>2. CASE ~Claimable(target)
      BY <1>o, <1>f, <2>7, <3>2 DEF CheckTicket
    <3>q. QED
      BY <3>1, <3>2
  <2>8. CASE ClaimTicket
    <3>1. Return \/ main'.mgr = main.mgr
      BY <2>8 DEF ClaimTicket, TypeOK, MainRecords
    <3>q. QED
      BY <1>o, <1>f, <2>8, <3>1 DEF ClaimTicket
  <2>9. CASE RunCodec \/ RecheckEffects
    BY <1>o, <1>f, <2>9 DEF RunCodec, RecheckEffects, MainGoto
  <2>10. CASE SettleTicket \/ FinishWindow \/ FailTicket \/ ExpireWindow
    BY <1>o, <1>f, <2>10
       DEF SettleTicket, FinishWindow, FailTicket, ExpireWindow, MainGoto
  <2>11. CASE RaiseGate
    BY <1>o, <1>f, <2>11 DEF RaiseGate, MainGoto, FrameStart
  <2>q. QED
    BY <1>1, <2>1, <2>2, <2>3, <2>4, <2>5, <2>6, <2>7, <2>8, <2>9, <2>10, <2>11
       DEF MainStep, TryApply
<1>2. CASE CommitStep
  <2>1. UNCHANGED main \/ main' = [main EXCEPT !.pc = "read"]
    BY <1>2 DEF CommitStep, Reconcile, RearmGate, ClearMovedTicket, EndCommit, CommitGoto
  <2>2. \/ commit'.by = commit.by /\ commit'.pc \in {"gate", "clear"} /\ UNCHANGED main
        \/ commit'.by = "none"
    <3>1. /\ EndCommit => commit'.by = "none"
          /\ \A pc : CommitGoto(pc) =>
               commit'.by = commit.by /\ commit'.pc = pc /\ UNCHANGED main
      BY DEF EndCommit, CommitGoto, NoCommit, TypeOK, CommitRecords
    <3>2. \A b : commit' = [commit EXCEPT !.pc = "gate", !.moved = b] =>
            commit'.by = commit.by /\ commit'.pc = "gate"
      BY DEF TypeOK, CommitRecords
    <3>3. CASE Reconcile
      BY <3>1, <3>2, <3>3 DEF Reconcile
    <3>4. CASE RearmGate \/ ClearMovedTicket
      BY <3>1, <3>4 DEF RearmGate, ClearMovedTicket
    <3>q. QED
      BY <1>2, <3>3, <3>4 DEF CommitStep
  <2>q. QED
    BY <1>o, <1>f, <2>1, <2>2
<1>3. CASE CommitAuthority("ctl")
  BY <1>o, <1>3 DEF CommitAuthority
<1>4. CASE NativeEvent \/ CtlStep
  <2>1. UNCHANGED <<main, commit>>
    BY <1>4
       DEF NativeEvent, NewPlayerGameData, NewManager, RetireManager, RegisterWorld,
           UnloadWorld, HandOff, GuestCandidate, CtlStep, ArmTicket, ReadForGate,
           ArmGateForResponse, DropGate, DropTicket, CompleteAdmission, CompleteGate
  <2>q. QED
    BY <1>o, <2>1
<1>5. CASE CtlBegin
  <2>1. CommitAuthority("ctl") \/ UNCHANGED <<main, commit>>
    BY <1>5 DEF CtlBegin, ReceiveDelivery, Authorize, Terminate, RearmByLifetime,
                CheckCompletion, DropCandidate
  <2>q. QED
    BY <1>o, <1>3, <2>1
<1>6. CASE ArmProbe \/ LosePeer \/ ResetLostProbe \/ Elapse
  BY <1>o, <1>6 DEF ArmProbe, LosePeer, ResetLostProbe, Elapse
<1>q. QED
  BY <1>1, <1>2, <1>4, <1>5, <1>6 DEF Next

\* Every step keeps the ownership.
LEMMA NextOwnership == ASSUME TypeOK, Ownership, Next PROVE Ownership'
<1>b. ClaimIsBound'
  BY NextClaimIsBound
<1>1. CASE MainStep
  BY <1>1, <1>b, MainOwnership DEF Ownership
<1>2. CASE Reconcile
  <2> DEFINE mine == IsAuthorized(probe) /\ probe.gen = commit.gen
             ticketMine == /\ mine /\ TicketMatches(ticket, probe.nonce, probe.gen)
                           /\ ticket.mgr \in {0, commit.mgr}
  <2>1. main' = main \/ (main' = [main EXCEPT !.pc = "read"] /\ main.pc = "commit")
    BY <1>2 DEF Reconcile, EndCommit, CommitGoto, Ownership, ClaimIsBound
  <2>2. CASE ticketMine
    <3>1. ticket' = [ticket EXCEPT !.mgr = commit.mgr] /\ UNCHANGED payload
      BY <1>2, <2>2 DEF Reconcile
    <3>2. ReplayOwnsTicket' /\ PayloadBelongsToTicket'
      BY <2>1, <2>2, <3>1
         DEF Ownership, ReplayOwnsTicket, PayloadBelongsToTicket, ClaimIsBound,
             InReplay, SameIdentity, TypeOK, TicketRecords, MainRecords, TryPCs
    <3>q. QED
      BY <1>b, <3>2 DEF Ownership
  <2>3. CASE ~ticketMine
    <3>1. CancelOrClearTicket \/ UNCHANGED <<ticket, payload>>
      BY <1>2, <2>3 DEF Reconcile
    <3>2. CASE main' = main
      BY <1>b, <3>1, <3>2, ClearKeepsOwnership DEF Ownership
    <3>3. CASE main' = [main EXCEPT !.pc = "read"] /\ main.pc = "commit"
      BY <1>b, <3>1, <3>3
         DEF Ownership, ReplayOwnsTicket, PayloadBelongsToTicket, InReplay,
             SameIdentity, CancelOrClearTicket, ClearTicket, NoTicket, TypeOK,
             MainRecords
    <3>q. QED
      BY <2>1, <3>2, <3>3
  <2>q. QED
    BY <2>2, <2>3
<1>3. CASE RearmGate \/ ClearMovedTicket
  <2>1. main' = main \/ (main' = [main EXCEPT !.pc = "read"] /\ main.pc = "commit")
    BY <1>3 DEF RearmGate, ClearMovedTicket, EndCommit, CommitGoto, Ownership, ClaimIsBound
  <2>2. CancelOrClearTicket \/ UNCHANGED <<ticket, payload>>
    BY <1>3 DEF RearmGate, ClearMovedTicket
  <2>3. CASE main' = main
    BY <1>b, <2>2, <2>3, ClearKeepsOwnership DEF Ownership
  <2>4. CASE main' = [main EXCEPT !.pc = "read"] /\ main.pc = "commit"
    BY <1>b, <2>2, <2>4
       DEF Ownership, ReplayOwnsTicket, PayloadBelongsToTicket, InReplay,
           SameIdentity, CancelOrClearTicket, ClearTicket, NoTicket, TypeOK,
           MainRecords
  <2>q. QED
    BY <2>1, <2>3, <2>4
<1>4. CASE NativeEvent
  <2>1. UNCHANGED main /\ (CancelOrClearTicket \/ UNCHANGED <<ticket, payload>>)
    BY <1>4
       DEF NativeEvent, NewPlayerGameData, NewManager, RetireManager,
           RegisterWorld, UnloadWorld, HandOff, GuestCandidate
  <2>q. QED
    BY <1>b, <2>1, ClearKeepsOwnership DEF Ownership
<1>5. CASE ArmTicket
  <2>1. UNCHANGED main
    BY <1>5 DEF ArmTicket
  <2>2. CASE UNCHANGED <<ticket, payload>>
    BY <1>b, <2>1, <2>2, OtherKeepsOwnership DEF Ownership
  <2>3. CASE ~UNCHANGED <<ticket, payload>>
    <3>1. ~ticket.applying
      BY <1>5, <2>3 DEF ArmTicket
    <3>2. ReplayOwnsTicket' /\ PayloadBelongsToTicket'
      BY <1>5, <2>1, <2>3, <3>1
         DEF ArmTicket, Ownership, ReplayOwnsTicket, PayloadBelongsToTicket,
             InReplay, SameIdentity, NoTicket
    <3>q. QED
      BY <1>b, <3>2 DEF Ownership
  <2>q. QED
    BY <2>2, <2>3
<1>6. CASE ReadForGate \/ ArmGateForResponse \/ DropGate \/ DropTicket
           \/ CompleteAdmission \/ CompleteGate
  <2>1. UNCHANGED main /\ (CancelOrClearTicket \/ UNCHANGED <<ticket, payload>>)
    BY <1>6 DEF ReadForGate, ArmGateForResponse, DropGate, DropTicket,
                CompleteAdmission, CompleteGate
  <2>q. QED
    BY <1>b, <2>1, ClearKeepsOwnership DEF Ownership
<1>7. CASE CtlBegin
  <2>1. UNCHANGED <<ticket, payload, main>>
    BY <1>7 DEF CtlBegin, ReceiveDelivery, Authorize, Terminate, RearmByLifetime,
                CheckCompletion, DropCandidate, CommitAuthority
  <2>q. QED
    BY <1>b, <2>1, OtherKeepsOwnership DEF Ownership
<1>8. CASE ArmProbe \/ LosePeer \/ ResetLostProbe \/ Elapse
  <2>1. UNCHANGED main /\ (CancelOrClearTicket \/ UNCHANGED <<ticket, payload>>)
    BY <1>8 DEF ArmProbe, LosePeer, ResetLostProbe, Elapse
  <2>q. QED
    BY <1>b, <2>1, ClearKeepsOwnership DEF Ownership
<1>q. QED
  BY <1>1, <1>2, <1>3, <1>4, <1>5, <1>6, <1>7, <1>8 DEF Next, CommitStep, CtlStep

-----------------------------------------------------------------------------
(* A final replay follows a seed. *)

\* What the other threads may do to the game thread, to the ticket and to the
\* record of replays.
SameTicket ==
    /\ ticket'.valid = ticket.valid     /\ ticket'.nonce = ticket.nonce
    /\ ticket'.gen = ticket.gen         /\ ticket'.rev = ticket.rev
    /\ ticket'.applied = ticket.applied /\ ticket'.final = ticket.final
    /\ ticket'.pgd = ticket.pgd

\* What the steps of the other threads leave of the game thread's locals, of the
\* ticket and of the history.
LEMMA OtherSteps ==
  ASSUME TypeOK, Ownership, Next
  PROVE  \/ MainStep
         \/ /\ \/ UNCHANGED main
               \/ main.pc = "commit" /\ main' = [main EXCEPT !.pc = "read"]
            /\ ArmTicket \/ ticket' = NoTicket \/ SameTicket
            /\ UNCHANGED <<history.seeds, history.finals, history.objects>>
<1>t. CancelOrClearTicket \/ UNCHANGED ticket => ticket' = NoTicket \/ SameTicket
  BY DEF CancelOrClearTicket, ClearTicket, SameTicket, TypeOK, TicketRecords
<1>c. EndCommit => main' = main \/ (main.pc = "commit" /\ main' = [main EXCEPT !.pc = "read"])
  BY DEF EndCommit, Ownership, ClaimIsBound
<1>1. CASE NativeEvent
  <2>1. UNCHANGED main /\ (CancelOrClearTicket \/ UNCHANGED ticket)
    BY <1>1
       DEF NativeEvent, NewPlayerGameData, NewManager, RetireManager,
           RegisterWorld, UnloadWorld, HandOff, GuestCandidate
  <2>2. UNCHANGED history \/ HandOff
    BY <1>1
       DEF NativeEvent, NewPlayerGameData, NewManager, RetireManager,
           RegisterWorld, UnloadWorld, GuestCandidate
  <2>3. UNCHANGED <<history.seeds, history.finals, history.objects>>
    BY <2>2 DEF HandOff, TypeOK, HistoryRecords
  <2>q. QED
    BY <1>t, <2>1, <2>3
<1>2. CASE Reconcile
  <2>1. CancelOrClearTicket \/ UNCHANGED ticket \/ ticket' = [ticket EXCEPT !.mgr = commit.mgr]
    BY <1>2 DEF Reconcile
  <2>2. ticket' = [ticket EXCEPT !.mgr = commit.mgr] => SameTicket
    BY DEF SameTicket, TypeOK, TicketRecords
  <2>3. UNCHANGED history /\ (UNCHANGED main \/ EndCommit)
    BY <1>2 DEF Reconcile, CommitGoto
  <2>q. QED
    BY <1>t, <1>c, <2>1, <2>2, <2>3
<1>3. CASE RearmGate \/ ClearMovedTicket
  <2>1. /\ CancelOrClearTicket \/ UNCHANGED ticket
        /\ UNCHANGED history /\ (UNCHANGED main \/ EndCommit)
    BY <1>3 DEF RearmGate, ClearMovedTicket, CommitGoto
  <2>q. QED
    BY <1>t, <1>c, <2>1
<1>4. CASE CtlStep
  <2>1. /\ ArmTicket \/ CancelOrClearTicket \/ UNCHANGED ticket
        /\ UNCHANGED <<main, history>>
    BY <1>4 DEF CtlStep, ArmTicket, ReadForGate, ArmGateForResponse, DropGate,
                DropTicket, CompleteAdmission, CompleteGate
  <2>q. QED
    BY <1>t, <2>1
<1>n. history' = [history EXCEPT !.nonces = @ + 1]
        => UNCHANGED <<history.seeds, history.finals, history.objects>>
  BY DEF TypeOK, HistoryRecords
<1>5. CASE CtlBegin
  <2>1. /\ UNCHANGED <<main, ticket>>
        /\ UNCHANGED history \/ history' = [history EXCEPT !.nonces = @ + 1]
    BY <1>5 DEF CtlBegin, ReceiveDelivery, Authorize, Terminate, RearmByLifetime,
                CheckCompletion, DropCandidate, CommitAuthority
  <2>q. QED
    BY <1>n, <1>t, <2>1
<1>6. CASE ArmProbe \/ LosePeer \/ ResetLostProbe \/ Elapse
  <2>1. /\ UNCHANGED main /\ (CancelOrClearTicket \/ UNCHANGED ticket)
        /\ UNCHANGED history \/ history' = [history EXCEPT !.nonces = @ + 1]
    BY <1>6 DEF ArmProbe, LosePeer, ResetLostProbe, Elapse
  <2>q. QED
    BY <1>n, <1>t, <2>1
<1>q. QED
  BY <1>1, <1>2, <1>3, <1>4, <1>5, <1>6 DEF Next, CommitStep

\* A step of the game thread keeps every seed on record.
LEMMA MainSeedRecorded ==
  ASSUME TypeOK, Ownership, SeedRecorded, MainStep
  PROVE  SeedRecorded'
<1>f. /\ \A pc : main' = [main EXCEPT !.pc = pc] =>
           /\ main'.pc = pc /\ main'.post = main.post
           /\ main'.nonce = main.nonce /\ main'.rev = main.rev
      /\ Return => main'.pc \in {"native", "expire"}
      /\ main' = FrameStart => main'.pc = "top"
  BY MainFields DEF TypeOK
<1> USE DEF SeedRecorded, FinalAfterSeed, InReplay
<1>1. CASE BeginFrame \/ PublishCandidate \/ SkipCommit \/ DropCandidate("main")
           \/ CommitAuthority("main")
  BY <1>f, <1>1 DEF BeginFrame, PublishCandidate, SkipCommit, DropCandidate,
                    CommitAuthority, MayCommit, MainGoto
<1>2. CASE BeginCapture \/ StoreCapture \/ FinishWindow
  BY <1>f, <1>2 DEF BeginCapture, StoreCapture, FinishWindow, MainGoto
<1>3. CASE EndNative
  BY <1>f, <1>3 DEF EndNative, InNative, TypeOK, MainRecords
<1>4. CASE ReadProbe
  <2>1. UNCHANGED <<ticket, history>>
    BY <1>4 DEF ReadProbe
  <2>2. main'.pc \in {"expire", "preExpire", "check", "native"}
    BY <1>4, ReadProbeMoves
  <2>q. QED
    BY <2>1, <2>2
<1>5. CASE CheckTicket
  <2> DEFINE target == IF main.post THEN FinalTarget(main.gen) ELSE Target(main.gen)
  <2>1. UNCHANGED ticket \/ ticket' = [ticket EXCEPT !.readyPgd = target]
    BY <1>5 DEF CheckTicket
  <2>2. UNCHANGED history
    BY <1>5 DEF CheckTicket
  <2>3. main'.pc \notin {"codec", "recheck", "settle", "fail"}
    <3>1. \A pc \in {"claim", "mismatch"} :
            main' = [main EXCEPT !.pc = pc, !.mgr = ticket.mgr,
                                 !.rev = ticket.rev, !.pgd = target]
              => main'.pc = pc
      BY DEF TypeOK, MainRecords
    <3>q. QED
      BY <1>f, <1>5, <3>1 DEF CheckTicket
  <2>q. QED
    BY <2>1, <2>2, <2>3 DEF TypeOK, TicketRecords
<1>6. CASE ClaimTicket
  <2>1. UNCHANGED history
    BY <1>6 DEF ClaimTicket
  <2>2. CASE Return /\ UNCHANGED ticket
    BY <1>f, <2>1, <2>2
  <2>3. CASE ~(Return /\ UNCHANGED ticket)
    <3>1. /\ SameIdentity(ticket) /\ ~ticket.final /\ ticket.applied = main.post
          /\ ticket' = [ticket EXCEPT !.applying = TRUE]
          /\ main' = [main EXCEPT !.pc = "codec", !.blob = payload]
      BY <1>6, <2>3 DEF ClaimTicket, ForThisPass
    <3>2. SameTicket
      BY <3>1 DEF SameTicket, TypeOK, TicketRecords
    <3>3. /\ main'.pc = "codec" /\ main'.post = main.post
          /\ main'.nonce = main.nonce /\ main'.rev = main.rev
      BY <3>1 DEF TypeOK, MainRecords
    <3>q. QED
      BY <2>1, <3>1, <3>2, <3>3 DEF SameTicket, SameIdentity
  <2>q. QED
    BY <2>2, <2>3
<1>7. CASE RunCodec
  <2>1. history.seeds \subseteq history'.seeds /\ UNCHANGED ticket
    BY <1>7 DEF RunCodec, TypeOK, HistoryRecords
  <2>2. /\ main.pc = "codec" /\ main'.pc \in {"recheck", "settle", "fail"}
        /\ main'.post = main.post /\ main'.nonce = main.nonce /\ main'.rev = main.rev
    BY <1>f, <1>7 DEF RunCodec, MainGoto
  <2>3. main.post \/ main'.pc = "fail" \/ <<main.nonce, main.rev>> \in history'.seeds
    <3>1. CASE MainGoto("fail")
      BY <1>f, <3>1 DEF MainGoto
    <3>2. CASE ~main.post /\ ~MainGoto("fail")
      <4>1. history' = [history EXCEPT !.seeds = @ \cup {<<main.nonce, main.rev>>}]
        BY <1>7, <3>2 DEF RunCodec
      <4>q. QED
        BY <4>1 DEF TypeOK, HistoryRecords
    <3>q. QED
      BY <3>1, <3>2
  <2>q. QED
    BY <2>1, <2>2, <2>3
<1>8. CASE RecheckEffects
  BY <1>f, <1>8 DEF RecheckEffects, MainGoto
<1>9. CASE SettleTicket
  <2>1. /\ UNCHANGED history /\ SameIdentity(ticket) /\ ticket.applying
        /\ main.pc = "settle"
    BY <1>9 DEF SettleTicket, Ownership, ReplayOwnsTicket
  <2>2. CASE ticket.cancel
    BY <1>f, <1>9, <2>1, <2>2 DEF SettleTicket, ClearTicket, NoTicket
  <2>3. CASE ~ticket.cancel
    <3>1. main'.pc = "mark"
      BY <1>f, <1>9, <2>1, <2>3 DEF SettleTicket, MainGoto
    <3>2. /\ ticket'.nonce = main.nonce /\ ticket'.rev = main.rev
      BY <1>9, <2>1, <2>3 DEF SettleTicket, SameIdentity, TypeOK, TicketRecords
    <3>q. QED
      BY <2>1, <3>1, <3>2
  <2>q. QED
    BY <2>2, <2>3
<1>10. CASE RaiseGate
  <2>1. UNCHANGED ticket /\ history'.seeds = history.seeds
    BY <1>10 DEF RaiseGate, TypeOK, HistoryRecords
  <2>2. main'.pc \in {"finish", "native"}
    BY <1>f, <1>10 DEF RaiseGate, MainGoto, FrameStart
  <2>q. QED
    BY <2>1, <2>2
<1>11. CASE FailTicket
  <2>1. UNCHANGED history /\ main'.pc \in {"native", "expire"}
    BY <1>f, <1>11 DEF FailTicket
  <2>2. UNCHANGED ticket \/ ~ticket'.valid \/ ~ticket'.applied
    <3>1. \/ UNCHANGED ticket \/ ticket' = NoTicket
          \/ ticket' = [ticket EXCEPT !.applying = FALSE, !.failed = TRUE, !.applied = FALSE]
      BY <1>11 DEF FailTicket, Failed, ClearTicket
    <3>2. ticket' = NoTicket => ~ticket'.valid
      BY DEF NoTicket
    <3>3. ticket' = [ticket EXCEPT !.applying = FALSE, !.failed = TRUE, !.applied = FALSE]
            => ~ticket'.applied
      BY DEF TypeOK, TicketRecords
    <3>q. QED
      BY <3>1, <3>2, <3>3
  <2>q. QED
    BY <2>1, <2>2
<1>12. CASE ExpireWindow
  <2>1. SameTicket /\ UNCHANGED history
    BY <1>12 DEF ExpireWindow, Expired, SameTicket, TypeOK, TicketRecords
  <2>2. main'.pc \in {"capture", "native"}
    BY <1>f, <1>12 DEF ExpireWindow, MainGoto
  <2>q. QED
    BY <2>1, <2>2 DEF SameTicket
<1>q. QED
  BY <1>1, <1>2, <1>3, <1>4, <1>5, <1>6, <1>7, <1>8, <1>9, <1>10, <1>11, <1>12
     DEF MainStep, TryApply

\* Every step keeps every seed on record: a ticket installed by another thread
\* is not marked as seeded, unless it is final already.
LEMMA NextSeedRecorded ==
  ASSUME TypeOK, Ownership, SeedRecorded, Next
  PROVE  SeedRecorded'
<1>1. CASE MainStep
  BY <1>1, MainSeedRecorded
<1>2. CASE ~MainStep
  <2>1. /\ UNCHANGED main \/ (main'.pc = "read" /\ main'.post = main.post)
        /\ history'.seeds = history.seeds
    BY <1>2, OtherSteps DEF TypeOK, MainRecords
  <2>2. ticket'.valid /\ ticket'.applied /\ ~ticket'.final
          => <<ticket'.nonce, ticket'.rev>> \in history.seeds
    <3>1. CASE ArmTicket
      BY <3>1 DEF ArmTicket, NoTicket, SeedRecorded
    <3>2. CASE ticket' = NoTicket
      BY <3>2 DEF NoTicket
    <3>3. CASE SameTicket
      BY <3>3 DEF SameTicket, SeedRecorded
    <3>q. QED
      BY <1>2, <3>1, <3>2, <3>3, OtherSteps
  <2>q. QED
    BY <2>1, <2>2 DEF SeedRecorded, FinalAfterSeed, InReplay
<1>q. QED
  BY <1>1, <1>2

-----------------------------------------------------------------------------
(* What is named as restored was restored. *)

\* Raising a gate and arming one name no PGD that was not restored.
LEMMA GateRecorded ==
  ASSUME TypeOK, CopyRecorded, NEW nonce, NEW gen
  PROVE  /\ \A stage : MarkGate(nonce, gen, stage)
              => (gate'.pgd # 0 => RestoredIn(gate'.gen, gate'.pgd))
         /\ \A auth, pgd, reg : ArmGate(gen, auth, pgd, reg)
              => (gate'.pgd # 0 => RestoredIn(gate'.gen, gate'.pgd))
         /\ gate' = NoGate => gate'.pgd = 0
<1> USE DEF TypeOK, GateRecords
<1>1. ASSUME NEW stage, MarkGate(nonce, gen, stage), gate'.pgd # 0
      PROVE  RestoredIn(gate'.gen, gate'.pgd)
  <2>1. gate'.gen = gate.gen
    BY <1>1 DEF MarkGate
  <2>2. \/ gate'.pgd = gate.pgd
        \/ /\ gate'.pgd = ticket.pgd /\ ticket.final
           /\ ticket.gen = gen /\ gate.gen = gen
    BY <1>1 DEF MarkGate, RestoredPgd, GateMatches, TicketMatches, SameAttempt
  <2>q. QED
    BY <1>1, <2>1, <2>2 DEF CopyRecorded
<1>2. ASSUME NEW auth, NEW pgd, NEW reg, ArmGate(gen, auth, pgd, reg), gate'.pgd # 0
      PROVE  RestoredIn(gate'.gen, gate'.pgd)
  <2>1. gate'.gen = gate.gen /\ gate'.pgd = gate.pgd
    BY <1>2 DEF ArmGate
  <2>q. QED
    BY <1>2, <2>1 DEF CopyRecorded
<1>3. gate' = NoGate => gate'.pgd = 0
  BY DEF NoGate
<1>q. QED
  BY <1>1, <1>2, <1>3

\* Nothing on record is forgotten.
LEMMA RestoredGrows ==
  ASSUME history.objects \subseteq history'.objects
  PROVE  \A gen, pgd : RestoredIn(gen, pgd) =>
           \E o \in history'.objects : o.gen = gen /\ o.pgd = pgd
BY DEF RestoredIn

\* A step of the game thread keeps every copy on record.
LEMMA MainCopyRecorded ==
  ASSUME TypeOK, Ownership, CopyRecorded, MainStep
  PROVE  CopyRecorded'
<1>f. /\ \A pc : main' = [main EXCEPT !.pc = pc] =>
           /\ main'.pc = pc /\ main'.post = main.post
           /\ main'.gen = main.gen /\ main'.pgd = main.pgd
      /\ Return => main'.pc \in {"native", "expire"}
      /\ main' = FrameStart => main'.pc = "top"
  BY MainFields DEF TypeOK
<1>p. UNCHANGED probe \/ (probe'.stage = probe.stage /\ probe'.gen = probe.gen)
        => (probe'.stage = "Completed" => probe.stage = "Completed" /\ probe'.gen = probe.gen)
  OBVIOUS
<1> USE DEF CopyRecorded, CompletedMeansRestored, RestoredIn
<1>1. CASE BeginFrame \/ PublishCandidate \/ SkipCommit \/ DropCandidate("main")
           \/ CommitAuthority("main")
  BY <1>f, <1>1 DEF BeginFrame, PublishCandidate, SkipCommit, DropCandidate,
                    CommitAuthority, MayCommit, MainGoto
<1>2. CASE BeginCapture \/ StoreCapture
  BY <1>f, <1>2 DEF BeginCapture, StoreCapture, MainGoto
<1>3. CASE EndNative
  <2>1. main'.pc \in {"read", "top"}
    BY <1>f, <1>3 DEF EndNative, TypeOK, MainRecords
  <2>q. QED
    BY <1>3, <2>1 DEF EndNative
<1>4. CASE ReadProbe
  <2>1. main'.pc \in {"expire", "preExpire", "check", "native"}
    BY <1>4, ReadProbeMoves
  <2>q. QED
    BY <1>4, <2>1 DEF ReadProbe
<1>5. CASE CheckTicket
  <2> DEFINE target == IF main.post THEN FinalTarget(main.gen) ELSE Target(main.gen)
  <2>1. UNCHANGED ticket \/ ticket' = [ticket EXCEPT !.readyPgd = target]
    BY <1>5 DEF CheckTicket
  <2>2. SameTicket
    BY <2>1 DEF SameTicket, TypeOK, TicketRecords
  <2>3. main'.pc \in {"native", "expire", "claim", "mismatch"}
    <3>1. \A pc \in {"claim", "mismatch"} :
            main' = [main EXCEPT !.pc = pc, !.mgr = ticket.mgr,
                                 !.rev = ticket.rev, !.pgd = target]
              => main'.pc = pc
      BY DEF TypeOK, MainRecords
    <3>q. QED
      BY <1>f, <1>5, <3>1 DEF CheckTicket
  <2>4. UNCHANGED <<history, gate, ctl, probe, native>>
    BY <1>5 DEF CheckTicket
  <2>q. QED
    BY <2>2, <2>3, <2>4 DEF SameTicket
<1>6. CASE ClaimTicket
  <2>1. SameTicket
    BY <1>6 DEF ClaimTicket, SameTicket, TypeOK, TicketRecords
  <2>2. main'.pc \in {"native", "expire", "codec"}
    BY <1>f, <1>6 DEF ClaimTicket, TypeOK, MainRecords
  <2>3. UNCHANGED <<history, gate, ctl, probe, native>>
    BY <1>6 DEF ClaimTicket
  <2>q. QED
    BY <2>1, <2>2, <2>3 DEF SameTicket
<1>7. CASE RunCodec
  <2>1. history.objects \subseteq history'.objects
    BY <1>7 DEF RunCodec, TypeOK, HistoryRecords
  <2>2. UNCHANGED <<ticket, gate, ctl, probe, native>>
    BY <1>7 DEF RunCodec
  <2>3. main'.pc = "recheck" \/ (main'.pc = "settle" /\ ~main'.post) \/ main'.pc = "fail"
    BY <1>f, <1>7 DEF RunCodec, MainGoto
  <2>4. main'.pc = "recheck" =>
          \E o \in history'.objects : o.gen = main'.gen /\ o.pgd = main'.pgd
    <3>1. SUFFICES ASSUME main'.pc = "recheck"
                   PROVE  \E o \in history'.objects : o.gen = main.gen /\ o.pgd = main.pgd
      BY <1>f, <1>7 DEF RunCodec, MainGoto
    <3>2. history' = [history EXCEPT !.objects = @ \cup
                        {[gen |-> main.gen, pgd |-> main.pgd, reg |-> world.reg]}]
      BY <1>f, <1>7, <3>1 DEF RunCodec, MainGoto
    <3>3. [gen |-> main.gen, pgd |-> main.pgd, reg |-> world.reg] \in history'.objects
      BY <3>2 DEF TypeOK, HistoryRecords
    <3>q. QED
      BY <3>3
  <2>q. QED
    BY <2>1, <2>2, <2>3, <2>4
<1>8. CASE RecheckEffects
  BY <1>f, <1>8 DEF RecheckEffects, MainGoto
<1>9. CASE SettleTicket
  <2>1. /\ UNCHANGED <<history, gate, ctl, probe, native>>
        /\ SameIdentity(ticket) /\ ticket.applying /\ main.pc = "settle"
    BY <1>9 DEF SettleTicket, Ownership, ReplayOwnsTicket, InReplay
  <2>2. main'.pc \in {"native", "expire", "mark"}
    BY <1>f, <1>9 DEF SettleTicket, MainGoto
  <2>3. CASE ticket.cancel
    BY <1>9, <2>1, <2>2, <2>3 DEF SettleTicket, ClearTicket, NoTicket
  <2>4. CASE ~ticket.cancel /\ main.post
    <3>1. ticket'.gen = main.gen /\ ticket'.pgd = main.pgd
      BY <1>9, <2>1, <2>4 DEF SettleTicket, SameIdentity, TypeOK, TicketRecords
    <3>q. QED
      BY <2>1, <2>2, <2>4, <3>1
  <2>5. CASE ~ticket.cancel /\ ~main.post
    <3>1. ticket'.gen = ticket.gen /\ ticket'.pgd = ticket.pgd /\ ticket'.final = ticket.final
      BY <1>9, <2>1, <2>5 DEF SettleTicket, TypeOK, TicketRecords
    <3>q. QED
      BY <2>1, <2>2, <3>1
  <2>q. QED
    BY <2>3, <2>4, <2>5
<1>10. CASE RaiseGate
  <2>1. UNCHANGED <<ticket, ctl, probe, native>> /\ history'.objects = history.objects
    BY <1>10 DEF RaiseGate, TypeOK, HistoryRecords
  <2>2. main'.pc \in {"finish", "native"}
    BY <1>f, <1>10 DEF RaiseGate, MainGoto, FrameStart
  <2>3. gate'.pgd # 0 => \E o \in history.objects : o.gen = gate'.gen /\ o.pgd = gate'.pgd
    BY <1>10, GateRecorded DEF RaiseGate
  <2>q. QED
    BY <2>1, <2>2, <2>3
<1>11. CASE FinishWindow
  <2>1. probe'.stage = probe.stage /\ probe'.gen = probe.gen
    BY <1>11 DEF FinishWindow, TypeOK, ProbeRecords
  <2>2. UNCHANGED <<ticket, gate, ctl, history, native>>
    BY <1>11 DEF FinishWindow
  <2>q. QED
    BY <1>f, <1>11, <2>1, <2>2 DEF FinishWindow
<1>12. CASE FailTicket
  <2>1. UNCHANGED <<history, gate, ctl, probe, native>> /\ main'.pc \in {"native", "expire"}
    BY <1>f, <1>12 DEF FailTicket
  <2>2. \/ UNCHANGED ticket \/ ticket' = NoTicket
        \/ ticket' = [ticket EXCEPT !.applying = FALSE, !.failed = TRUE, !.applied = FALSE]
    BY <1>12 DEF FailTicket, Failed, ClearTicket
  <2>3. ~ticket'.final \/ (/\ ticket'.final = ticket.final
                           /\ ticket'.gen = ticket.gen /\ ticket'.pgd = ticket.pgd)
    <3>1. ticket' = NoTicket => ~ticket'.final
      BY DEF NoTicket
    <3>2. ticket' = [ticket EXCEPT !.applying = FALSE, !.failed = TRUE, !.applied = FALSE]
            => /\ ticket'.final = ticket.final
               /\ ticket'.gen = ticket.gen /\ ticket'.pgd = ticket.pgd
      BY DEF TypeOK, TicketRecords
    <3>q. QED
      BY <2>2, <3>1, <3>2
  <2>q. QED
    BY <2>1, <2>3
<1>13. CASE ExpireWindow
  <2>1. SameTicket /\ UNCHANGED <<history, gate, ctl, native>>
    BY <1>13 DEF ExpireWindow, Expired, SameTicket, TypeOK, TicketRecords
  <2>2. main'.pc \in {"capture", "native"}
    BY <1>f, <1>13 DEF ExpireWindow, MainGoto
  <2>3. probe'.stage = probe.stage /\ probe'.gen = probe.gen
    BY <1>13 DEF ExpireWindow, TypeOK, ProbeRecords
  <2>q. QED
    BY <2>1, <2>2, <2>3 DEF SameTicket
<1>q. QED
  BY <1>1, <1>2, <1>3, <1>4, <1>5, <1>6, <1>7, <1>8, <1>9, <1>10, <1>11, <1>12, <1>13
     DEF MainStep, TryApply

\* A step of any other thread keeps the gate's part of the record.
LEMMA OtherGateRecorded ==
  ASSUME TypeOK, CopyRecorded, Next, ~MainStep
  PROVE  gate'.pgd # 0 => RestoredIn(gate'.gen, gate'.pgd)
<1>1. \/ gate' = gate
      \/ gate' = NoGate
      \/ gate' = [gate EXCEPT !.mgr = commit.mgr]
      \/ \E nonce, gen, stage : MarkGate(nonce, gen, stage)
      \/ \E gen, auth, pgd, reg : ArmGate(gen, auth, pgd, reg)
  <2>1. CASE NativeEvent
    BY <2>1 DEF NativeEvent, NewPlayerGameData, NewManager, RetireManager,
       RegisterWorld, UnloadWorld, HandOff, GuestCandidate
  <2>2. CASE CommitStep
    BY <2>2 DEF CommitStep, Reconcile, RearmGate, ClearMovedTicket
  <2>3. CASE CtlStep
    BY <2>3 DEF CtlStep, ArmTicket, ReadForGate, ArmGateForResponse, DropGate,
       DropTicket, CompleteAdmission, CompleteGate
  <2>4. CASE CtlBegin
    BY <2>4 DEF CtlBegin, ReceiveDelivery, Authorize, Terminate, RearmByLifetime,
       CheckCompletion, DropCandidate, CommitAuthority
  <2>5. CASE ArmProbe \/ LosePeer \/ ResetLostProbe \/ Elapse
    BY <2>5 DEF ArmProbe, LosePeer, ResetLostProbe, Elapse
  <2>q. QED
    BY <2>1, <2>2, <2>3, <2>4, <2>5 DEF Next
<1>2. gate' = [gate EXCEPT !.mgr = commit.mgr] => gate'.gen = gate.gen /\ gate'.pgd = gate.pgd
  BY DEF TypeOK, GateRecords
<1>q. QED
  BY <1>1, <1>2, GateRecorded DEF CopyRecorded

\* A completed attempt was checked to be restored.
LEMMA OtherCompletion ==
  ASSUME TypeOK, CopyRecorded, Next, ~MainStep
  PROVE  /\ ctl'.pc = "complete" => \E o \in history.objects : o.gen = ctl'.gen
         /\ probe'.stage = "Completed" => \E o \in history.objects : o.gen = probe'.gen
<1> USE DEF CopyRecorded, CompletedMeansRestored
<1>1. CASE NativeEvent
  <2>1. UNCHANGED ctl /\ (UNCHANGED probe \/ probe'.stage = "HandedOff")
    BY <1>1 DEF NativeEvent, NewPlayerGameData, NewManager, RetireManager,
       RegisterWorld, UnloadWorld, HandOff, GuestCandidate, TypeOK, ProbeRecords
  <2>q. QED
    BY <2>1
<1>2. CASE CommitStep
  BY <1>2 DEF CommitStep, Reconcile, RearmGate, ClearMovedTicket
<1>3. CASE CompleteAdmission
  <2>1. ctl'.pc \in {"idle", "completeGate"}
    BY <1>3 DEF CompleteAdmission, Idle, TypeOK, CtlRecords
  <2>2. probe' = probe \/ (probe'.gen = ctl.gen /\ ctl.pc = "complete")
    BY <1>3 DEF CompleteAdmission, TypeOK, ProbeRecords
  <2>q. QED
    BY <2>1, <2>2
<1>4. CASE CtlStep /\ ~CompleteAdmission
  <2>1. UNCHANGED probe /\ ctl'.pc \in {"idle", "armGate", "dropTicket"}
    <3>1. Idle.pc = "idle" /\ [ctl EXCEPT !.pc = "dropTicket"].pc = "dropTicket"
      BY DEF Idle, TypeOK, CtlRecords
    <3>2. CASE ReadForGate
      BY <3>2 DEF ReadForGate, TypeOK, CtlRecords
    <3>3. CASE ~ReadForGate
      BY <1>4, <3>1, <3>3
         DEF CtlStep, ArmTicket, ArmGateForResponse, DropGate, DropTicket, CompleteGate
    <3>q. QED
      BY <3>2, <3>3
  <2>q. QED
    BY <2>1
<1>5. CASE CheckCompletion
  <2>1. ctl'.gen = probe.gen /\ UNCHANGED probe
    BY <1>5 DEF CheckCompletion, Idle
  <2>2. ticket.final /\ ticket.gen = probe.gen
    BY <1>5 DEF CheckCompletion, FinalRestoreApplied, TicketMatches, SameAttempt
  <2>q. QED
    BY <2>1, <2>2 DEF RestoredIn
<1>6. CASE CtlBegin /\ ~CheckCompletion
  <2>1. ctl'.pc # "complete" \/ UNCHANGED ctl
    <3>1. ASSUME NEW rev, ReceiveDelivery(rev) PROVE ctl'.pc = "arm"
      BY <3>1 DEF ReceiveDelivery, Idle
    <3>2. ASSUME NEW gen, Authorize(gen) PROVE ctl'.pc \in {"idle", "readGate"}
      BY <3>2 DEF Authorize, Idle
    <3>3. Terminate => ctl'.pc = "dropGate"
      BY DEF Terminate, Idle
    <3>q. QED
      BY <1>6, <3>1, <3>2, <3>3
         DEF CtlBegin, RearmByLifetime, DropCandidate, CommitAuthority
  <2>2. UNCHANGED probe \/ probe'.stage \in {"Authorized", "Terminal", "Pending"}
    <3>1. CASE RearmByLifetime
      BY <3>1, ProbeFields DEF RearmByLifetime
    <3>2. CASE Terminate \/ \E gen \in 1..MaxGen : Authorize(gen)
      BY <3>2 DEF Terminate, Authorize, TypeOK, ProbeRecords
    <3>q. QED
      BY <1>6, <3>1, <3>2 DEF CtlBegin, ReceiveDelivery, DropCandidate, CommitAuthority
  <2>q. QED
    BY <2>1, <2>2
<1>7. CASE ArmProbe \/ LosePeer \/ ResetLostProbe \/ Elapse
  <2>1. UNCHANGED ctl
    BY <1>7 DEF ArmProbe, LosePeer, ResetLostProbe, Elapse
  <2>2. UNCHANGED probe \/ probe'.stage \in {"Idle", "Pending"}
    <3>1. CASE ArmProbe
      BY <3>1 DEF ArmProbe, NoProbe
    <3>2. CASE LosePeer \/ ResetLostProbe \/ Elapse
      BY <3>2, ProbeFields DEF LosePeer, ResetLostProbe, Elapse
    <3>q. QED
      BY <1>7, <3>1, <3>2
  <2>q. QED
    BY <2>1, <2>2
<1>q. QED
  BY <1>1, <1>2, <1>3, <1>4, <1>5, <1>6, <1>7 DEF Next

\* Every step keeps every copy on record.
LEMMA NextCopyRecorded ==
  ASSUME TypeOK, Ownership, CopyRecorded, Next
  PROVE  CopyRecorded'
<1>1. CASE MainStep
  BY <1>1, MainCopyRecorded
<1>2. CASE ~MainStep
  <2>1. /\ UNCHANGED main \/ main'.pc = "read"
        /\ history'.objects = history.objects
    BY <1>2, OtherSteps DEF TypeOK, MainRecords
  <2>2. ticket'.final => RestoredIn(ticket'.gen, ticket'.pgd)
    <3>1. CASE ArmTicket
      <4>1. \/ ticket' = ticket \/ ~ticket'.final
            \/ /\ ticket'.gen = ctl.gen /\ ticket'.pgd = gate.pgd
               /\ gate.pgd # 0 /\ gate.gen = ctl.gen
        BY <3>1 DEF ArmTicket, NoTicket, GateFinalForDelivery
      <4>q. QED
        BY <4>1 DEF CopyRecorded
    <3>2. CASE ticket' = NoTicket
      BY <3>2 DEF NoTicket
    <3>3. CASE SameTicket
      BY <3>3 DEF SameTicket, CopyRecorded
    <3>q. QED
      BY <1>2, <3>1, <3>2, <3>3, OtherSteps
  <2>3. main'.pc = "store" => native'.pgd # 0
    <3>1. UNCHANGED native.pgd \/ main.pc = "native"
      BY <1>2 DEF Next, NativeEvent, NewPlayerGameData, NewManager, RetireManager,
         RegisterWorld, UnloadWorld, HandOff, GuestCandidate, InNative, CommitStep,
         Reconcile, RearmGate, ClearMovedTicket, CtlStep, ArmTicket, ReadForGate,
         ArmGateForResponse, DropGate, DropTicket, CompleteAdmission, CompleteGate,
         CtlBegin, ReceiveDelivery, Authorize, Terminate, RearmByLifetime,
         CheckCompletion, DropCandidate, CommitAuthority, ArmProbe, LosePeer,
         ResetLostProbe, Elapse
    <3>q. QED
      BY <2>1, <3>1 DEF CopyRecorded
  <2>q. QED
    BY <1>2, <2>1, <2>2, <2>3, OtherGateRecorded, OtherCompletion
       DEF CopyRecorded, CompletedMeansRestored, RestoredIn
<1>q. QED
  BY <1>1, <1>2

-----------------------------------------------------------------------------
(* A window ends one way, and an attempt commits one final copy. *)

\* What the other threads do to the probe: nothing that closes its window, and
\* no attempt gets the nonce of an earlier one.
LEMMA OtherProbe ==
  ASSUME TypeOK, FinalOnce, Next, ~MainStep
  PROVE  /\ probe'.expired => probe.expired
         /\ probe'.finished => probe.finished
         /\ \/ /\ probe'.nonce = probe.nonce /\ probe'.finished = probe.finished
               /\ probe'.win = probe.win \/ main.pc = "native"
               /\ probe'.stage # "Idle" => probe.stage # "Idle"
               /\ history'.nonces = history.nonces
            \/ probe'.nonce = history.nonces + 1 /\ history'.nonces = history.nonces + 1
            \/ probe' = NoProbe /\ history'.nonces = history.nonces
         /\ ctl'.pc = "complete" => ctl'.stage # "Idle"
<1> USE DEF FreshNonce
<1>h. history' = [history EXCEPT !.nonces = @ + 1] => history'.nonces = history.nonces + 1
  BY DEF TypeOK, HistoryRecords
<1>i. Idle.pc = "idle"
  BY DEF Idle
<1>o. ctl.pc = "complete" => ctl.stage # "Idle"
  BY DEF FinalOnce
<1>1. CASE NativeEvent /\ ~HandOff
  <2>1. UNCHANGED <<probe, ctl, history>>
    BY <1>1 DEF NativeEvent, NewPlayerGameData, NewManager, RetireManager,
       RegisterWorld, UnloadWorld, GuestCandidate
  <2>q. QED
    BY <1>o, <2>1
<1>2. CASE HandOff
  <2>1. /\ probe'.nonce = probe.nonce /\ probe'.finished = probe.finished
        /\ probe'.expired = probe.expired
    BY <1>2 DEF HandOff, TypeOK, ProbeRecords
  <2>2. /\ history'.nonces = history.nonces /\ UNCHANGED ctl /\ main.pc = "native"
        /\ probe.stage = "Authorized"
    BY <1>2 DEF HandOff, InNative, TypeOK, HistoryRecords
  <2>q. QED
    BY <1>o, <2>1, <2>2
<1>3. CASE CommitStep
  <2>1. UNCHANGED <<probe, ctl, history>>
    BY <1>3 DEF CommitStep, Reconcile, RearmGate, ClearMovedTicket
  <2>q. QED
    BY <1>o, <2>1
<1>4. CASE CompleteAdmission
  <2>1. UNCHANGED history /\ ctl'.pc \in {"idle", "completeGate"}
    BY <1>4 DEF CompleteAdmission, Idle, TypeOK, CtlRecords
  <2>2. \/ UNCHANGED probe
        \/ /\ probe' = [probe EXCEPT !.stage = "Completed"]
           /\ ctl.pc = "complete" /\ probe.stage = ctl.stage
    BY <1>4 DEF CompleteAdmission
  <2>3. probe' = [probe EXCEPT !.stage = "Completed"] =>
          /\ probe'.nonce = probe.nonce /\ probe'.finished = probe.finished
          /\ probe'.expired = probe.expired /\ probe'.win = probe.win
    BY DEF TypeOK, ProbeRecords
  <2>q. QED
    BY <1>o, <2>1, <2>2, <2>3
<1>5. CASE CtlStep /\ ~CompleteAdmission
  <2>1. UNCHANGED <<probe, history>>
    BY <1>5 DEF CtlStep, ArmTicket, ReadForGate, ArmGateForResponse, DropGate,
       DropTicket, CompleteGate
  <2>2. ctl'.pc # "complete"
    <3>1. [ctl EXCEPT !.pc = "dropTicket"].pc = "dropTicket"
      BY DEF TypeOK, CtlRecords
    <3>2. CASE ReadForGate
      BY <3>2 DEF ReadForGate, TypeOK, CtlRecords
    <3>3. CASE ~ReadForGate
      BY <1>5, <1>i, <3>1, <3>3
         DEF CtlStep, ArmTicket, ArmGateForResponse, DropGate, DropTicket, CompleteGate
    <3>q. QED
      BY <3>2, <3>3
  <2>q. QED
    BY <2>1, <2>2
<1>6. CASE RearmByLifetime
  BY <1>6, <1>h, <1>o, ProbeFields DEF RearmByLifetime
<1>7. CASE CheckCompletion
  <2>1. UNCHANGED <<probe, history>> /\ probe.stage \in {"Authorized", "HandedOff"}
    BY <1>7 DEF CheckCompletion
  <2>2. ctl'.stage = probe.stage
    BY <1>7 DEF CheckCompletion, Idle
  <2>q. QED
    BY <2>1, <2>2
<1>8. ASSUME NEW rev, ReceiveDelivery(rev) PROVE UNCHANGED <<probe, history>> /\ ctl'.pc = "arm"
  BY <1>8 DEF ReceiveDelivery, Idle
<1>9. CASE Terminate \/ \E gen \in 1..MaxGen : Authorize(gen)
  <2>1. UNCHANGED history /\ probe.stage = "Pending"
    BY <1>9 DEF Terminate, Authorize
  <2>2. /\ probe'.nonce = probe.nonce /\ probe'.finished = probe.finished
        /\ probe'.expired = probe.expired /\ probe'.win = probe.win
    BY <1>9 DEF Terminate, Authorize, TypeOK, ProbeRecords
  <2>3. ctl'.pc # "complete"
    <3>1. ASSUME NEW gen, Authorize(gen) PROVE ctl'.pc \in {"idle", "readGate"}
      BY <3>1 DEF Authorize, Idle
    <3>2. Terminate => ctl'.pc = "dropGate"
      BY DEF Terminate, Idle
    <3>q. QED
      BY <1>9, <3>1, <3>2
  <2>q. QED
    BY <2>1, <2>2, <2>3
<1>10. CASE DropCandidate("ctl") \/ CommitAuthority("ctl")
  BY <1>10, <1>o DEF DropCandidate, CommitAuthority
<1>11. CASE ArmProbe
  <2>1. PICK keep \in BOOLEAN :
          probe' = [NoProbe EXCEPT !.stage = "Pending", !.nonce = FreshNonce,
                      !.win = IF keep THEN probe.win ELSE 0,
                      !.expired = keep /\ probe.win # 0 /\ probe.expired,
                      !.finished = keep /\ probe.win # 0 /\ probe.finished]
    BY <1>11 DEF ArmProbe
  <2>2. probe'.nonce = FreshNonce
    BY <2>1 DEF NoProbe
  <2>3. probe'.expired = (keep /\ probe.win # 0 /\ probe.expired)
    BY <2>1 DEF NoProbe
  <2>4. probe'.finished = (keep /\ probe.win # 0 /\ probe.finished)
    BY <2>1 DEF NoProbe
  <2>q. QED
    BY <1>11, <1>h, <1>o, <2>2, <2>3, <2>4 DEF ArmProbe
<1>12. CASE LosePeer \/ ResetLostProbe \/ Elapse
  BY <1>12, <1>h, <1>o, ProbeFields DEF LosePeer, ResetLostProbe, Elapse
<1>q. QED
  BY <1>1, <1>2, <1>3, <1>4, <1>5, <1>6, <1>7, <1>8, <1>9, <1>10, <1>11, <1>12
     DEF Next, CtlBegin

\* The bookkeeping of finals by the other threads.
LEMMA OtherWindow ==
  ASSUME TypeOK, Ownership, WindowOpen, FinalOnce, Next, ~MainStep
  PROVE  WindowOpen' /\ FinalOnce'
<1>1. \/ UNCHANGED main
      \/ /\ main.pc = "commit" /\ main'.pc = "read" /\ main'.post = main.post
         /\ main'.seeded = main.seeded /\ main'.late = main.late
  BY OtherSteps DEF TypeOK, MainRecords
<1>2. history'.finals = history.finals
  BY OtherSteps
<1>3. WindowOpen'
  BY <1>1, OtherProbe DEF WindowOpen, TryPCs
<1>n. /\ history.nonces \in Nat /\ probe.nonce \in Nat /\ main.nonce \in Nat
  BY BoundsAssumption DEF TypeOK, HistoryRecords, ProbeRecords, MainRecords, Nonces
<1>4. FinalOnce'
  <2>1. CASE /\ probe'.nonce = probe.nonce /\ probe'.finished = probe.finished
             /\ probe'.win = probe.win \/ main.pc = "native"
             /\ probe'.stage # "Idle" => probe.stage # "Idle"
             /\ history'.nonces = history.nonces
    BY <1>1, <1>2, <2>1, OtherProbe DEF FinalOnce, TryPCs
  <2>2. CASE probe'.nonce = history.nonces + 1 /\ history'.nonces = history.nonces + 1
    BY <1>1, <1>2, <1>n, <2>2, OtherProbe DEF FinalOnce, TryPCs
  <2>3. CASE probe' = NoProbe /\ history'.nonces = history.nonces
    BY <1>1, <1>2, <1>n, <2>3, OtherProbe, ProbeFields DEF FinalOnce, TryPCs
  <2>q. QED
    BY <2>1, <2>2, <2>3, OtherProbe
<1>q. QED
  BY <1>3, <1>4

\* A step of the game thread keeps the window open under its own pass, and
\* finishes the attempt it made the final copy for.
LEMMA MainWindow ==
  ASSUME TypeOK, WindowOpen, FinalOnce, MainStep
  PROVE  WindowOpen' /\ FinalOnce'
<1>f. /\ \A pc : main' = [main EXCEPT !.pc = pc] =>
           /\ main'.pc = pc /\ main'.post = main.post /\ main'.seeded = main.seeded
           /\ main'.late = main.late /\ main'.nonce = main.nonce /\ main'.win = main.win
      /\ Return =>
           /\ main'.pc = IF main.post THEN "expire" ELSE "native"
           /\ main'.post = main.post /\ main'.seeded = main.seeded /\ main'.late = FALSE
      /\ main' = FrameStart =>
           main'.pc = "top" /\ main'.post = FALSE /\ main'.seeded = FALSE /\ main'.late = FALSE
  BY MainFields DEF TypeOK
<1>n. /\ history.nonces \in Nat /\ probe.nonce \in Nat /\ main.nonce \in Nat
  BY BoundsAssumption DEF TypeOK, HistoryRecords, ProbeRecords, MainRecords, Nonces
<1> USE DEF WindowOpen, FinalOnce, TryPCs
<1>1. CASE BeginFrame \/ PublishCandidate \/ SkipCommit \/ DropCandidate("main")
           \/ CommitAuthority("main")
  BY <1>f, <1>1 DEF BeginFrame, PublishCandidate, SkipCommit, DropCandidate,
                    CommitAuthority, MayCommit, MainGoto
<1>2. CASE BeginCapture \/ StoreCapture
  BY <1>f, <1>2 DEF BeginCapture, StoreCapture, MainGoto
<1>3. CASE EndNative
  <2>1. \/ main'.pc = "read" /\ main'.post /\ main'.seeded = main.seeded /\ main'.late = main.late
        \/ main' = FrameStart
    BY <1>3 DEF EndNative, TypeOK, MainRecords
  <2>q. QED
    BY <1>f, <1>3, <2>1 DEF EndNative, InNative
<1>4. CASE ReadProbe
  <2>1. UNCHANGED <<probe, history, ctl>> /\ main.pc = "read"
    BY <1>4 DEF ReadProbe
  <2>2. WindowOpen'
    BY <1>4, <2>1, ReadProbeMoves DEF WindowClosed
  <2>3. CASE main'.pc = "check"
    <3>1. /\ main'.nonce = probe.nonce /\ main'.win = probe.win /\ IsAuthorized(probe)
          /\ WindowClosed(probe) => main.post /\ main.seeded
      BY <1>4, <2>3, ReadProbeMoves
    <3>2. probe.nonce # 0
      BY <3>1 DEF IsAuthorized, AuthorizedStages
    <3>3. probe.nonce \notin history.finals
      BY <2>1, <3>1 DEF WindowClosed
    <3>q. QED
      BY <1>n, <2>1, <2>2, <2>3, <3>1, <3>2, <3>3
  <2>4. CASE main'.pc # "check"
    <3>1. main'.pc \in {"expire", "preExpire", "native"}
      BY <1>4, <2>4, ReadProbeMoves
    <3>q. QED
      BY <2>1, <2>2, <3>1
  <2>q. QED
    BY <2>3, <2>4
<1>5. CASE CheckTicket
  <2> DEFINE target == IF main.post THEN FinalTarget(main.gen) ELSE Target(main.gen)
  <2>1. UNCHANGED <<probe, history, ctl>> /\ main.pc = "check"
    BY <1>5 DEF CheckTicket
  <2>2. \A pc \in {"claim", "mismatch"} :
          main' = [main EXCEPT !.pc = pc, !.mgr = ticket.mgr,
                               !.rev = ticket.rev, !.pgd = target]
            => /\ main'.pc = pc /\ main'.post = main.post /\ main'.seeded = main.seeded
               /\ main'.late = main.late /\ main'.nonce = main.nonce /\ main'.win = main.win
    BY DEF TypeOK, MainRecords
  <2>3. \/ Return
        \/ /\ main'.pc \in {"claim", "mismatch"}
           /\ main'.post = main.post /\ main'.seeded = main.seeded
           /\ main'.late = main.late /\ main'.nonce = main.nonce /\ main'.win = main.win
    BY <1>5, <2>2 DEF CheckTicket
  <2>q. QED
    BY <1>f, <2>1, <2>3
<1>6. CASE ClaimTicket
  <2>1. UNCHANGED <<probe, history, ctl>> /\ main.pc = "claim"
    BY <1>6 DEF ClaimTicket
  <2>2. main' = [main EXCEPT !.pc = "codec", !.blob = payload] =>
          /\ main'.pc = "codec" /\ main'.post = main.post /\ main'.seeded = main.seeded
          /\ main'.late = main.late /\ main'.nonce = main.nonce /\ main'.win = main.win
    BY DEF TypeOK, MainRecords
  <2>3. Return \/ main' = [main EXCEPT !.pc = "codec", !.blob = payload]
    BY <1>6 DEF ClaimTicket
  <2>q. QED
    BY <1>f, <2>1, <2>2, <2>3
<1>7. CASE RunCodec
  <2>1. UNCHANGED <<probe, ctl>> /\ main.pc = "codec"
    BY <1>7 DEF RunCodec
  <2>2. history'.nonces = history.nonces /\ history'.finals = history.finals
    BY <1>7 DEF RunCodec, TypeOK, HistoryRecords
  <2>3. main'.pc \in {"recheck", "settle", "fail"} /\ main' = [main EXCEPT !.pc = main'.pc]
    BY <1>f, <1>7 DEF RunCodec, MainGoto
  <2>q. QED
    BY <1>f, <2>1, <2>2, <2>3
<1>8. CASE RecheckEffects
  BY <1>f, <1>8 DEF RecheckEffects, MainGoto
<1>9. CASE SettleTicket
  <2>1. UNCHANGED <<probe, history, ctl>> /\ main.pc = "settle"
    BY <1>9 DEF SettleTicket
  <2>2. Return \/ main' = [main EXCEPT !.pc = "mark"]
    BY <1>9 DEF SettleTicket, MainGoto
  <2>q. QED
    BY <1>f, <2>1, <2>2
<1>10. CASE RaiseGate
  <2>1. UNCHANGED <<probe, ctl>> /\ main.pc = "mark" /\ history'.nonces = history.nonces
    BY <1>10 DEF RaiseGate, TypeOK, HistoryRecords
  <2>2. CASE main.post
    <3>1. main' = [main EXCEPT !.pc = "finish"]
      BY <1>10, <2>2 DEF RaiseGate, MainGoto
    <3>2. history'.finals = history.finals \cup {main.nonce}
      BY <1>10, <2>2 DEF RaiseGate, TypeOK, HistoryRecords
    <3>q. QED
      BY <1>f, <1>n, <2>1, <3>1, <3>2
  <2>3. CASE ~main.post
    <3>1. main' = [FrameStart EXCEPT !.pc = "native", !.seeded = TRUE] /\ UNCHANGED history
      BY <1>10, <2>3 DEF RaiseGate
    <3>2. main'.pc = "native" /\ main'.late = FALSE
      BY <3>1 DEF FrameStart
    <3>q. QED
      BY <2>1, <3>1, <3>2
  <2>q. QED
    BY <2>2, <2>3
<1>11. CASE FinishWindow
  <2>1. UNCHANGED <<ctl, history>> /\ main.pc = "finish" /\ Return
    BY <1>11 DEF FinishWindow
  <2>2. probe' = [probe EXCEPT !.finished = TRUE]
          => /\ probe'.finished /\ probe'.expired = probe.expired
             /\ probe'.nonce = probe.nonce /\ probe'.stage = probe.stage
    BY DEF TypeOK, ProbeRecords
  <2>3. \/ /\ probe.nonce = main.nonce /\ probe.win = main.win
           /\ probe' = [probe EXCEPT !.finished = TRUE]
        \/ probe.nonce # main.nonce /\ UNCHANGED probe
    BY <1>11, <2>1 DEF FinishWindow
  <2>q. QED
    BY <1>f, <2>1, <2>2, <2>3
<1>12. CASE FailTicket
  <2>1. UNCHANGED <<probe, history, ctl>> /\ main.pc \in TryPCs /\ Return
    BY <1>12 DEF FailTicket
  <2>q. QED
    BY <1>f, <2>1
<1>13. CASE ExpireWindow
  <2>1. /\ UNCHANGED <<history, ctl>> /\ main.pc \in {"preExpire", "expire"}
        /\ main' = [main EXCEPT !.pc = IF main.pc = "expire" THEN "capture" ELSE "native"]
    BY <1>13 DEF ExpireWindow, MainGoto
  <2>2. probe' = [probe EXCEPT !.expired = TRUE]
          => /\ probe'.finished = probe.finished /\ probe'.expired
             /\ probe'.nonce = probe.nonce /\ probe'.stage = probe.stage
    BY DEF TypeOK, ProbeRecords
  <2>3. \/ UNCHANGED probe
        \/ ~probe.finished /\ probe' = [probe EXCEPT !.expired = TRUE]
    BY <1>13 DEF ExpireWindow, ExpiryDue
  <2>q. QED
    BY <1>f, <2>1, <2>2, <2>3
<1>q. QED
  BY <1>1, <1>2, <1>3, <1>4, <1>5, <1>6, <1>7, <1>8, <1>9, <1>10, <1>11, <1>12, <1>13
     DEF MainStep, TryApply

-----------------------------------------------------------------------------
(* The invariant, and what follows from it. *)

\* Only a claim takes the game thread from "claim" to the codec.
LEMMA ClaimOnly ==
  ASSUME TypeOK, [Next]_vars, main.pc = "claim", main'.pc = "codec"
  PROVE  ClaimTicket
<1>1. Next
  BY DEF vars
<1>2. CASE MainStep
  BY <1>2 DEF MainStep, BeginFrame, PublishCandidate, SkipCommit, DropCandidate,
     CommitAuthority, MayCommit, ExpireWindow, BeginCapture, StoreCapture, EndNative,
     InNative, TryApply, ReadProbe, CheckTicket, RunCodec, RecheckEffects,
     SettleTicket, RaiseGate, FinishWindow, FailTicket
<1>3. CASE NativeEvent \/ CtlStep
  BY <1>3 DEF NativeEvent, NewPlayerGameData, NewManager, RetireManager,
     RegisterWorld, UnloadWorld, HandOff, GuestCandidate, CtlStep, ArmTicket,
     ReadForGate, ArmGateForResponse, DropGate, DropTicket, CompleteAdmission,
     CompleteGate
<1>4. CASE CommitStep
  <2>1. UNCHANGED main \/ main' = [main EXCEPT !.pc = "read"]
    BY <1>4 DEF CommitStep, Reconcile, RearmGate, ClearMovedTicket, EndCommit, CommitGoto
  <2>q. QED
    BY <2>1, MainFields DEF TypeOK
<1>5. CASE CtlBegin
  BY <1>5 DEF CtlBegin, ReceiveDelivery, Authorize, Terminate, RearmByLifetime,
     CheckCompletion, DropCandidate, CommitAuthority
<1>6. CASE ArmProbe \/ LosePeer \/ ResetLostProbe \/ Elapse
  BY <1>6 DEF ArmProbe, LosePeer, ResetLostProbe, Elapse
<1>q. QED
  BY <1>1, <1>2, <1>3, <1>4, <1>5, <1>6 DEF Next

\* Only a capture makes the hot snapshot a raw one.
LEMMA HotSteps ==
  ASSUME IInv, [Next]_vars, hot' = "raw", hot' # hot
  PROVE  StoreCapture
<1>1. Next
  BY DEF vars
<1>2. CASE MainStep
  BY <1>2 DEF MainStep, BeginFrame, PublishCandidate, SkipCommit, DropCandidate,
     CommitAuthority, ExpireWindow, BeginCapture, EndNative, TryApply, ReadProbe,
     CheckTicket, ClaimTicket, RunCodec, RecheckEffects, SettleTicket, RaiseGate,
     FinishWindow, FailTicket
<1>3. CASE NativeEvent \/ CtlStep
  BY <1>3 DEF NativeEvent, NewPlayerGameData, NewManager, RetireManager,
     RegisterWorld, UnloadWorld, HandOff, GuestCandidate, CtlStep, ArmTicket,
     ReadForGate, ArmGateForResponse, DropGate, DropTicket, CompleteAdmission,
     CompleteGate
<1>4. CASE CommitStep
  BY <1>4 DEF CommitStep, Reconcile, RearmGate, ClearMovedTicket
<1>5. CASE CtlBegin
  BY <1>5 DEF CtlBegin, ReceiveDelivery, Authorize, Terminate, RearmByLifetime,
     CheckCompletion, DropCandidate, CommitAuthority
<1>6. CASE ArmProbe \/ LosePeer \/ ResetLostProbe \/ Elapse
  BY <1>6 DEF ArmProbe, LosePeer, ResetLostProbe, Elapse
<1>q. QED
  BY <1>1, <1>2, <1>3, <1>4, <1>5, <1>6 DEF Next

\* The initial state satisfies the invariant.
LEMMA InitIInv == Init => IInv
<1> SUFFICES ASSUME Init PROVE IInv
  OBVIOUS
<1>1. TypeOK
  BY InitTypeOK
<1>2. Ownership
  BY DEF Init, Ownership, ReplayOwnsTicket, PayloadBelongsToTicket, ClaimIsBound,
         InReplay, NoTicket, FrameStart, NoCommit, TryPCs
<1>3. SeedRecorded
  BY DEF Init, SeedRecorded, FinalAfterSeed, InReplay, NoTicket, FrameStart
<1>4. CopyRecorded
  BY DEF Init, CopyRecorded, CompletedMeansRestored, NoTicket, NoGate, NoProbe,
         FrameStart, Idle
<1>5. WindowOpen
  BY DEF Init, WindowOpen, NoProbe, FrameStart, TryPCs
<1>6. FinalOnce
  BY DEF Init, FinalOnce, NoProbe, FrameStart, Idle, TryPCs
<1>q. QED
  BY <1>1, <1>2, <1>3, <1>4, <1>5, <1>6 DEF IInv

\* Every step keeps the invariant.
LEMMA NextIInv == ASSUME IInv, [Next]_vars PROVE IInv'
<1>1. CASE Next
  <2>1. TypeOK' /\ Ownership' /\ SeedRecorded' /\ CopyRecorded'
    BY <1>1, NextTypeOK, NextOwnership, NextSeedRecorded, NextCopyRecorded DEF IInv
  <2>2. WindowOpen' /\ FinalOnce'
    BY <1>1, OtherWindow, MainWindow DEF IInv
  <2>q. QED
    BY <2>1, <2>2 DEF IInv
<1>2. CASE UNCHANGED vars
  <2> USE <1>2 DEF IInv, vars
  <2>1. TypeOK'
    BY StutterTypeOK
  <2>2. Ownership'
    BY DEF Ownership, ReplayOwnsTicket, PayloadBelongsToTicket, ClaimIsBound,
           InReplay, SameIdentity
  <2>3. SeedRecorded'
    BY DEF SeedRecorded, FinalAfterSeed, InReplay
  <2>4. CopyRecorded'
    BY DEF CopyRecorded, CompletedMeansRestored, RestoredIn
  <2>5. WindowOpen' /\ FinalOnce'
    BY DEF WindowOpen, FinalOnce
  <2>q. QED
    BY <2>1, <2>2, <2>3, <2>4, <2>5
<1>q. QED
  BY <1>1, <1>2

\* The invariant holds in every reachable state.
THEOREM Invariance == Spec => []IInv
<1>1. IInv /\ [Next]_vars => IInv'
  BY NextIInv
<1>q. QED
  BY <1>1, InitIInv, PTL DEF Spec

\* A replay in progress is the game thread's own, and no ticket is left marked
\* as replaying.
THEOREM ReplayOwned == Spec => []ReplayOwnsTicket
<1>1. IInv => ReplayOwnsTicket
  BY DEF IInv, Ownership
<1>q. QED
  BY <1>1, Invariance, PTL

\* A ticket that may still be replayed has its own payload beside it.
THEOREM PayloadOwned == Spec => []PayloadBelongsToTicket
<1>1. IInv => PayloadBelongsToTicket
  BY DEF IInv, Ownership
<1>q. QED
  BY <1>1, Invariance, PTL

\* A final replay follows a seed of the same snapshot in the same attempt.
THEOREM SeedComesFirst == Spec => []FinalAfterSeed
<1>1. IInv => FinalAfterSeed
  BY DEF IInv, SeedRecorded
<1>q. QED
  BY <1>1, Invariance, PTL

\* A gate that unfreezes the capture of a PGD stands for a final replay that
\* ran on that PGD (MarkBhrcFullPgdRestoreGateStage).
THEOREM GateRestored == Spec => []GateMeansRestored
<1>1. IInv => GateMeansRestored
  BY DEF IInv, CopyRecorded, GateMeansRestored, RestoredIn, IsRestored
<1>q. QED
  BY <1>1, Invariance, PTL

\* A final ticket names a PGD the final replay wrote, also when it was installed
\* as final from the gate of an earlier attempt (ArmBhrcFullPgdRestoreTicket).
THEOREM FinalTicketRestored == Spec => []FinalTicketMeansRestored
<1>1. IInv => FinalTicketMeansRestored
  BY DEF IInv, CopyRecorded, FinalTicketMeansRestored, RestoredIn, IsRestored
<1>q. QED
  BY <1>1, Invariance, PTL

\* Admission is completed only under an authority generation whose snapshot was
\* finally replayed (CompleteBhrcClientAdmissionIfWorldReady).
THEOREM CompletedRestored == Spec => []CompletedMeansRestored
<1>1. IInv => CompletedMeansRestored
  BY DEF IInv, CopyRecorded
<1>q. QED
  BY <1>1, Invariance, PTL

\* An attempt commits at most one final replay.
THEOREM OneFinal == Spec => OneFinalPerAttempt
<1>1. ASSUME IInv, [Next]_vars
      PROVE  [main.pc = "mark" /\ main'.pc = "finish"
                => main.nonce \notin history.finals]_vars
  BY <1>1 DEF IInv, FinalOnce
<1>q. QED
  BY <1>1, Invariance, PTL DEF Spec, OneFinalPerAttempt

\* A replay that starts after the window's 60 s only drains a seed of its frame.
THEOREM LateDrains == Spec => LatePassOnlyDrainsSeed
<1>1. ASSUME IInv, IInv', [Next]_vars
      PROVE  [main.pc = "claim" /\ main'.pc = "codec" /\ main.win \in elapsed
                => main.post /\ main.seeded
                   /\ <<main.nonce, main.rev>> \in history.seeds]_vars
  <2> SUFFICES ASSUME main.pc = "claim", main'.pc = "codec", main.win \in elapsed
               PROVE  main.post /\ main.seeded
                      /\ <<main.nonce, main.rev>> \in history.seeds
    OBVIOUS
  <2>1. TypeOK
    BY <1>1 DEF IInv
  <2>2. ClaimTicket
    BY <1>1, <2>1, ClaimOnly
  <2>q. QED
    <3>1. ~Return
      BY <2>1, MainFields DEF TypeOK
    <3>2. /\ main.late \/ ~SnapshotElapsed(main.win)
          /\ SameIdentity(ticket) /\ ~ticket.final /\ ticket.applied = main.post
      BY <2>2, <3>1 DEF ClaimTicket, ForThisPass
    <3>3. main.post /\ main.seeded
      BY <1>1, <3>2 DEF SnapshotElapsed, IInv, WindowOpen
    <3>q. QED
      BY <1>1, <3>2, <3>3 DEF IInv, SeedRecorded, SameIdentity
<1>q. QED
  BY <1>1, Invariance, PTL DEF Spec, LatePassOnlyDrainsSeed

\* While its window is open, a returning member publishes its own PGD only
\* after the final replay has written that very allocation.
THEOREM PublishesRestored == Spec => PublishesOnlyRestored
<1>1. ASSUME IInv, [Next]_vars
      PROVE  [main.pc = "store" /\ hot' = "raw" /\ hot' # hot
                => ~ (/\ IsAuthorized(probe) /\ probe.ready
                      /\ probe.gen = authority.gen
                      /\ ~probe.expired /\ ~probe.finished)]_vars
  <2> SUFFICES ASSUME main.pc = "store", hot' = "raw", hot' # hot,
                      IsAuthorized(probe), probe.ready, probe.gen = authority.gen,
                      ~probe.expired, ~probe.finished
               PROVE  FALSE
    BY <1>1
  <2>1. StoreCapture
    BY <1>1, HotSteps
  <2>2. FinalCopyLive
    BY <2>1 DEF StoreCapture, RestorePending
  <2>3. native.pgd # 0 /\ gate.pgd = native.pgd
    BY <1>1, <2>2 DEF FinalCopyLive, IInv, CopyRecorded
  <2>4. IsRestored(native.pgd)
    BY <1>1, <2>3 DEF IInv, CopyRecorded, RestoredIn, IsRestored
  <2>q. QED
    BY <2>1, <2>4 DEF StoreCapture
<1>q. QED
  BY <1>1, Invariance, PTL DEF Spec, PublishesOnlyRestored

-----------------------------------------------------------------------------
(* A restore window ends one way, and a final copy is never declared failed. *)
(* The second half is about a game thread that is about to declare a version *)
(* mismatch while its ticket is withdrawn and delivered again: the delivery  *)
(* must not install it as already final.  It would if the gate were final    *)
(* and LIVE, that is, named the PGD and the registration that are there now; *)
(* so no ticket that is still to be replayed may stand beside a live gate of *)
(* its own generation.                                                       *)

\* The gate names the native objects of now, and no commit is about to retire
\* it.
GateLive ==
    /\ gate.pgd # 0 /\ gate.reg # 0
    /\ gate.pgd = native.pgd /\ gate.reg = LiveReg /\ gate.mgr = native.mgr
    /\ commit.pc = "reconcile" =>
         commit.gen = gate.gen /\ commit.mgr = gate.mgr

\* No record names an object that does not exist yet.
Reached ==
    /\ gate.pgd <= native.pgd /\ ticket.pgd <= native.pgd /\ main.pgd <= native.pgd
    /\ gate.reg <= world.reg
    /\ native.mgr <= native.made /\ gate.mgr <= native.made
    /\ commit.mgr <= native.made /\ ctl.mgr <= native.made
    /\ candidate.gen # 0 => candidate.mgr # 0

\* A gate that names a PGD is final and bound, and a live one belongs to the
\* authority of now.
GateBound ==
    /\ authority.mgr \in {0, native.mgr}
    /\ commit.pc = "reconcile" /\ authority.mgr # 0 =>
         authority.gen = commit.gen /\ authority.mgr = commit.mgr
    /\ gate.pgd # 0 => gate.valid /\ gate.stage >= FinalApplied /\ gate.mgr # 0
    /\ GateLive => authority.gen = gate.gen /\ authority.mgr = gate.mgr
    /\ main.post /\ main.pc \in (TryPCs \ {"check"}) \cup {"mark"} => authority.mgr # 0

\* What the control thread read for its delivery is still true.
ReadNow ==
    /\ ctl.pgd = native.pgd /\ ctl.reg = LiveReg
    /\ ctl.mgr = IF authority.gen = ctl.gen THEN authority.mgr ELSE 0

\* A delivery for the live attempt finds a live gate of its generation final:
\* the gate was so when the control thread read the objects, or the final pass
\* that raised it since has kept them as they were.
DeliveryInv ==
    ctl.pc = "arm" =>
      /\ ctl.nonce \in 1..history.nonces
      /\ ctl.nonce = probe.nonce /\ ctl.nonce # main.nonce
           /\ main.post /\ main.pc \in TryPCs \cup {"mark"} => ReadNow
      /\ ctl.nonce = probe.nonce /\ ctl.nonce \notin history.finals
           /\ GateLive /\ gate.gen = ctl.gen => GateFinalForDelivery

\* No delivery of this attempt will be installed as final.
StillOpen(nonce, gen) ==
    /\ ~(GateLive /\ gate.gen = gen)
    /\ ctl.pc = "arm" /\ ctl.nonce = nonce /\ ctl.gen = gen
         => ~GateFinalForDelivery

\* A ticket that is to be replayed is not final and will not become so by a
\* delivery, nor will the one that replaces it under the game thread.
OpenTicket ==
    /\ ticket.applying => ~ticket.final /\ ~ticket.failed
    /\ ~(ticket.final /\ ticket.failed)
    /\ ticket.valid /\ ~ticket.final /\ ticket.nonce \notin history.finals
         => StillOpen(ticket.nonce, ticket.gen)
    /\ main.pc \in {"claim", "mismatch"} =>
         /\ StillOpen(main.nonce, main.gen)
         /\ ticket.valid /\ ticket.nonce = main.nonce /\ ticket.gen = main.gen
              => ~ticket.final

OneInv == Reached /\ GateBound /\ DeliveryInv /\ OpenTicket

\* A final pass raises the gate for its own final ticket.
Marks == /\ RaiseGate /\ main.post
         /\ ticket.final /\ ticket.nonce = main.nonce

\* The steps that may change the gate, a native object, the world, the
\* authority or a commit; all others leave them as they are.
LEMMA SceneSteps ==
  ASSUME Next
  PROVE  \/ NativeEvent
         \/ \E by \in {"main", "ctl"} : CommitAuthority(by)
         \/ Reconcile \/ RearmGate \/ ClearMovedTicket
         \/ RaiseGate \/ ArmGateForResponse \/ DropGate \/ CompleteGate
         \/ UNCHANGED <<gate, native, world, authority, commit>>
<1>1. CASE MainStep
  BY <1>1 DEF MainStep, TryApply, BeginFrame, PublishCandidate, SkipCommit,
     DropCandidate, ReadProbe, CheckTicket, ClaimTicket, RunCodec, RecheckEffects,
     SettleTicket, FinishWindow, FailTicket, ExpireWindow, BeginCapture,
     StoreCapture, EndNative
<1>2. CASE CtlStep
  BY <1>2 DEF CtlStep, ArmTicket, ReadForGate, DropTicket, CompleteAdmission
<1>3. CASE CtlBegin
  BY <1>3 DEF CtlBegin, ReceiveDelivery, Authorize, Terminate, RearmByLifetime,
     CheckCompletion, DropCandidate
<1>4. CASE ArmProbe \/ LosePeer \/ ResetLostProbe \/ Elapse
  BY <1>4 DEF ArmProbe, LosePeer, ResetLostProbe, Elapse
<1>q. QED
  BY <1>1, <1>2, <1>3, <1>4 DEF Next, CommitStep

\* The gate is emptied of its PGD, keeps what it names, or is raised by a final
\* pass for its own ticket.
LEMMA GateSteps ==
  ASSUME TypeOK, Reached, GateBound, Next
  PROVE  \/ /\ gate'.pgd = 0 /\ gate'.mgr <= native.made
            /\ gate'.reg <= world.reg
         \/ /\ gate'.pgd = gate.pgd /\ gate'.reg = gate.reg
            /\ gate'.gen = gate.gen /\ gate'.mgr = gate.mgr
            /\ gate'.valid = gate.valid /\ gate'.stage >= gate.stage
            /\ commit.pc = "reconcile" /\ commit'.pc # "reconcile" /\ gate.pgd # 0 =>
                 commit.gen = gate.gen /\ commit.mgr = gate.mgr
         \/ /\ Marks /\ gate.pgd = 0
            /\ gate'.pgd = ticket.pgd /\ gate'.reg = LiveReg
            /\ gate'.gen = main.gen /\ gate.gen = main.gen
            /\ gate'.valid /\ gate'.stage >= FinalApplied
            /\ gate'.mgr = authority.mgr /\ authority.gen = main.gen
<1> USE DEF TypeOK, GateRecords
<1>t. /\ gate.pgd \in Nat /\ gate.reg \in Nat /\ gate.mgr \in Nat /\ gate.stage \in Nat
      /\ world.reg \in Nat /\ native.made \in Nat /\ native.mgr \in Nat
      /\ authority.mgr \in Nat /\ commit.mgr \in Nat /\ ctl.mgr \in Nat
      /\ LiveReg \in Nat /\ LiveReg <= world.reg
  BY BoundsAssumption
     DEF WorldRecords, NativeRecords, AuthorityRecords, CommitRecords, CtlRecords,
         Pgds, Regs, Mgrs, LiveReg, NoGateStage, GateCompleted
<1>b. /\ authority.mgr \in {0, native.mgr} /\ native.mgr <= native.made
      /\ commit.mgr <= native.made /\ ctl.mgr <= native.made
      /\ gate.mgr <= native.made /\ gate.reg <= world.reg
      /\ gate.pgd # 0 => gate.valid /\ gate.stage >= FinalApplied /\ gate.mgr # 0
  BY DEF Reached, GateBound
<1>l. authority.mgr <= native.made
  BY <1>t, <1>b
<1>n. gate' = NoGate => gate'.pgd = 0 /\ gate'.mgr = 0 /\ gate'.reg = 0
  BY DEF NoGate
<1>k. ASSUME gate' = gate
      PROVE  /\ gate'.pgd = gate.pgd /\ gate'.reg = gate.reg
             /\ gate'.gen = gate.gen /\ gate'.mgr = gate.mgr
             /\ gate'.valid = gate.valid /\ gate'.stage >= gate.stage
  BY <1>k, <1>t
<1>a. ASSUME NEW gen, NEW auth \in AuthorityRecords, NEW pgd, NEW reg,
             ArmGate(gen, auth, pgd, reg), auth.mgr <= native.made
      PROVE  \/ /\ gate'.pgd = 0 /\ gate'.mgr <= native.made
                /\ gate'.reg <= world.reg
             \/ /\ gate'.pgd = gate.pgd /\ gate'.reg = gate.reg
                /\ gate'.gen = gate.gen /\ gate'.mgr = gate.mgr
                /\ gate'.valid = gate.valid /\ gate'.stage >= gate.stage
  <2>t. auth.mgr \in Nat
    BY <1>a, BoundsAssumption DEF AuthorityRecords, Mgrs
  <2>1. CASE gate' = [valid |-> TRUE, gen |-> gen, stage |-> AwaitingSeed,
                      mgr |-> IF auth.gen = gen THEN auth.mgr ELSE 0,
                      pgd |-> 0, reg |-> 0]
    <3>1. gate'.pgd = 0 /\ gate'.reg = 0 /\ gate'.mgr \in {0, auth.mgr}
      BY <2>1
    <3>q. QED
      BY <3>1, <2>t, <1>t, <1>a
  <2>2. ASSUME NEW mgr, mgr \in {gate.mgr, auth.mgr}, gate.mgr # 0 => mgr = gate.mgr,
               gate' = [gate EXCEPT !.mgr = mgr]
        PROVE  \/ /\ gate'.pgd = 0 /\ gate'.mgr <= native.made
                  /\ gate'.reg <= world.reg
               \/ /\ gate'.pgd = gate.pgd /\ gate'.reg = gate.reg
                  /\ gate'.gen = gate.gen /\ gate'.mgr = gate.mgr
                  /\ gate'.valid = gate.valid /\ gate'.stage >= gate.stage
    <3>1. /\ gate'.pgd = gate.pgd /\ gate'.reg = gate.reg /\ gate'.gen = gate.gen
          /\ gate'.mgr = mgr /\ gate'.stage = gate.stage
          /\ gate'.valid = gate.valid
      BY <2>2
    <3>q. QED
      BY <3>1, <2>2, <1>t, <1>b, <1>a
  <2>q. QED
    BY <1>a, <2>1, <2>2 DEF ArmGate
<1>m. ASSUME NEW nonce, NEW gen, NEW stage \in {SeedApplied, FinalApplied, GateCompleted},
             MarkGate(nonce, gen, stage)
      PROVE  \/ /\ gate'.pgd = 0 /\ gate'.mgr <= native.made
                /\ gate'.reg <= world.reg
             \/ /\ gate'.pgd = gate.pgd /\ gate'.reg = gate.reg
                /\ gate'.gen = gate.gen /\ gate'.mgr = gate.mgr
                /\ gate'.valid = gate.valid /\ gate'.stage >= gate.stage
             \/ /\ stage = FinalApplied /\ gate.pgd = 0
                /\ ticket.final /\ ticket.nonce = nonce
                /\ gate'.pgd = ticket.pgd /\ gate'.reg = LiveReg
                /\ gate'.gen = gen /\ gate.gen = gen
                /\ gate'.valid /\ gate'.stage >= FinalApplied
                /\ authority.mgr # 0 =>
                     gate'.mgr = authority.mgr /\ authority.gen = gen
  <2>s. stage \in Nat
    BY DEF SeedApplied, FinalApplied, GateCompleted
  <2>1. CASE gate' = gate
    BY <2>1, <1>k
  <2>2. CASE GateMatches(gate, gen, authority) /\ stage > gate.stage
    <3> DEFINE mgr == IF gate.mgr = 0 THEN authority.mgr ELSE gate.mgr
               pgd == IF stage = FinalApplied THEN RestoredPgd(nonce, gen) ELSE gate.pgd
               reg == IF stage = FinalApplied THEN LiveReg ELSE gate.reg
    <3>1. gate' = [gate EXCEPT !.stage = stage, !.mgr = mgr, !.pgd = pgd, !.reg = reg]
      BY <1>m, <2>2 DEF MarkGate
    <3>2. /\ gate'.pgd = pgd /\ gate'.reg = reg /\ gate'.gen = gate.gen
          /\ gate'.mgr = mgr /\ gate'.stage = stage
          /\ gate'.valid = gate.valid
      <4> HIDE DEF mgr, pgd, reg
      <4>q. QED
        BY <3>1
    <3>3. gate.valid /\ gate.gen = gen /\ (authority.mgr # 0 => authority.gen = gen /\ gate.mgr \in {0, authority.mgr})
      BY <2>2 DEF GateMatches
    <3>4. mgr <= native.made /\ (gate.mgr # 0 => mgr = gate.mgr)
      <4>1. gate.mgr # 0 => mgr = gate.mgr
        OBVIOUS
      <4>2. mgr \in {authority.mgr, gate.mgr}
        OBVIOUS
      <4>q. QED
        BY <4>1, <4>2, <1>l, <1>b
    <3>5. CASE stage # FinalApplied
      <4>1. pgd = gate.pgd /\ reg = gate.reg
        BY <3>5
      <4>2. gate.pgd # 0 => gate.mgr # 0
        BY <1>b
      <4> HIDE DEF mgr, pgd, reg
      <4>q. QED
        BY <4>1, <4>2, <3>2, <3>4, <2>2, <2>s, <1>t, <1>b
    <3>6. CASE stage = FinalApplied
      <4>1. gate.pgd = 0
        BY <3>6, <2>2, <1>b, <1>t DEF FinalApplied
      <4>2. reg = LiveReg
        BY <3>6
      <4>3. pgd = 0 \/ (pgd = ticket.pgd /\ ticket.final /\ ticket.nonce = nonce)
        BY <3>6, <4>1 DEF RestoredPgd, TicketMatches, SameAttempt
      <4>4. authority.mgr # 0 => mgr = authority.mgr
        BY <3>3
      <4> HIDE DEF mgr, pgd, reg
      <4>5. CASE pgd = 0
        BY <4>5, <4>2, <3>2, <3>4, <1>t
      <4>6. CASE pgd = ticket.pgd /\ ticket.final /\ ticket.nonce = nonce
        BY <4>6, <4>1, <4>2, <4>4, <3>2, <3>3, <3>6 DEF FinalApplied
      <4>q. QED
        BY <4>3, <4>5, <4>6
    <3>q. QED
      BY <3>5, <3>6
  <2>q. QED
    BY <1>m, <2>1, <2>2 DEF MarkGate

<1>c. commit.pc = "reconcile" /\ commit'.pc # "reconcile" => Reconcile
  BY SceneSteps
     DEF NativeEvent, NewPlayerGameData, NewManager, RetireManager, RegisterWorld,
         UnloadWorld, HandOff, GuestCandidate, CommitAuthority, MayCommit, RearmGate,
         ClearMovedTicket, RaiseGate, ArmGateForResponse, DropGate, CompleteGate
<1>1. CASE Reconcile
  <2>1. CASE gate' = NoGate
    BY <2>1, <1>n, <1>t
  <2>2. CASE /\ GateMatches(gate, probe.gen, [gen |-> commit.gen, mgr |-> commit.mgr])
             /\ probe.gen = commit.gen
             /\ gate' = [gate EXCEPT !.mgr = commit.mgr]
    <3>1. gate.gen = commit.gen /\ gate.mgr \in {0, commit.mgr}
      BY <2>2 DEF GateMatches
    <3>2. /\ gate'.pgd = gate.pgd /\ gate'.reg = gate.reg /\ gate'.gen = gate.gen
          /\ gate'.mgr = commit.mgr /\ gate'.stage = gate.stage
          /\ gate'.valid = gate.valid
      BY <2>2
    <3>3. gate.pgd # 0 => gate.mgr = commit.mgr
      BY <3>1, <1>b
    <3>q. QED
      BY <3>1, <3>2, <3>3, <1>b, <1>t
  <2>q. QED
    BY <1>1, <2>1, <2>2 DEF Reconcile
<1>2. CASE RearmGate
  <2>1. commit.gen \in Gens /\ authority \in AuthorityRecords /\ authority.mgr <= native.made
    BY <1>l DEF CommitRecords
  <2>2. commit.pc = "gate"
    BY <1>2 DEF RearmGate
  <2>q. QED
    BY <1>2, <1>a, <2>1, <2>2 DEF RearmGate
<1>3. CASE ArmGateForResponse
  <2> DEFINE auth == [gen |-> ctl.authGen, mgr |-> ctl.mgr]
  <2>1. auth \in AuthorityRecords /\ auth.mgr <= native.made
    BY <1>b DEF AuthorityRecords, CtlRecords
  <2>2. ArmGate(ctl.gen, auth, ctl.pgd, ctl.reg) /\ UNCHANGED commit
    BY <1>3 DEF ArmGateForResponse
  <2> HIDE DEF auth
  <2>q. QED
    BY <1>a, <2>1, <2>2
<1>4. CASE RaiseGate
  <2> DEFINE stage == IF main.post THEN FinalApplied ELSE SeedApplied
  <2>1. /\ MarkGate(main.nonce, main.gen, stage) /\ UNCHANGED commit
        /\ stage \in {SeedApplied, FinalApplied, GateCompleted}
        /\ stage = FinalApplied => main.post
    BY <1>4 DEF RaiseGate, SeedApplied, FinalApplied
  <2>2. main.post => authority.mgr # 0
    BY <1>4 DEF RaiseGate, GateBound
  <2> HIDE DEF stage
  <2>q. QED
    BY <1>4, <1>m, <2>1, <2>2 DEF Marks
<1>5. CASE CompleteGate
  <2>1. MarkGate(ctl.nonce, ctl.gen, GateCompleted) /\ UNCHANGED commit
    BY <1>5 DEF CompleteGate
  <2>q. QED
    BY <1>m, <2>1 DEF GateCompleted, FinalApplied
<1>6. CASE DropGate
  BY <1>6, <1>n, <1>t DEF DropGate
<1>7. CASE gate' = gate /\ ~Reconcile
  BY <1>7, <1>k, <1>c
<1>8. \/ Reconcile \/ RearmGate \/ ArmGateForResponse \/ RaiseGate \/ CompleteGate
      \/ DropGate \/ gate' = gate
  BY SceneSteps
     DEF NativeEvent, NewPlayerGameData, NewManager, RetireManager, RegisterWorld,
         UnloadWorld, HandOff, GuestCandidate, CommitAuthority, ClearMovedTicket
<1>q. QED
  BY <1>1, <1>2, <1>3, <1>4, <1>5, <1>6, <1>7, <1>8

\* No step but a final pass brings a gate to life, and one that is alive stays
\* the gate it is.
LEMMA OnlyMarkRevives ==
  ASSUME TypeOK, Reached, GateBound, Next, ~Marks, GateLive'
  PROVE  GateLive /\ UNCHANGED <<gate.gen, gate.mgr, gate.pgd, gate.reg>>
<1>t. /\ gate.pgd \in Nat /\ gate.reg \in Nat /\ gate.mgr \in Nat
      /\ native.pgd \in Nat /\ native.made \in Nat /\ world.reg \in Nat
  BY BoundsAssumption
     DEF TypeOK, GateRecords, NativeRecords, WorldRecords, Pgds, Mgrs, Regs
<1>g. /\ gate.pgd <= native.pgd /\ gate.mgr <= native.made /\ gate.reg <= world.reg
      /\ gate.pgd # 0 => gate.mgr # 0
  BY DEF Reached, GateBound
<1>l. /\ gate'.pgd # 0 /\ gate'.reg # 0
      /\ gate'.pgd = native'.pgd /\ gate'.mgr = native'.mgr
      /\ gate'.reg = IF native'.world THEN world'.reg ELSE 0
      /\ commit'.pc = "reconcile" =>
           commit'.gen = gate'.gen /\ commit'.mgr = gate'.mgr
  BY DEF GateLive, LiveReg
<1>k. /\ gate'.pgd = gate.pgd /\ gate'.reg = gate.reg
      /\ gate'.gen = gate.gen /\ gate'.mgr = gate.mgr
      /\ commit.pc = "reconcile" /\ commit'.pc # "reconcile" =>
           commit.gen = gate.gen /\ commit.mgr = gate.mgr
  BY GateSteps, <1>l
<1>c. commit.pc = "reconcile" => commit.gen = gate.gen /\ commit.mgr = gate.mgr
  <2>1. commit.pc = "reconcile" /\ commit'.pc = "reconcile" => UNCHANGED commit
    <3>1. ASSUME Reconcile PROVE commit'.pc # "reconcile"
      <4>1. CASE EndCommit
        BY <4>1 DEF EndCommit, NoCommit
      <4>2. ASSUME NEW pc \in {"gate", "clear"}, NEW moved,
                   \/ commit' = [commit EXCEPT !.pc = pc, !.moved = moved]
                   \/ commit' = [commit EXCEPT !.pc = pc]
            PROVE  commit'.pc # "reconcile"
        <5>1. commit'.pc = pc
          BY <4>2 DEF TypeOK, CommitRecords
        <5>q. QED
          BY <5>1
      <4>q. QED
        BY <3>1, <4>1, <4>2 DEF Reconcile, CommitGoto
    <3>2. CASE commit.pc = "reconcile" /\ ~Reconcile
      BY <3>2, SceneSteps
         DEF NativeEvent, NewPlayerGameData, NewManager, RetireManager, RegisterWorld,
             UnloadWorld, HandOff, GuestCandidate, CommitAuthority, MayCommit,
             RearmGate, ClearMovedTicket, RaiseGate, ArmGateForResponse, DropGate,
             CompleteGate
    <3>q. QED
      BY <3>1, <3>2
  <2>q. QED
    BY <2>1, <1>k, <1>l
<1>n. gate.pgd = native.pgd /\ gate.mgr = native.mgr /\ native.world /\ gate.reg = world.reg
  <2>1. CASE UNCHANGED <<native, world>>
    BY <2>1, <1>k, <1>l
  <2>2. CASE NewPlayerGameData
    BY <2>2, <1>k, <1>l, <1>g, <1>t DEF NewPlayerGameData, TypeOK, NativeRecords
  <2>3. CASE NewManager
    BY <2>3, <1>k, <1>l, <1>g, <1>t DEF NewManager, TypeOK, NativeRecords
  <2>4. CASE RetireManager
    BY <2>4, <1>k, <1>l, <1>g DEF RetireManager, TypeOK, NativeRecords
  <2>5. CASE RegisterWorld
    BY <2>5, <1>k, <1>l, <1>g, <1>t
       DEF RegisterWorld, TypeOK, NativeRecords, WorldRecords
  <2>6. CASE UnloadWorld
    BY <2>6, <1>k, <1>l DEF UnloadWorld, TypeOK, NativeRecords
  <2>7. CASE HandOff
    BY <2>7, <1>k, <1>l DEF HandOff, TypeOK, WorldRecords
  <2>8. ASSUME NEW by, CommitAuthority(by)
        PROVE  gate.pgd = native.pgd /\ gate.mgr = native.mgr /\ native.world
               /\ gate.reg = world.reg
    <3>1. world'.reg = world.reg /\ UNCHANGED native
      BY <2>8 DEF CommitAuthority, WorldAfterCommit, TypeOK, WorldRecords
    <3>q. QED
      BY <3>1, <1>k, <1>l
  <2>q. QED
    BY <2>1, <2>2, <2>3, <2>4, <2>5, <2>6, <2>7, <2>8, SceneSteps
       DEF NativeEvent, GuestCandidate, Reconcile, RearmGate, ClearMovedTicket,
           RaiseGate, ArmGateForResponse, DropGate, CompleteGate
<1>q. QED
  BY <1>k, <1>c, <1>n, <1>l DEF GateLive, LiveReg

\* What the ticket, the game thread, the control thread, a commit and a
\* candidate take over from the others.
LEMMA CopySteps ==
  ASSUME TypeOK, Next
  PROVE  /\ ticket'.pgd \in {0, ticket.pgd, gate.pgd, main.pgd}
         /\ main'.pgd \in {0, main.pgd, native.pgd}
         /\ commit'.mgr \in {0, commit.mgr, native.mgr}
         /\ ctl'.mgr \in {0, ctl.mgr, authority.mgr}
<1>t. CancelOrClearTicket \/ UNCHANGED ticket => ticket'.pgd \in {0, ticket.pgd}
  BY DEF CancelOrClearTicket, ClearTicket, NoTicket, TypeOK, TicketRecords
<1>m. /\ \A pc : main' = [main EXCEPT !.pc = pc] => main'.pgd = main.pgd
      /\ Return \/ main' = FrameStart => main'.pgd = 0
  <2>1. \A pc : main' = [main EXCEPT !.pc = pc] => main'.pgd = main.pgd
    BY DEF TypeOK, MainRecords
  <2>2. ASSUME Return PROVE main'.pgd = 0
    BY <2>2 DEF Return, FrameStart
  <2>3. ASSUME main' = FrameStart PROVE main'.pgd = 0
    BY <2>3 DEF FrameStart
  <2>q. QED
    BY <2>1, <2>2, <2>3
<1>e. EndCommit => main'.pgd = main.pgd /\ commit'.mgr = 0
  BY <1>m DEF EndCommit, NoCommit
<1>k. /\ \A pc : commit' = [commit EXCEPT !.pc = pc] => commit'.mgr = commit.mgr
      /\ \A pc, moved : commit' = [commit EXCEPT !.pc = pc, !.moved = moved]
                          => commit'.mgr = commit.mgr
  BY DEF TypeOK, CommitRecords
<1>i. /\ ctl' = Idle => ctl'.mgr = 0
      /\ \A pc : ctl' = [ctl EXCEPT !.pc = pc] => ctl'.mgr = ctl.mgr
  BY DEF Idle, TypeOK, CtlRecords
<1>1. CASE NativeEvent
  <2>1. /\ UNCHANGED <<main, commit, ctl>>
        /\ CancelOrClearTicket \/ UNCHANGED ticket
    BY <1>1 DEF NativeEvent, NewPlayerGameData, NewManager, RetireManager,
       RegisterWorld, UnloadWorld, HandOff, GuestCandidate
  <2>q. QED
    BY <2>1, <1>t
<1>2. ASSUME NEW by, CommitAuthority(by)
      PROVE  /\ ticket'.pgd \in {0, ticket.pgd, gate.pgd, main.pgd}
             /\ main'.pgd \in {0, main.pgd, native.pgd}
             /\ commit'.mgr \in {0, commit.mgr, native.mgr}
             /\ ctl'.mgr \in {0, ctl.mgr, authority.mgr}
  <2>1. UNCHANGED <<main, ticket, ctl>> /\ native.mgr = candidate.mgr
    BY <1>2 DEF CommitAuthority
  <2>2. commit'.mgr = candidate.mgr
    BY <1>2 DEF CommitAuthority
  <2>q. QED
    BY <2>1, <2>2
<1>3. ASSUME NEW by, DropCandidate(by)
      PROVE  /\ ticket'.pgd \in {0, ticket.pgd, gate.pgd, main.pgd}
             /\ main'.pgd \in {0, main.pgd, native.pgd}
             /\ commit'.mgr \in {0, commit.mgr, native.mgr}
             /\ ctl'.mgr \in {0, ctl.mgr, authority.mgr}
  <2>1. /\ UNCHANGED <<ticket, ctl, commit>>
        /\ main' = main \/ main' = [main EXCEPT !.pc = "read"]
    BY <1>3 DEF DropCandidate
  <2>q. QED
    BY <2>1, <1>m
<1>4. CASE Reconcile
  <2>1. /\ CancelOrClearTicket \/ UNCHANGED ticket
           \/ ticket' = [ticket EXCEPT !.mgr = commit.mgr]
        /\ UNCHANGED ctl
        /\ \/ EndCommit
           \/ UNCHANGED main /\ \E pc : commit' = [commit EXCEPT !.pc = pc]
           \/ UNCHANGED main /\ \E pc, moved :
                commit' = [commit EXCEPT !.pc = pc, !.moved = moved]
    BY <1>4 DEF Reconcile, CommitGoto
  <2>2. ticket' = [ticket EXCEPT !.mgr = commit.mgr] => ticket'.pgd = ticket.pgd
    BY DEF TypeOK, TicketRecords
  <2>q. QED
    BY <2>1, <2>2, <1>t, <1>e, <1>k
<1>5. CASE RearmGate \/ ClearMovedTicket
  <2>1. /\ CancelOrClearTicket \/ UNCHANGED ticket
        /\ UNCHANGED ctl
        /\ \/ EndCommit
           \/ UNCHANGED main /\ \E pc : commit' = [commit EXCEPT !.pc = pc]
    BY <1>5 DEF RearmGate, ClearMovedTicket, CommitGoto
  <2>q. QED
    BY <2>1, <1>t, <1>e, <1>k

<1>6. CASE CtlStep
  <2>1. UNCHANGED <<main, commit>>
    BY <1>6 DEF CtlStep, ArmTicket, ReadForGate, ArmGateForResponse, DropGate,
                DropTicket, CompleteAdmission, CompleteGate
  <2>2. ticket'.pgd \in {0, ticket.pgd, gate.pgd}
    <3>1. CASE ArmTicket
      BY <3>1 DEF ArmTicket, NoTicket
    <3>2. CASE ~ArmTicket
      <4>1. CancelOrClearTicket \/ UNCHANGED ticket
        BY <1>6, <3>2 DEF CtlStep, ReadForGate, ArmGateForResponse, DropGate,
                    DropTicket, CompleteAdmission, CompleteGate
      <4>q. QED
        BY <4>1, <1>t
    <3>q. QED
      BY <3>1, <3>2
  <2>3. ctl'.mgr \in {0, ctl.mgr, authority.mgr}
    <3>1. CASE ReadForGate
      BY <3>1 DEF ReadForGate, TypeOK, CtlRecords
    <3>2. CASE ~ReadForGate
      <4>1. ctl' = Idle \/ \E pc : ctl' = [ctl EXCEPT !.pc = pc]
        BY <1>6, <3>2 DEF CtlStep, ArmTicket, ArmGateForResponse, DropGate,
                    DropTicket, CompleteAdmission, CompleteGate
      <4>q. QED
        BY <4>1, <1>i
    <3>q. QED
      BY <3>1, <3>2
  <2>q. QED
    BY <2>1, <2>2, <2>3
<1>7. CASE \/ \E rev \in 1..MaxRev : ReceiveDelivery(rev)
           \/ \E gen \in 1..MaxGen : Authorize(gen)
           \/ Terminate \/ RearmByLifetime \/ CheckCompletion
  <2>1. UNCHANGED <<main, commit, ticket>>
    BY <1>7 DEF ReceiveDelivery, Authorize, Terminate, RearmByLifetime, CheckCompletion
  <2>2. ctl'.mgr \in {0, ctl.mgr, authority.mgr}
    <3>1. ASSUME NEW rev \in 1..MaxRev, ReceiveDelivery(rev)
          PROVE  ctl'.mgr \in {0, authority.mgr}
      BY <3>1 DEF ReceiveDelivery, Idle
    <3>2. ASSUME NEW gen \in 1..MaxGen, Authorize(gen) PROVE ctl'.mgr = 0
      BY <3>2 DEF Authorize, Idle
    <3>3. CASE Terminate \/ CheckCompletion
      BY <3>3 DEF Terminate, CheckCompletion, Idle
    <3>q. QED
      BY <1>7, <3>1, <3>2, <3>3 DEF RearmByLifetime
  <2>q. QED
    BY <2>1, <2>2
<1>8. CASE ArmProbe \/ LosePeer \/ ResetLostProbe \/ Elapse
  <2>1. /\ UNCHANGED <<main, commit, ctl>>
        /\ CancelOrClearTicket \/ UNCHANGED ticket
    BY <1>8 DEF ArmProbe, LosePeer, ResetLostProbe, Elapse
  <2>q. QED
    BY <2>1, <1>t
<1>9. CASE \/ BeginFrame \/ PublishCandidate \/ SkipCommit \/ TryApply
           \/ ExpireWindow \/ BeginCapture \/ StoreCapture \/ EndNative
  <2>1. UNCHANGED <<commit, ctl>>
    BY <1>9 DEF BeginFrame, PublishCandidate, SkipCommit, TryApply, ReadProbe,
       CheckTicket, ClaimTicket, RunCodec, RecheckEffects, SettleTicket, RaiseGate,
       FinishWindow, FailTicket, ExpireWindow, BeginCapture, StoreCapture, EndNative
  <2>2. ticket'.pgd \in {0, ticket.pgd, main.pgd}
    <3>z. ClearTicket => ticket'.pgd = 0
      BY DEF ClearTicket, NoTicket
    <3>1. CASE SettleTicket
      <4>1. CASE ClearTicket \/ ticket' = ticket
        BY <4>1, <3>z
      <4>2. CASE ticket' = [ticket EXCEPT !.applying = FALSE, !.final = TRUE,
                                          !.pgd = main.pgd]
        BY <4>2 DEF TypeOK, TicketRecords
      <4>3. CASE ticket' = [ticket EXCEPT !.applying = FALSE, !.applied = TRUE]
        BY <4>3 DEF TypeOK, TicketRecords
      <4>q. QED
        BY <3>1, <4>1, <4>2, <4>3 DEF SettleTicket
    <3>2. CASE FailTicket
      <4>1. CASE ClearTicket \/ ticket' = ticket
        BY <4>1, <3>z
      <4>2. CASE ticket' = Failed(ticket)
        BY <4>2 DEF Failed, TypeOK, TicketRecords
      <4>q. QED
        BY <3>2, <4>1, <4>2 DEF FailTicket
    <3>3. CASE CheckTicket \/ ClaimTicket \/ ExpireWindow
      BY <3>3 DEF CheckTicket, ClaimTicket, ExpireWindow, Expired, TypeOK, TicketRecords
    <3>q. QED
      BY <1>9, <3>1, <3>2, <3>3
         DEF BeginFrame, PublishCandidate, SkipCommit, TryApply, ReadProbe,
             RunCodec, RecheckEffects, RaiseGate, FinishWindow, BeginCapture,
             StoreCapture, EndNative
  <2>3. main'.pgd \in {0, main.pgd, native.pgd}
    <3>1. CASE CheckTicket
      <4>1. CASE Return
        BY <4>1, <1>m
      <4>2. ASSUME NEW pc, NEW target \in {FinalTarget(main.gen), Target(main.gen)},
                   main' = [main EXCEPT !.pc = pc, !.mgr = ticket.mgr,
                                        !.rev = ticket.rev, !.pgd = target]
            PROVE  main'.pgd \in {0, main.pgd, native.pgd}
        <5>1. target \in {0, native.pgd}
          BY DEF FinalTarget, Target
        <5>2. main'.pgd = target
          BY <4>2 DEF TypeOK, MainRecords
        <5>q. QED
          BY <5>1, <5>2
      <4>q. QED
        BY <3>1, <4>1, <4>2 DEF CheckTicket
    <3>2. CASE ClaimTicket
      BY <3>2, <1>m DEF ClaimTicket, TypeOK, MainRecords
    <3>3. CASE RaiseGate
      BY <3>3, <1>m DEF RaiseGate, MainGoto, FrameStart
    <3>4. CASE EndNative \/ ReadProbe
      BY <3>4, <1>m DEF EndNative, ReadProbe, MainGoto, TypeOK, MainRecords
    <3>5. CASE BeginFrame \/ PublishCandidate \/ SkipCommit \/ BeginCapture \/ StoreCapture
      BY <3>5, <1>m DEF BeginFrame, PublishCandidate, SkipCommit, BeginCapture,
         StoreCapture, MainGoto
    <3>6. CASE RunCodec \/ RecheckEffects \/ SettleTicket \/ FinishWindow \/ FailTicket
               \/ ExpireWindow
      BY <3>6, <1>m DEF RunCodec, RecheckEffects, SettleTicket, FinishWindow,
         FailTicket, ExpireWindow, MainGoto
    <3>q. QED
      BY <1>9, <3>1, <3>2, <3>3, <3>4, <3>5, <3>6 DEF TryApply
  <2>q. QED
    BY <2>1, <2>2, <2>3
<1>q. QED
  BY <1>1, <1>2, <1>3, <1>4, <1>5, <1>6, <1>7, <1>8, <1>9
     DEF Next, MainStep, CommitStep, CtlBegin

\* No step makes a record name an object that does not exist.
LEMMA NextReached ==
  ASSUME TypeOK, Reached, GateBound, Next
  PROVE  Reached'
<1>t. /\ gate.pgd \in Nat /\ ticket.pgd \in Nat /\ main.pgd \in Nat /\ native.pgd \in Nat
      /\ gate.reg \in Nat /\ world.reg \in Nat /\ LiveReg \in Nat /\ LiveReg <= world.reg
      /\ native.mgr \in Nat /\ native.made \in Nat /\ gate.mgr \in Nat
      /\ commit.mgr \in Nat /\ ctl.mgr \in Nat /\ authority.mgr \in Nat
  BY BoundsAssumption
     DEF TypeOK, GateRecords, TicketRecords, MainRecords, NativeRecords, WorldRecords,
         CommitRecords, CtlRecords, AuthorityRecords, Pgds, Mgrs, Regs, LiveReg
<1>r. /\ gate.pgd <= native.pgd /\ ticket.pgd <= native.pgd /\ main.pgd <= native.pgd
      /\ gate.reg <= world.reg
      /\ native.mgr <= native.made /\ gate.mgr <= native.made
      /\ commit.mgr <= native.made /\ ctl.mgr <= native.made
      /\ candidate.gen # 0 => candidate.mgr # 0
  BY DEF Reached
<1>u. authority.mgr <= native.made
  BY <1>t, <1>r DEF GateBound
<1>n. /\ native'.pgd \in Nat /\ native'.pgd >= native.pgd
      /\ native'.made \in Nat /\ native'.made >= native.made
      /\ world'.reg \in Nat /\ world'.reg >= world.reg
      /\ native'.mgr <= native'.made
  <2>1. CASE UNCHANGED <<native, world>>
    BY <2>1, <1>t, <1>r
  <2>2. CASE NewPlayerGameData
    BY <2>2, <1>t, <1>r DEF NewPlayerGameData, TypeOK, NativeRecords
  <2>3. CASE NewManager
    BY <2>3, <1>t, <1>r DEF NewManager, TypeOK, NativeRecords
  <2>4. CASE RetireManager
    BY <2>4, <1>t, <1>r DEF RetireManager, TypeOK, NativeRecords
  <2>5. CASE RegisterWorld
    BY <2>5, <1>t, <1>r DEF RegisterWorld, TypeOK, NativeRecords, WorldRecords
  <2>6. CASE UnloadWorld
    BY <2>6, <1>t, <1>r DEF UnloadWorld, TypeOK, NativeRecords
  <2>7. CASE HandOff
    BY <2>7, <1>t, <1>r DEF HandOff, TypeOK, WorldRecords
  <2>8. ASSUME NEW by, CommitAuthority(by)
        PROVE  /\ native'.pgd \in Nat /\ native'.pgd >= native.pgd
               /\ native'.made \in Nat /\ native'.made >= native.made
               /\ world'.reg \in Nat /\ world'.reg >= world.reg
               /\ native'.mgr <= native'.made
    <3>1. world'.reg = world.reg /\ UNCHANGED native
      BY <2>8 DEF CommitAuthority, WorldAfterCommit, TypeOK, WorldRecords
    <3>q. QED
      BY <3>1, <1>t, <1>r
  <2>q. QED
    BY <2>1, <2>2, <2>3, <2>4, <2>5, <2>6, <2>7, <2>8, SceneSteps
       DEF NativeEvent, GuestCandidate, Reconcile, RearmGate, ClearMovedTicket,
           RaiseGate, ArmGateForResponse, DropGate, CompleteGate
<1>1. ticket'.pgd <= native'.pgd /\ main'.pgd <= native'.pgd
  <2>1. /\ ticket'.pgd \in {0, ticket.pgd, gate.pgd, main.pgd}
        /\ main'.pgd \in {0, main.pgd, native.pgd}
    BY CopySteps
  <2>q. QED
    BY <2>1, <1>t, <1>r, <1>n
<1>2. commit'.mgr <= native'.made /\ ctl'.mgr <= native'.made
  <2>1. /\ commit'.mgr \in {0, commit.mgr, native.mgr}
        /\ ctl'.mgr \in {0, ctl.mgr, authority.mgr}
    BY CopySteps
  <2>q. QED
    BY <2>1, <1>t, <1>r, <1>u, <1>n
<1>3. gate'.pgd <= native'.pgd /\ gate'.reg <= world'.reg /\ gate'.mgr <= native'.made
  <2>1. \/ gate'.pgd = 0 /\ gate'.mgr <= native.made /\ gate'.reg <= world.reg
        \/ gate'.pgd = gate.pgd /\ gate'.reg = gate.reg /\ gate'.mgr = gate.mgr
        \/ gate'.pgd = ticket.pgd /\ gate'.reg = LiveReg /\ gate'.mgr = authority.mgr
    BY GateSteps
  <2>2. TypeOK'
    BY NextTypeOK
  <2>3. gate'.mgr \in Nat /\ gate'.reg \in Nat
    BY <2>2, BoundsAssumption DEF TypeOK, GateRecords, Mgrs, Regs
  <2>q. QED
    BY <2>1, <2>3, <1>t, <1>r, <1>u, <1>n
<1>4. candidate'.gen # 0 => candidate'.mgr # 0
  <2>1. CASE UNCHANGED candidate
    BY <2>1, <1>r
  <2>2. CASE candidate' = NoCandidate
    BY <2>2 DEF NoCandidate
  <2>3. CASE PublishCandidate
    BY <2>3 DEF PublishCandidate
  <2>4. CASE GuestCandidate
    BY <2>4 DEF GuestCandidate
  <2>5. CASE MainStep
    BY <2>5, <2>1, <2>2, <2>3 DEF MainStep, TryApply, BeginFrame, SkipCommit,
       DropCandidate, CommitAuthority, ReadProbe, CheckTicket, ClaimTicket, RunCodec,
       RecheckEffects, SettleTicket, RaiseGate, FinishWindow, FailTicket,
       ExpireWindow, BeginCapture, StoreCapture, EndNative
  <2>6. CASE NativeEvent
    BY <2>6, <2>1, <2>2, <2>4 DEF NativeEvent, NewPlayerGameData, NewManager,
       RetireManager, RegisterWorld, UnloadWorld, HandOff
  <2>7. CASE CommitStep \/ CtlStep
    BY <2>7, <2>1 DEF CommitStep, Reconcile, RearmGate, ClearMovedTicket, CtlStep,
       ArmTicket, ReadForGate, ArmGateForResponse, DropGate, DropTicket,
       CompleteAdmission, CompleteGate
  <2>8. CASE CtlBegin
    BY <2>8, <2>1, <2>2 DEF CtlBegin, ReceiveDelivery, Authorize, Terminate,
       RearmByLifetime, CheckCompletion, DropCandidate, CommitAuthority
  <2>9. CASE ArmProbe \/ LosePeer \/ ResetLostProbe \/ Elapse
    BY <2>9, <2>1 DEF ArmProbe, LosePeer, ResetLostProbe, Elapse
  <2>q. QED
    BY <2>5, <2>6, <2>7, <2>8, <2>9 DEF Next
<1>q. QED
  BY <1>1, <1>2, <1>3, <1>4, <1>n DEF Reached

\* Where a final pass is between its claim and its mark, and where the game
\* thread comes to such a point from.
LEMMA PassSteps ==
  ASSUME TypeOK, Next
  PROVE  /\ main'.pc \in TryPCs \cup {"mark"} =>
              \/ ReadProbe /\ main'.nonce = probe.nonce
              \/ /\ main.pc \in TryPCs \cup {"mark"}
                 /\ main'.post = main.post /\ main'.nonce = main.nonce
                 /\ main'.gen = main.gen
         /\ main'.pc \in (TryPCs \ {"check"}) \cup {"mark"} =>
              CheckTicket \/ main.pc \in (TryPCs \ {"check"}) \cup {"mark"}
         /\ main'.pc \in {"claim", "mismatch"} => CheckTicket \/ UNCHANGED main
<1> DEFINE Goal ==
      /\ main'.pc \in TryPCs \cup {"mark"} =>
           \/ ReadProbe /\ main'.nonce = probe.nonce
           \/ /\ main.pc \in TryPCs \cup {"mark"}
              /\ main'.post = main.post /\ main'.nonce = main.nonce
              /\ main'.gen = main.gen
      /\ main'.pc \in (TryPCs \ {"check"}) \cup {"mark"} =>
           CheckTicket \/ main.pc \in (TryPCs \ {"check"}) \cup {"mark"}
      /\ main'.pc \in {"claim", "mismatch"} => CheckTicket \/ UNCHANGED main
<1>m. /\ \A pc : main' = [main EXCEPT !.pc = pc] =>
           /\ main'.pc = pc /\ main'.post = main.post
           /\ main'.nonce = main.nonce /\ main'.gen = main.gen
      /\ Return => main'.pc \in {"expire", "native"}
      /\ main' = FrameStart => main'.pc = "top"
  BY MainFields DEF TypeOK
<1>u. CASE UNCHANGED main
  BY <1>u
<1>1. CASE EndCommit \/ \E by \in {"main", "ctl"} : DropCandidate(by)
  BY <1>1, <1>m DEF EndCommit, DropCandidate, TryPCs
<1>2. CASE BeginFrame \/ PublishCandidate \/ SkipCommit \/ BeginCapture \/ StoreCapture
           \/ ExpireWindow \/ FinishWindow \/ FailTicket
  BY <1>2, <1>m DEF BeginFrame, PublishCandidate, SkipCommit, BeginCapture,
     StoreCapture, ExpireWindow, FinishWindow, FailTicket, MainGoto, TryPCs
<1>3. CASE EndNative
  BY <1>3, <1>m DEF EndNative, TryPCs, TypeOK, MainRecords
<1>4. CASE ReadProbe
  <2>1. main'.pc \in {"expire", "preExpire", "native"}
        \/ (main'.pc = "check" /\ main'.nonce = probe.nonce)
    BY <1>4, ReadProbeMoves
  <2>q. QED
    BY <1>4, <2>1 DEF TryPCs
<1>5. CASE CheckTicket
  <2>1. CASE Return
    BY <2>1, <1>m DEF TryPCs
  <2>2. ASSUME NEW pc \in {"claim", "mismatch"}, NEW target,
               main' = [main EXCEPT !.pc = pc, !.mgr = ticket.mgr,
                                    !.rev = ticket.rev, !.pgd = target]
        PROVE  Goal
    <3>1. main'.post = main.post /\ main'.nonce = main.nonce /\ main'.gen = main.gen
      BY <2>2 DEF TypeOK, MainRecords
    <3>2. main.pc = "check"
      BY <1>5 DEF CheckTicket
    <3>q. QED
      BY <1>5, <3>1, <3>2 DEF TryPCs
  <2>q. QED
    BY <1>5, <2>1, <2>2 DEF CheckTicket
<1>6. CASE ClaimTicket
  <2>1. CASE main' = [main EXCEPT !.pc = "codec", !.blob = payload]
    BY <1>6, <2>1 DEF ClaimTicket, TryPCs, TypeOK, MainRecords
  <2>q. QED
    BY <1>6, <1>m, <2>1 DEF ClaimTicket, TryPCs
<1>7. CASE RunCodec \/ RecheckEffects
  BY <1>7, <1>m DEF RunCodec, RecheckEffects, MainGoto, TryPCs
<1>8. CASE SettleTicket
  BY <1>8, <1>m DEF SettleTicket, MainGoto, TryPCs
<1>9. CASE RaiseGate
  <2>1. main'.pc \in {"finish", "native"}
    BY <1>9, <1>m DEF RaiseGate, MainGoto, FrameStart
  <2>q. QED
    BY <2>1 DEF TryPCs
<1>10. CASE MainStep
  <2>1. ASSUME CommitAuthority("main") PROVE UNCHANGED main
    BY <2>1 DEF CommitAuthority
  <2>q. QED
    BY <1>10, <2>1, <1>u, <1>1, <1>2, <1>3, <1>4, <1>5, <1>6, <1>7, <1>8, <1>9
       DEF MainStep, TryApply
<1>11. CASE ~MainStep
  <2>1. UNCHANGED main \/ EndCommit \/ DropCandidate("ctl")
    BY <1>11 DEF Next, NativeEvent, NewPlayerGameData, NewManager, RetireManager,
       RegisterWorld, UnloadWorld, HandOff, GuestCandidate, CommitStep, Reconcile,
       CommitGoto, RearmGate, ClearMovedTicket, CtlStep, ArmTicket, ReadForGate,
       ArmGateForResponse, DropGate, DropTicket, CompleteAdmission, CompleteGate,
       CtlBegin, ReceiveDelivery, Authorize, Terminate, RearmByLifetime,
       CheckCompletion, CommitAuthority, ArmProbe, LosePeer, ResetLostProbe, Elapse
  <2>q. QED
    BY <2>1, <1>u, <1>1
<1>q. QED
  BY <1>10, <1>11

\* Where the authority, the manager and a commit that is to be reconciled come
\* from.
LEMMA AuthoritySteps ==
  ASSUME TypeOK, Reached, GateBound, Next
  PROVE  /\ authority'.mgr \in {0, native'.mgr}
         /\ commit'.pc = "reconcile" /\ authority'.mgr # 0 =>
              authority'.gen = commit'.gen /\ authority'.mgr = commit'.mgr
<1>b. /\ authority.mgr \in {0, native.mgr}
      /\ commit.pc = "reconcile" /\ authority.mgr # 0 =>
           authority.gen = commit.gen /\ authority.mgr = commit.mgr
  BY DEF GateBound
<1>e. EndCommit => commit'.pc # "reconcile"
  BY DEF EndCommit, NoCommit
<1>k. \A pc \in {"gate", "clear"} : commit' = [commit EXCEPT !.pc = pc] =>
         commit'.pc # "reconcile"
  BY DEF TypeOK, CommitRecords
<1>1. CASE UNCHANGED <<native, authority, commit>>
  BY <1>1, <1>b
<1>2. CASE NewManager
  <2>1. native'.mgr # 0 /\ native.mgr = 0 /\ UNCHANGED <<authority, commit>>
    BY <1>2, BoundsAssumption DEF NewManager, TypeOK, NativeRecords, Mgrs
  <2>q. QED
    BY <2>1, <1>b
<1>3. CASE RetireManager
  <2>1. UNCHANGED commit /\ native.mgr # 0 /\ native'.mgr = 0
    BY <1>3 DEF RetireManager, TypeOK, NativeRecords
  <2>2. CASE authority.mgr = native.mgr
    <3>1. authority'.mgr = 0
      BY <1>3, <2>2 DEF RetireManager, NoAuthority
    <3>q. QED
      BY <3>1
  <2>3. CASE authority.mgr # native.mgr
    <3>1. authority' = authority /\ authority.mgr = 0
      BY <1>3, <2>3, <1>b DEF RetireManager
    <3>q. QED
      BY <3>1
  <2>q. QED
    BY <2>2, <2>3
<1>4. CASE NewPlayerGameData \/ RegisterWorld \/ UnloadWorld
  <2>1. native'.mgr = native.mgr /\ UNCHANGED <<authority, commit>>
    BY <1>4 DEF NewPlayerGameData, RegisterWorld, UnloadWorld, TypeOK, NativeRecords
  <2>q. QED
    BY <2>1, <1>b
<1>5. ASSUME NEW by, CommitAuthority(by)
      PROVE  /\ authority'.mgr \in {0, native'.mgr}
             /\ commit'.pc = "reconcile" /\ authority'.mgr # 0 =>
                  authority'.gen = commit'.gen /\ authority'.mgr = commit'.mgr
  <2>1. /\ authority'.gen = candidate.gen /\ authority'.mgr = candidate.mgr
        /\ native' = native /\ native.mgr = candidate.mgr
        /\ commit'.gen = candidate.gen /\ commit'.mgr = candidate.mgr
    BY <1>5 DEF CommitAuthority
  <2>q. QED
    BY <2>1
<1>6. CASE Reconcile
  <2>1. UNCHANGED <<native, authority>>
    BY <1>6 DEF Reconcile
  <2>2. commit'.pc # "reconcile"
    <3>1. ASSUME NEW moved, commit' = [commit EXCEPT !.pc = "gate", !.moved = moved]
          PROVE  commit'.pc # "reconcile"
      BY <3>1 DEF TypeOK, CommitRecords
    <3>q. QED
      BY <1>6, <3>1, <1>e, <1>k DEF Reconcile, CommitGoto
  <2>q. QED
    BY <2>1, <2>2, <1>b
<1>7. CASE RearmGate \/ ClearMovedTicket
  <2>1. UNCHANGED <<native, authority>> /\ commit'.pc # "reconcile"
    BY <1>7, <1>e, <1>k DEF RearmGate, ClearMovedTicket, CommitGoto
  <2>q. QED
    BY <2>1, <1>b
<1>q. QED
  BY <1>1, <1>2, <1>3, <1>4, <1>5, <1>6, <1>7, SceneSteps
     DEF NativeEvent, HandOff, GuestCandidate, RaiseGate, ArmGateForResponse,
         DropGate, CompleteGate

\* The authority changes by the native update or by a commit, which is either
\* the game thread's, before it reads the probe, or the idle control thread's.
LEMMA AuthorityFixed ==
  ASSUME TypeOK, Next, main.pc \in TryPCs \cup {"mark", "read"}
  PROVE  /\ UNCHANGED <<native, world.reg>>
         /\ UNCHANGED authority \/ (ctl.pc = "idle" /\ CommitAuthority("ctl"))
<1>1. ~NativeEvent
  BY DEF NativeEvent, NewPlayerGameData, NewManager, RetireManager, RegisterWorld,
     UnloadWorld, HandOff, GuestCandidate, InNative, TryPCs
<1>2. ~CommitAuthority("main")
  BY DEF CommitAuthority, MayCommit, TryPCs
<1>3. CASE CommitAuthority("ctl")
  <2>1. world'.reg = world.reg /\ UNCHANGED native
    BY <1>3 DEF CommitAuthority, WorldAfterCommit, TypeOK, WorldRecords
  <2>2. ctl.pc = "idle"
    BY <1>3 DEF CommitAuthority, MayCommit
  <2>q. QED
    BY <1>3, <2>1, <2>2
<1>4. CASE ~CommitAuthority("ctl")
  BY <1>1, <1>2, <1>4, SceneSteps
     DEF Reconcile, RearmGate, ClearMovedTicket, RaiseGate, ArmGateForResponse,
         DropGate, CompleteGate
<1>q. QED
  BY <1>3, <1>4

\* Every step keeps the gate bound to the authority it is alive under.
LEMMA NextGateBound ==
  ASSUME TypeOK, Reached, GateBound, Next
  PROVE  GateBound'
<1>b. /\ gate.pgd # 0 => gate.valid /\ gate.stage >= FinalApplied /\ gate.mgr # 0
      /\ GateLive => authority.gen = gate.gen /\ authority.mgr = gate.mgr
      /\ main.post /\ main.pc \in (TryPCs \ {"check"}) \cup {"mark"} => authority.mgr # 0
  BY DEF GateBound
<1>1. gate'.pgd # 0 => gate'.valid /\ gate'.stage >= FinalApplied /\ gate'.mgr # 0
  <2>1. CASE gate'.pgd = 0
    BY <2>1
  <2>2. CASE /\ gate'.pgd = gate.pgd /\ gate'.mgr = gate.mgr
             /\ gate'.valid = gate.valid /\ gate'.stage >= gate.stage
    <3>1. gate.stage \in Nat /\ gate'.stage \in Nat
      BY NextTypeOK DEF TypeOK, GateRecords, NoGateStage, GateCompleted
    <3>q. QED
      BY <2>2, <3>1, <1>b DEF FinalApplied
  <2>3. CASE /\ Marks
             /\ gate'.valid /\ gate'.stage >= FinalApplied /\ gate'.mgr = authority.mgr
    BY <2>3, <1>b DEF Marks, RaiseGate
  <2>q. QED
    BY <2>1, <2>2, <2>3, GateSteps
<1>2. GateLive' => authority'.gen = gate'.gen /\ authority'.mgr = gate'.mgr
  <2> SUFFICES ASSUME GateLive'
               PROVE  authority'.gen = gate'.gen /\ authority'.mgr = gate'.mgr
    OBVIOUS
  <2>l. /\ gate'.pgd # 0 /\ gate'.mgr = native'.mgr
        /\ commit'.pc = "reconcile" =>
             commit'.gen = gate'.gen /\ commit'.mgr = gate'.mgr
    BY DEF GateLive
  <2>1. CASE Marks
    <3>1. gate'.pgd = 0
          \/ /\ gate'.gen = gate.gen /\ gate'.mgr = gate.mgr /\ gate'.pgd = gate.pgd
             /\ gate'.reg = gate.reg
          \/ /\ gate'.gen = main.gen /\ gate'.mgr = authority.mgr
             /\ authority.gen = main.gen
      BY GateSteps
    <3>2. UNCHANGED <<authority, native, world, commit>>
      BY <2>1 DEF Marks, RaiseGate
    <3>3. CASE /\ gate'.gen = gate.gen /\ gate'.mgr = gate.mgr /\ gate'.pgd = gate.pgd
               /\ gate'.reg = gate.reg
      <4>1. GateLive
        BY <3>2, <3>3 DEF GateLive, LiveReg
      <4>q. QED
        BY <4>1, <3>2, <3>3, <1>b
    <3>q. QED
      BY <2>l, <3>1, <3>2, <3>3
  <2>2. CASE ~Marks
    <3>1. /\ GateLive
          /\ gate'.gen = gate.gen /\ gate'.mgr = gate.mgr /\ gate'.pgd = gate.pgd
      BY <2>2, OnlyMarkRevives
    <3>2. CASE UNCHANGED authority
      BY <3>1, <3>2, <1>b
    <3>3. ASSUME NEW by, CommitAuthority(by)
          PROVE  authority'.gen = gate'.gen /\ authority'.mgr = gate'.mgr
      <4>1. /\ authority'.gen = commit'.gen /\ authority'.mgr = commit'.mgr
            /\ commit'.pc = "reconcile"
        BY <3>3 DEF CommitAuthority
      <4>q. QED
        BY <4>1, <2>l
    <3>4. CASE RetireManager
      <4>1. native'.mgr = 0
        BY <3>4 DEF RetireManager, TypeOK, NativeRecords
      <4>2. gate.mgr # 0
        BY <3>1, <2>l, <1>b
      <4>q. QED
        BY <4>1, <4>2, <3>1, <2>l
    <3>q. QED
      BY <3>2, <3>3, <3>4, SceneSteps
         DEF NativeEvent, NewPlayerGameData, NewManager, RegisterWorld, UnloadWorld,
             HandOff, GuestCandidate, Reconcile, RearmGate, ClearMovedTicket,
             RaiseGate, ArmGateForResponse, DropGate, CompleteGate
  <2>q. QED
    BY <2>1, <2>2
<1>3. main'.post /\ main'.pc \in (TryPCs \ {"check"}) \cup {"mark"} => authority'.mgr # 0
  <2> SUFFICES ASSUME main'.post, main'.pc \in (TryPCs \ {"check"}) \cup {"mark"}
               PROVE  authority'.mgr # 0
    OBVIOUS
  <2>1. CASE CheckTicket
    <3>1. ~Return
      BY MainFields DEF TypeOK, TryPCs
    <3>2. authority.mgr # 0 /\ authority' = authority
      BY <2>1, <3>1 DEF CheckTicket, Claimable
    <3>q. QED
      BY <3>2
  <2>2. CASE ~CheckTicket
    <3>1. main.pc \in (TryPCs \ {"check"}) \cup {"mark"}
      BY <2>2, PassSteps
    <3>2. main.post
      <4>1. ~ReadProbe
        BY <3>1 DEF ReadProbe, TryPCs
      <4>q. QED
        BY <4>1, PassSteps
    <3>3. UNCHANGED authority \/ CommitAuthority("ctl")
      BY <3>1, AuthorityFixed
    <3>4. ASSUME CommitAuthority("ctl") PROVE authority'.mgr # 0
      <4>1. authority'.mgr = candidate.mgr /\ candidate.gen # 0
        BY <3>4 DEF CommitAuthority, MayCommit
      <4>q. QED
        BY <4>1 DEF Reached
    <3>q. QED
      BY <3>1, <3>2, <3>3, <3>4, <1>b
  <2>q. QED
    BY <2>1, <2>2
<1>q. QED
  <2>1. /\ authority'.mgr \in {0, native'.mgr}
        /\ commit'.pc = "reconcile" /\ authority'.mgr # 0 =>
             authority'.gen = commit'.gen /\ authority'.mgr = commit'.mgr
    BY AuthoritySteps
  <2>q. QED
    BY <2>1, <1>1, <1>2, <1>3 DEF GateBound

\* Nonces are never given out again.
LEMMA NonceSteps ==
  ASSUME TypeOK, Ownership, FinalOnce, Next, NEW n \in 1..history.nonces
  PROVE  /\ n \in 1..history'.nonces
         /\ probe'.nonce = n => probe.nonce = n
         /\ history.finals \subseteq history'.finals
<1>n. /\ history.nonces \in Nat /\ n \in Nat /\ n >= 1 /\ n <= history.nonces
  BY BoundsAssumption DEF TypeOK, HistoryRecords, Nonces
<1>1. CASE MainStep
  <2>1. probe'.nonce = probe.nonce
    <3>1. CASE FinishWindow
      BY <3>1 DEF FinishWindow, TypeOK, ProbeRecords
    <3>2. CASE ExpireWindow
      BY <3>2 DEF ExpireWindow, TypeOK, ProbeRecords
    <3>3. CASE ~FinishWindow /\ ~ExpireWindow
      BY <1>1, <3>3 DEF MainStep, TryApply, BeginFrame, PublishCandidate, SkipCommit,
         DropCandidate, CommitAuthority, ReadProbe, CheckTicket, ClaimTicket, RunCodec,
         RecheckEffects, SettleTicket, RaiseGate, FailTicket, BeginCapture,
         StoreCapture, EndNative
    <3>q. QED
      BY <3>1, <3>2, <3>3
  <2>2. history'.nonces = history.nonces /\ history.finals \subseteq history'.finals
    <3>1. CASE RunCodec
      BY <3>1 DEF RunCodec, TypeOK, HistoryRecords
    <3>2. CASE RaiseGate
      BY <3>2 DEF RaiseGate, TypeOK, HistoryRecords
    <3>3. CASE ~RunCodec /\ ~RaiseGate
      BY <1>1, <3>3 DEF MainStep, TryApply, BeginFrame, PublishCandidate, SkipCommit,
         DropCandidate, CommitAuthority, ReadProbe, CheckTicket, ClaimTicket,
         RecheckEffects, SettleTicket, FinishWindow, FailTicket, ExpireWindow,
         BeginCapture, StoreCapture, EndNative
    <3>q. QED
      BY <3>1, <3>2, <3>3
  <2>q. QED
    BY <2>1, <2>2, <1>n
<1>2. CASE ~MainStep
  <2>1. \/ probe'.nonce = probe.nonce /\ history'.nonces = history.nonces
        \/ probe'.nonce = history.nonces + 1 /\ history'.nonces = history.nonces + 1
        \/ probe' = NoProbe /\ history'.nonces = history.nonces
    BY <1>2, OtherProbe
  <2>2. history'.finals = history.finals
    BY <1>2, OtherSteps
  <2>3. NoProbe.nonce = 0
    BY ProbeFields
  <2>q. QED
    BY <2>1, <2>2, <2>3, <1>n
<1>q. QED
  BY <1>1, <1>2

\* A delivery is being installed because it was when the step began, or because
\* the step received it.
LEMMA DeliverySteps ==
  ASSUME TypeOK, Next, ctl'.pc = "arm"
  PROVE  \/ UNCHANGED ctl /\ ctl.pc = "arm" /\ ~ArmTicket
         \/ /\ \E rev \in 1..MaxRev : ReceiveDelivery(rev)
            /\ ctl'.nonce = probe.nonce /\ ctl'.gen = probe.gen
            /\ ctl'.pgd = native.pgd /\ ctl'.reg = LiveReg
            /\ ctl'.mgr = IF authority.gen = probe.gen THEN authority.mgr ELSE 0
            /\ UNCHANGED <<probe, gate, authority, native, world, main, commit, history>>
            /\ IsAuthorized(probe)
<1>i. Idle.pc = "idle"
  BY DEF Idle
<1>1. ASSUME NEW rev \in 1..MaxRev, ReceiveDelivery(rev)
      PROVE  /\ ctl'.nonce = probe.nonce /\ ctl'.gen = probe.gen
             /\ ctl'.pgd = native.pgd /\ ctl'.reg = LiveReg
             /\ ctl'.mgr = IF authority.gen = probe.gen THEN authority.mgr ELSE 0
             /\ UNCHANGED <<probe, gate, authority, native, world, main, commit, history>>
             /\ IsAuthorized(probe)
  <2>1. ctl' = [pc |-> "arm", nonce |-> probe.nonce, gen |-> probe.gen, rev |-> rev,
                authGen |-> 0, pgd |-> native.pgd, reg |-> LiveReg,
                mgr |-> IF authority.gen = probe.gen THEN authority.mgr ELSE 0,
                stage |-> "Idle"]
    BY <1>1 DEF ReceiveDelivery, Idle
  <2>2. /\ ctl'.nonce = probe.nonce /\ ctl'.gen = probe.gen
        /\ ctl'.pgd = native.pgd /\ ctl'.reg = LiveReg
    BY <2>1
  <2>3. ctl'.mgr = IF authority.gen = probe.gen THEN authority.mgr ELSE 0
    BY <2>1
  <2>q. QED
    BY <1>1, <2>2, <2>3 DEF ReceiveDelivery
<1>2. CASE CtlStep
  BY <1>2, <1>i DEF CtlStep, ArmTicket, ReadForGate, ArmGateForResponse, DropGate,
     DropTicket, CompleteAdmission, CompleteGate, TypeOK, CtlRecords
<1>3. CASE CtlBegin /\ ~(\E rev \in 1..MaxRev : ReceiveDelivery(rev))
  <2>1. CASE \/ RearmByLifetime \/ DropCandidate("ctl") \/ CommitAuthority("ctl")
    <3>1. UNCHANGED ctl /\ ctl.pc = "idle"
      BY <2>1 DEF RearmByLifetime, CtlIdle, DropCandidate, CommitAuthority, MayCommit
    <3>q. QED
      BY <3>1
  <2>2. CASE Terminate \/ CheckCompletion
    BY <2>2 DEF Terminate, CheckCompletion, Idle
  <2>3. ASSUME NEW gen \in 1..MaxGen, Authorize(gen) PROVE FALSE
    BY <2>3, <1>i DEF Authorize, Idle
  <2>q. QED
    BY <1>3, <2>1, <2>2, <2>3 DEF CtlBegin
<1>4. CASE ~CtlStep /\ ~CtlBegin
  <2>1. UNCHANGED ctl
    BY <1>4 DEF Next, MainStep, TryApply, BeginFrame, PublishCandidate, SkipCommit,
       DropCandidate, CommitAuthority, ReadProbe, CheckTicket, ClaimTicket, RunCodec,
       RecheckEffects, SettleTicket, RaiseGate, FinishWindow, FailTicket,
       ExpireWindow, BeginCapture, StoreCapture, EndNative, NativeEvent,
       NewPlayerGameData, NewManager, RetireManager, RegisterWorld, UnloadWorld,
       HandOff, GuestCandidate, CommitStep, Reconcile, RearmGate, ClearMovedTicket,
       ArmProbe, LosePeer, ResetLostProbe, Elapse
  <2>q. QED
    BY <2>1, <1>4 DEF CtlStep
<1>q. QED
  BY <1>1, <1>2, <1>3, <1>4

\* Every step keeps what a delivery under way was read with.
LEMMA NextDelivery ==
  ASSUME TypeOK, Ownership, FinalOnce, Reached, GateBound, DeliveryInv, Next
  PROVE  DeliveryInv'
<1> SUFFICES ASSUME ctl'.pc = "arm"
             PROVE  /\ ctl'.nonce \in 1..history'.nonces
                    /\ ctl'.nonce = probe'.nonce /\ ctl'.nonce # main'.nonce
                         /\ main'.post /\ main'.pc \in TryPCs \cup {"mark"} => ReadNow'
                    /\ ctl'.nonce = probe'.nonce /\ ctl'.nonce \notin history'.finals
                         /\ GateLive' /\ gate'.gen = ctl'.gen => GateFinalForDelivery'
  BY DEF DeliveryInv
<1>b. /\ GateBound'
      /\ gate.pgd # 0 => gate.valid /\ gate.stage >= FinalApplied /\ gate.mgr # 0
      /\ gate'.pgd # 0 => gate'.valid /\ gate'.stage >= FinalApplied /\ gate'.mgr # 0
      /\ GateLive' => authority'.gen = gate'.gen /\ authority'.mgr = gate'.mgr
  BY NextGateBound DEF GateBound
<1>l. GateLive' => /\ gate'.pgd # 0 /\ gate'.reg # 0
                   /\ gate'.pgd = native'.pgd /\ gate'.reg = LiveReg'
  BY DEF GateLive
<1>1. ASSUME /\ ctl'.nonce = probe.nonce /\ ctl'.gen = probe.gen
             /\ ctl'.pgd = native.pgd /\ ctl'.reg = LiveReg
             /\ ctl'.mgr = IF authority.gen = probe.gen THEN authority.mgr ELSE 0
             /\ UNCHANGED <<probe, gate, authority, native, world, main, commit, history>>
             /\ IsAuthorized(probe)
      PROVE  /\ ctl'.nonce \in 1..history'.nonces
             /\ ReadNow'
             /\ GateLive' /\ gate'.gen = ctl'.gen => GateFinalForDelivery'
  <2>1. ctl'.nonce \in 1..history'.nonces
    <3>1. probe.nonce # 0 /\ probe.nonce <= history.nonces
      BY <1>1 DEF FinalOnce, IsAuthorized, AuthorizedStages
    <3>2. probe.nonce \in Nat /\ history.nonces \in Nat
      BY BoundsAssumption DEF TypeOK, HistoryRecords, ProbeRecords, Nonces
    <3>q. QED
      BY <3>1, <3>2, <1>1
  <2>2. LiveReg' = LiveReg
    BY <1>1 DEF LiveReg
  <2>3. ReadNow'
    BY <1>1, <2>2 DEF ReadNow
  <2>4. GateLive' /\ gate'.gen = ctl'.gen => GateFinalForDelivery'
    BY <1>1, <1>b, <1>l, <2>2 DEF GateFinalForDelivery
  <2>q. QED
    BY <2>1, <2>3, <2>4
<1>2. ASSUME UNCHANGED ctl, ctl.pc = "arm"
      PROVE  /\ ctl'.nonce \in 1..history'.nonces
             /\ ctl'.nonce = probe'.nonce /\ ctl'.nonce # main'.nonce
                  /\ main'.post /\ main'.pc \in TryPCs \cup {"mark"} => ReadNow'
             /\ ctl'.nonce = probe'.nonce /\ ctl'.nonce \notin history'.finals
                  /\ GateLive' /\ gate'.gen = ctl'.gen => GateFinalForDelivery'
  <2>d. /\ ctl.nonce \in 1..history.nonces
        /\ ctl.nonce = probe.nonce /\ ctl.nonce # main.nonce
             /\ main.post /\ main.pc \in TryPCs \cup {"mark"} => ReadNow
        /\ ctl.nonce = probe.nonce /\ ctl.nonce \notin history.finals
             /\ GateLive /\ gate.gen = ctl.gen => GateFinalForDelivery
    BY <1>2 DEF DeliveryInv
  <2>n. /\ ctl.nonce \in 1..history'.nonces
        /\ probe'.nonce = ctl.nonce => probe.nonce = ctl.nonce
        /\ history.finals \subseteq history'.finals
    BY <2>d, NonceSteps
  <2>1. ASSUME ctl'.nonce = probe'.nonce, ctl'.nonce # main'.nonce,
               main'.post, main'.pc \in TryPCs \cup {"mark"}
        PROVE  ReadNow'
    <3>1. ~(ReadProbe /\ main'.nonce = probe.nonce)
      BY <1>2, <2>1, <2>n
    <3>2. /\ main.pc \in TryPCs \cup {"mark"}
          /\ main'.post = main.post /\ main'.nonce = main.nonce
      BY <2>1, <3>1, PassSteps
    <3>3. ReadNow
      BY <1>2, <2>1, <2>d, <2>n, <3>2
    <3>4. UNCHANGED <<native, world.reg, authority>>
      BY <3>2, <1>2, AuthorityFixed
    <3>q. QED
      BY <1>2, <3>3, <3>4 DEF ReadNow, LiveReg
  <2>2. ASSUME ctl'.nonce = probe'.nonce, ctl'.nonce \notin history'.finals,
               GateLive', gate'.gen = ctl'.gen
        PROVE  GateFinalForDelivery'
    <3>0. ctl.nonce = probe.nonce /\ ctl.nonce \notin history.finals
      BY <1>2, <2>2, <2>n
    <3>1. CASE Marks
      <4>1. main.post /\ main.pc = "mark" /\ UNCHANGED <<native, world, authority>>
        BY <3>1 DEF Marks, RaiseGate
      <4>2. ctl.nonce # main.nonce
        BY <3>1, <1>2, <2>2 DEF Marks, RaiseGate, TypeOK, HistoryRecords
      <4>3. ReadNow
        BY <4>1, <4>2, <3>0, <2>d
      <4>4. ctl'.pgd = gate'.pgd /\ ctl'.reg = gate'.reg
        BY <1>2, <2>2, <4>1, <4>3, <1>l DEF ReadNow, LiveReg
      <4>5. ctl'.mgr = gate'.mgr
        BY <1>2, <2>2, <4>1, <4>3, <1>b DEF ReadNow
      <4>q. QED
        BY <2>2, <4>4, <4>5, <1>b, <1>l DEF GateFinalForDelivery
    <3>2. CASE ~Marks
      <4>1. GateLive /\ UNCHANGED <<gate.gen, gate.mgr, gate.pgd, gate.reg>>
        BY <3>2, <2>2, OnlyMarkRevives
      <4>2. GateFinalForDelivery
        BY <1>2, <2>2, <4>1, <3>0, <2>d
      <4>q. QED
        BY <1>2, <2>2, <4>1, <4>2, <1>b, <1>l DEF GateFinalForDelivery
    <3>q. QED
      BY <3>1, <3>2
  <2>q. QED
    BY <1>2, <2>n, <2>1, <2>2
<1>q. QED
  BY <1>1, <1>2, DeliverySteps

\* An attempt stays open over every step that does not raise the gate.
LEMMA OpenKept ==
  ASSUME TypeOK, Reached, GateBound, Next, NEW nonce, NEW gen,
         StillOpen(nonce, gen), ~Marks \/ gate'.pgd = 0
  PROVE  StillOpen(nonce, gen)'
<1>o. /\ ~(GateLive /\ gate.gen = gen)
      /\ ctl.pc = "arm" /\ ctl.nonce = nonce /\ ctl.gen = gen => ~GateFinalForDelivery
  BY DEF StillOpen
<1>b. /\ gate.pgd # 0 => gate.valid /\ gate.stage >= FinalApplied /\ gate.mgr # 0
      /\ authority.mgr \in {0, native.mgr}
      /\ commit.pc = "reconcile" /\ authority.mgr # 0 =>
           authority.gen = commit.gen /\ authority.mgr = commit.mgr
  BY DEF GateBound
<1>g. gate'.pgd = 0 \/ UNCHANGED <<gate.gen, gate.mgr, gate.pgd, gate.reg>>
  BY GateSteps
<1>1. ~(GateLive' /\ gate'.gen = gen)
  <2>1. CASE gate'.pgd = 0
    BY <2>1 DEF GateLive
  <2>2. CASE ~Marks
    BY <2>2, <1>o, OnlyMarkRevives
  <2>q. QED
    BY <2>1, <2>2
<1>2. ASSUME ctl'.pc = "arm", ctl'.nonce = nonce, ctl'.gen = gen, GateFinalForDelivery'
      PROVE  FALSE
  <2>f. /\ gate'.pgd # 0 /\ gate'.pgd = ctl'.pgd /\ ctl'.mgr # 0 /\ gate'.mgr = ctl'.mgr
        /\ ctl'.reg # 0 /\ gate'.reg = ctl'.reg /\ gate'.gen = ctl'.gen
    BY <1>2 DEF GateFinalForDelivery
  <2>g. UNCHANGED <<gate.gen, gate.mgr, gate.pgd, gate.reg>>
    BY <1>g, <2>f
  <2>1. CASE UNCHANGED ctl
    <3>1. GateFinalForDelivery
      BY <2>1, <2>f, <2>g, <1>b DEF GateFinalForDelivery
    <3>q. QED
      BY <2>1, <1>2, <3>1, <1>o
  <2>2. CASE /\ ctl'.gen = probe.gen /\ ctl'.pgd = native.pgd /\ ctl'.reg = LiveReg
             /\ ctl'.mgr = IF authority.gen = probe.gen THEN authority.mgr ELSE 0
    <3>1. gate.pgd = native.pgd /\ gate.reg = LiveReg /\ gate.gen = gen
      BY <1>2, <2>2, <2>f, <2>g
    <3>2. authority.mgr = gate.mgr /\ authority.gen = gate.gen /\ authority.mgr # 0
      BY <2>2, <2>f, <2>g
    <3>3. GateLive
      BY <3>1, <3>2, <2>f, <2>g, <1>b DEF GateLive
    <3>q. QED
      BY <3>1, <3>3, <1>o
  <2>q. QED
    BY <1>2, <2>1, <2>2, DeliverySteps
<1>q. QED
  BY <1>1, <1>2 DEF StillOpen

\* What a step makes of the ticket, as far as an open ticket is concerned.
LEMMA TicketSteps ==
  ASSUME TypeOK, Ownership, OpenTicket, Next
  PROVE  \/ ticket' = NoTicket
         \/ /\ ArmTicket /\ probe.nonce = ctl.nonce /\ ctl'.pc = "idle"
            /\ UNCHANGED <<gate, native, world, commit, history>>
            /\ ~ticket'.applying /\ ~ticket'.failed
            /\ ticket'.nonce = ctl.nonce /\ ticket'.gen = ctl.gen
            /\ ticket'.final <=> GateFinalForDelivery
         \/ /\ ticket'.valid = ticket.valid /\ ticket'.nonce = ticket.nonce
            /\ ticket'.gen = ticket.gen
            /\ ticket'.applying /\ ~ticket.applying => ~ticket.final /\ ~ticket.failed
            /\ ticket'.applying => ticket'.final = ticket.final
                                   /\ ticket'.failed = ticket.failed
            /\ ~ticket'.final => ~ticket.final
            /\ ticket'.final /\ ~ticket.final => ticket.applying /\ ~ticket'.failed
            /\ ticket'.failed /\ ~ticket.failed =>
                 \/ ~ticket.final /\ ~ticket'.final
                 \/ main.pc = "mismatch" /\ SameIdentity(ticket)
<1> DEFINE Kept ==
      /\ ticket'.valid = ticket.valid /\ ticket'.nonce = ticket.nonce
      /\ ticket'.gen = ticket.gen
      /\ ticket'.applying /\ ~ticket.applying => ~ticket.final /\ ~ticket.failed
      /\ ticket'.applying => ticket'.final = ticket.final
                             /\ ticket'.failed = ticket.failed
      /\ ~ticket'.final => ~ticket.final
      /\ ticket'.final /\ ~ticket.final => ticket.applying /\ ~ticket'.failed
      /\ ticket'.failed /\ ~ticket.failed =>
           \/ ~ticket.final /\ ~ticket'.final
           \/ main.pc = "mismatch" /\ SameIdentity(ticket)
<1>o. ticket.applying => ~ticket.final /\ ~ticket.failed
  BY DEF OpenTicket
<1>t. ticket \in TicketRecords
  BY DEF TypeOK
<1>s. CASE UNCHANGED ticket
  BY <1>s
<1>c. CASE CancelOrClearTicket
  <2>1. CASE ticket' = [ticket EXCEPT !.cancel = TRUE]
    <3>1. Kept
      BY <2>1, <1>t DEF TicketRecords
    <3>q. QED
      BY <3>1
  <2>q. QED
    BY <1>c, <2>1 DEF CancelOrClearTicket, ClearTicket
<1>1. CASE ArmTicket
  <2>1. CASE UNCHANGED ticket
    BY <2>1
  <2>2. CASE ~UNCHANGED ticket
    <3> DEFINE installed == [NoTicket EXCEPT !.valid = TRUE, !.nonce = ctl.nonce,
                               !.gen = ctl.gen, !.mgr = ctl.mgr, !.rev = ctl.rev]
    <3>1. /\ probe.nonce = ctl.nonce
          /\ GateFinalForDelivery =>
               ticket' = [installed EXCEPT !.applied = TRUE, !.final = TRUE,
                                           !.pgd = gate.pgd]
          /\ ~GateFinalForDelivery => ticket' = installed
          /\ ctl' = Idle /\ UNCHANGED <<gate, native, world, commit, history>>
      BY <1>1, <2>2 DEF ArmTicket
    <3>2. /\ ~ticket'.applying /\ ~ticket'.failed
          /\ ticket'.nonce = ctl.nonce /\ ticket'.gen = ctl.gen
      BY <3>1 DEF NoTicket
    <3>3. ticket'.final <=> GateFinalForDelivery
      BY <3>1 DEF NoTicket
    <3>4. ctl'.pc = "idle"
      BY <3>1 DEF Idle
    <3> HIDE DEF installed
    <3>q. QED
      BY <1>1, <3>1, <3>2, <3>3, <3>4
  <2>q. QED
    BY <2>1, <2>2
<1>2. CASE CheckTicket \/ Reconcile
  <2>1. ASSUME NEW pgd, ticket' = [ticket EXCEPT !.readyPgd = pgd]
        PROVE  Kept
    BY <2>1, <1>t DEF TicketRecords
  <2>2. ASSUME NEW mgr, ticket' = [ticket EXCEPT !.mgr = mgr]
        PROVE  Kept
    BY <2>2, <1>t DEF TicketRecords
  <2>q. QED
    BY <1>2, <2>1, <2>2, <1>s, <1>c DEF CheckTicket, Reconcile
<1>3. CASE ClaimTicket
  <2>1. CASE /\ ~ticket.final /\ ~ticket.failed
             /\ ticket' = [ticket EXCEPT !.applying = TRUE]
    <3>1. Kept
      BY <2>1, <1>t DEF TicketRecords
    <3>q. QED
      BY <3>1
  <2>q. QED
    BY <1>3, <2>1, <1>s DEF ClaimTicket
<1>4. CASE SettleTicket
  <2>1. CASE ClearTicket
    BY <2>1 DEF ClearTicket
  <2>2. CASE /\ ticket.applying
             /\ \/ ticket' = [ticket EXCEPT !.applying = FALSE, !.final = TRUE,
                                            !.pgd = main.pgd]
                \/ ticket' = [ticket EXCEPT !.applying = FALSE, !.applied = TRUE]
    <3>1. Kept
      BY <2>2, <1>o, <1>t DEF TicketRecords
    <3>q. QED
      BY <3>1
  <2>q. QED
    BY <1>4, <2>1, <2>2, <1>s DEF SettleTicket
<1>5. CASE FailTicket
  <2>1. CASE ClearTicket
    BY <2>1 DEF ClearTicket
  <2>2. CASE SameIdentity(ticket) /\ ticket' = Failed(ticket)
    <3>1. main.pc = "mismatch" \/ ticket.applying
      BY <1>5 DEF FailTicket, Ownership, ReplayOwnsTicket, InReplay
    <3>2. Kept
      BY <2>2, <3>1, <1>o, <1>t DEF Failed, TicketRecords
    <3>q. QED
      BY <3>2
  <2>q. QED
    BY <1>5, <2>1, <2>2, <1>s DEF FailTicket
<1>6. CASE ExpireWindow
  <2>1. CASE ExpiryDue /\ ticket' = Expired(ticket)
    <3>1. Kept
      BY <2>1, <1>t DEF ExpiryDue, Expired, TicketRecords
    <3>q. QED
      BY <3>1
  <2>q. QED
    BY <1>6, <2>1, <1>s DEF ExpireWindow
<1>7. CASE MainStep /\ ~CheckTicket /\ ~ClaimTicket /\ ~SettleTicket /\ ~FailTicket
           /\ ~ExpireWindow
  <2>1. UNCHANGED ticket
    BY <1>7 DEF MainStep, TryApply, BeginFrame, PublishCandidate, SkipCommit,
       DropCandidate, CommitAuthority, ReadProbe, RunCodec, RecheckEffects,
       RaiseGate, FinishWindow, BeginCapture, StoreCapture, EndNative
  <2>q. QED
    BY <2>1, <1>s
<1>8. CASE ~MainStep /\ ~ArmTicket /\ ~Reconcile
  <2>1. UNCHANGED ticket \/ CancelOrClearTicket
    BY <1>8 DEF Next, NativeEvent, NewPlayerGameData, NewManager, RetireManager,
       RegisterWorld, UnloadWorld, HandOff, GuestCandidate, CommitStep, RearmGate,
       ClearMovedTicket, CtlStep, ReadForGate, ArmGateForResponse, DropGate,
       DropTicket, CompleteAdmission, CompleteGate, CtlBegin, ReceiveDelivery,
       Authorize, Terminate, RearmByLifetime, CheckCompletion, DropCandidate,
       CommitAuthority, ArmProbe, LosePeer, ResetLostProbe, Elapse
  <2>q. QED
    BY <2>1, <1>s, <1>c
<1>q. QED
  BY <1>1, <1>2, <1>3, <1>4, <1>5, <1>6, <1>7, <1>8

\* Every step keeps open what is to be replayed.
LEMMA NextOpenTicket ==
  ASSUME TypeOK, Ownership, FinalOnce, Reached, GateBound, DeliveryInv, OpenTicket, Next
  PROVE  OpenTicket'
<1>n. NoTicket.valid = FALSE /\ NoTicket.final = FALSE /\ NoTicket.failed = FALSE
      /\ NoTicket.applying = FALSE
  BY DEF NoTicket
<1>o. /\ ticket.applying => ~ticket.final /\ ~ticket.failed
      /\ ~(ticket.final /\ ticket.failed)
      /\ ticket.valid /\ ~ticket.final /\ ticket.nonce \notin history.finals
           => StillOpen(ticket.nonce, ticket.gen)
      /\ main.pc \in {"claim", "mismatch"} =>
           /\ StillOpen(main.nonce, main.gen)
           /\ ticket.valid /\ ticket.nonce = main.nonce /\ ticket.gen = main.gen
                => ~ticket.final
  BY DEF OpenTicket
<1>f. history.finals \subseteq history'.finals
  <2>1. CASE history.nonces = 0
    BY <2>1 DEF FinalOnce
  <2>2. CASE history.nonces # 0
    <3>1. history.nonces \in 1..history.nonces
      BY <2>2, BoundsAssumption DEF TypeOK, HistoryRecords, Nonces
    <3>q. QED
      BY <3>1, NonceSteps
  <2>q. QED
    BY <2>1, <2>2
<1>m. ticket.valid /\ ~ticket.final => ~Marks
  BY DEF Marks
<1> DEFINE Kept ==
      /\ ticket'.valid = ticket.valid /\ ticket'.nonce = ticket.nonce
      /\ ticket'.gen = ticket.gen
      /\ ticket'.applying /\ ~ticket.applying => ~ticket.final /\ ~ticket.failed
      /\ ticket'.applying => ticket'.final = ticket.final
                             /\ ticket'.failed = ticket.failed
      /\ ~ticket'.final => ~ticket.final
      /\ ticket'.final /\ ~ticket.final => ticket.applying /\ ~ticket'.failed
      /\ ticket'.failed /\ ~ticket.failed =>
           \/ ~ticket.final /\ ~ticket'.final
           \/ main.pc = "mismatch" /\ SameIdentity(ticket)
    Armed ==
      /\ ArmTicket /\ probe.nonce = ctl.nonce /\ ctl'.pc = "idle"
      /\ UNCHANGED <<gate, native, world, commit, history>>
      /\ ~ticket'.applying /\ ~ticket'.failed
      /\ ticket'.nonce = ctl.nonce /\ ticket'.gen = ctl.gen
      /\ ticket'.final <=> GateFinalForDelivery
<1>k. ticket' = NoTicket \/ Armed \/ Kept
  BY TicketSteps
<1> HIDE DEF Kept, Armed
<1>1. ticket'.applying => ~ticket'.final /\ ~ticket'.failed
  <2>1. CASE Kept
    BY <2>1, <1>o DEF Kept
  <2>2. CASE Armed
    BY <2>2 DEF Armed
  <2>q. QED
    BY <1>k, <1>n, <2>1, <2>2
<1>i. main.pc = "mismatch" /\ SameIdentity(ticket) => ~ticket.final
  BY <1>o DEF SameIdentity
<1>2. ~(ticket'.final /\ ticket'.failed)
  <2>1. CASE Kept
    BY <2>1, <1>o, <1>i DEF Kept
  <2>2. CASE Armed
    BY <2>2 DEF Armed
  <2>q. QED
    BY <1>k, <1>n, <2>1, <2>2
<1>3. ASSUME ticket'.valid, ~ticket'.final, ticket'.nonce \notin history'.finals
      PROVE  StillOpen(ticket.nonce, ticket.gen)' \/ Armed
  <2>1. CASE Kept
    <3>1. StillOpen(ticket.nonce, ticket.gen) /\ ~Marks
      BY <2>1, <1>3, <1>o, <1>f, <1>m DEF Kept
    <3>q. QED
      <4>1. PICK n, g : n = ticket.nonce /\ g = ticket.gen
        OBVIOUS
      <4>2. StillOpen(n, g)'
        BY <3>1, <4>1, OpenKept
      <4>3. ticket'.nonce = n /\ ticket'.gen = g
        BY <2>1, <4>1 DEF Kept
      <4>q. QED
        BY <4>2, <4>3 DEF StillOpen
  <2>q. QED
    BY <1>k, <1>n, <1>3, <2>1
<1>4. ASSUME Armed, ~ticket'.final, ticket'.nonce \notin history'.finals
      PROVE  StillOpen(ticket.nonce, ticket.gen)'
  <2>1. /\ ctl.pc = "arm" /\ ctl.nonce = probe.nonce /\ ctl.nonce \notin history.finals
        /\ ~GateFinalForDelivery /\ ctl'.pc = "idle"
        /\ UNCHANGED <<gate, native, world, commit>> /\ ticket'.gen = ctl.gen
    BY <1>4 DEF Armed, ArmTicket
  <2>2. ~(GateLive /\ gate.gen = ctl.gen)
    BY <2>1 DEF DeliveryInv
  <2>3. ~(GateLive' /\ gate'.gen = ticket'.gen)
    BY <2>1, <2>2 DEF GateLive, LiveReg
  <2>q. QED
    BY <2>1, <2>3 DEF StillOpen
<1>5. ASSUME main'.pc \in {"claim", "mismatch"}
      PROVE  /\ StillOpen(main.nonce, main.gen)'
             /\ ticket'.valid /\ ticket'.nonce = main'.nonce /\ ticket'.gen = main'.gen
                  => ~ticket'.final
  <2>1. CASE CheckTicket
    <3>1. ~Return
      BY <1>5, MainFields DEF TypeOK
    <3>2. /\ Claimable(IF main.post THEN FinalTarget(main.gen) ELSE Target(main.gen))
          /\ UNCHANGED <<ticket, gate, native, world, commit, ctl, history>>
      BY <2>1, <3>1 DEF CheckTicket
    <3>3. /\ ticket.valid /\ ticket.nonce = main.nonce /\ ticket.gen = main.gen
          /\ ~ticket.final
      BY <3>2 DEF Claimable, TicketMatches, SameAttempt
    <3>4. main.pc = "check"
      BY <2>1 DEF CheckTicket
    <3>5. main'.nonce = main.nonce /\ main'.gen = main.gen
      <4>1. ~ReadProbe
        BY <3>4 DEF ReadProbe
      <4>q. QED
        BY <1>5, <4>1, PassSteps DEF TryPCs
    <3>6. main.nonce \notin history.finals
      BY <3>4 DEF FinalOnce, TryPCs
    <3>7. StillOpen(main.nonce, main.gen)
      BY <3>3, <3>6, <1>o
    <3>8. ~Marks
      BY <3>3, <1>m
    <3>q. QED
      <4>1. PICK n, g : n = main.nonce /\ g = main.gen
        OBVIOUS
      <4>2. StillOpen(n, g)'
        BY <3>7, <3>8, <4>1, OpenKept
      <4>3. StillOpen(main.nonce, main.gen)'
        BY <4>1, <4>2, <3>5 DEF StillOpen
      <4>q. QED
        BY <4>3, <3>2, <3>3
  <2>2. CASE UNCHANGED main
    <3>1. /\ StillOpen(main.nonce, main.gen)
          /\ ticket.valid /\ ticket.nonce = main.nonce /\ ticket.gen = main.gen
               => ~ticket.final
      BY <2>2, <1>5, <1>o
    <3>2. ~Marks
      BY <2>2, <1>5 DEF Marks, RaiseGate
    <3>3. PICK n, g : n = main.nonce /\ g = main.gen
      OBVIOUS
    <3>4. StillOpen(n, g)'
      BY <3>1, <3>2, <3>3, OpenKept
    <3>5. StillOpen(main.nonce, main.gen)'
      BY <3>3, <3>4, <2>2 DEF StillOpen
    <3>6. ASSUME ticket'.valid, ticket'.nonce = main.nonce, ticket'.gen = main.gen
          PROVE  ~ticket'.final
      <4>1. CASE Kept
        <5>1. ~ticket.applying
          BY <2>2, <1>5 DEF Ownership, ReplayOwnsTicket, InReplay
        <5>q. QED
          BY <4>1, <5>1, <3>1, <3>6 DEF Kept
      <4>2. CASE Armed
        <5>1. ctl.pc = "arm" /\ ctl.nonce = main.nonce /\ ctl.gen = main.gen
          BY <4>2, <3>6 DEF Armed, ArmTicket
        <5>2. ~GateFinalForDelivery
          BY <5>1, <3>1 DEF StillOpen
        <5>q. QED
          BY <4>2, <5>2 DEF Armed
      <4>q. QED
        BY <1>k, <1>n, <4>1, <4>2
    <3>q. QED
      BY <2>2, <3>5, <3>6
  <2>q. QED
    BY <1>5, <2>1, <2>2, PassSteps
<1>q. QED
  BY <1>1, <1>2, <1>3, <1>4, <1>5 DEF OpenTicket

\* The initial state satisfies the strengthening.
LEMMA InitOneInv == Init => OneInv
<1> SUFFICES ASSUME Init PROVE OneInv
  OBVIOUS
<1>1. Reached
  BY DEF Init, Reached, NoGate, NoTicket, FrameStart, NoCommit, Idle, NoCandidate
<1>2. GateBound
  BY DEF Init, GateBound, GateLive, NoAuthority, NoCommit, NoGate, FrameStart
<1>3. DeliveryInv
  BY DEF Init, DeliveryInv, Idle
<1>4. OpenTicket
  BY DEF Init, OpenTicket, NoTicket, FrameStart
<1>q. QED
  BY <1>1, <1>2, <1>3, <1>4 DEF OneInv

\* Every step keeps the strengthening.
LEMMA NextOneInv == ASSUME IInv, OneInv, [Next]_vars PROVE OneInv'
<1>1. CASE Next
  <2>1. TypeOK /\ Ownership /\ FinalOnce /\ Reached /\ GateBound /\ DeliveryInv /\ OpenTicket
    BY DEF IInv, OneInv
  <2>2. Reached' /\ GateBound'
    BY <1>1, <2>1, NextReached, NextGateBound
  <2>3. DeliveryInv' /\ OpenTicket'
    BY <1>1, <2>1, NextDelivery, NextOpenTicket
  <2>q. QED
    BY <2>2, <2>3 DEF OneInv
<1>2. CASE UNCHANGED vars
  <2> USE <1>2 DEF OneInv, vars, GateLive, LiveReg
  <2>1. Reached'
    BY DEF Reached
  <2>2. GateBound'
    BY DEF GateBound
  <2>3. DeliveryInv'
    BY DEF DeliveryInv, ReadNow, GateFinalForDelivery
  <2>4. OpenTicket'
    BY DEF OpenTicket, StillOpen, GateFinalForDelivery
  <2>q. QED
    BY <2>1, <2>2, <2>3, <2>4
<1>q. QED
  BY <1>1, <1>2

\* A restore window is expired or finished, never both, and a final copy is never
\* declared failed (MarkBhrcFullPgdRestoreFailed), even when the ticket of a
\* version mismatch is withdrawn and delivered again before it is marked.
THEOREM OutcomeIsOne == Spec => []OneOutcome
<1>1. OneInv /\ IInv /\ [Next]_vars => OneInv'
  BY NextOneInv
<1>2. IInv /\ OneInv => OneOutcome
  BY DEF IInv, WindowOpen, OneInv, OpenTicket, OneOutcome
<1>q. QED
  BY <1>1, <1>2, InitOneInv, Invariance, PTL DEF Spec
=============================================================================
