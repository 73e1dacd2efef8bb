------------------------- MODULE HostAdmissionProofs -------------------------
(***************************************************************************)
(* What the host's admission of returning members keeps, for every number  *)
(* of members, every capacity and every value of the bounds: types and     *)
(* capacities, one attempt per member, no attempt that comes back from the *)
(* dead, no release before the status, an owner for every pin, one         *)
(* revision per attempt, and, two races aside (CalmStep), no release       *)
(* missed.                                                                 *)
(*                                                                         *)
(* The inductive invariant has one part per variable (types), and then one *)
(* part per property; each part only rests on the parts before it.         *)
(***************************************************************************)
EXTENDS HostAdmission, FiniteSetTheorems, WellFoundedInduction, TLAPS

-----------------------------------------------------------------------------
(* Types, one part per variable. *)

Histories == [lost : [Peers -> Serials], forgotten : SUBSET Serials,
              consumed : SUBSET [peer : 0..MaxPeer, nonce : Nonces, gen : Gens],
              offered : SUBSET [peer : 0..MaxPeer, nonce : Nonces, gen : Gens,
                                event : {"owner", "ready"}],
              delivered : SUBSET PinRecords]

CtlRecords == [pc : {"idle", "reserve", "pin", "repin", "install", "reinstall",
                     "respond", "commit", "lost", "dropprev", "dropslots", "deliver",
                     "copy", "undo", "undopins", "xpins", "xslots", "store"},
               place : Places, me : AttemptRecords, prev : AttemptRecords,
               rev : Revs, late : SUBSET AttemptRecords]

SlotRecords == [peer : 0..MaxPeer, nonce : Nonces, gen : Gens, consumed : BOOLEAN]

GameRecords == [pc : {"idle", "take", "mark"}, peer : 0..MaxPeer, nonce : Nonces,
                gen : Gens]

LoseRecords == [pc : {"idle", "slots", "pins"}, peer : 0..MaxPeer,
                left : SUBSET Peers]

WorkRecords == [pc : {"idle", "capture", "spread", "look", "cache", "send",
                      "refresh"},
                peer : 0..MaxPeer, to : SUBSET AddresseeRecords,
                load : SUBSET Payloads]

AuthorityRecords == [gen : Gens, last : Gens, running : BOOLEAN]

ClientRecords == [nonce : Nonces, told : Gens, sent : BOOLEAN]

ClearSteps == {"none", "attempts", "slots", "cache", "pins"}

\* Every attempt in the table is a member's.
AttemptsOK == /\ attempts \in [Places -> AttemptRecords]
              /\ \A i \in Live : attempts[i].peer \in Peers

PinSetOK  == pins \subseteq PinRecords /\ IsFiniteSet(pins) /\ Cardinality(pins) <= PinCap
SlotSetOK == slots \subseteq SlotRecords /\ IsFiniteSet(slots)
             /\ Cardinality(slots) <= SlotCap

\* A request that is about to reserve has a serial left and no attempt yet; an
\* earlier attempt it has replaced was a member's.
CtlOK == /\ ctl \in CtlRecords
         /\ ctl.prev.serial # 0 => ctl.prev.peer \in Peers
         /\ ctl.pc = "reserve" =>
              /\ ctl.me.serial = 0 /\ ctl.me.peer \in Peers
              /\ ctl.me.rev = 0 /\ ~ctl.me.status /\ ~ctl.me.expired
              /\ counter < MaxSerial

SharedOK == /\ cache \subseteq Payloads
            /\ authority \in AuthorityRecords
            /\ hot \in [Peers -> Revs]
            /\ client \in [Peers -> ClientRecords]

ThreadsOK == /\ game \in GameRecords
             /\ clear \in [Threads -> ClearSteps]
             /\ lose \in LoseRecords
             /\ work \in [Senders -> WorkRecords]

HistoryOK == history \in Histories /\ counter \in Serials

TypeInv == /\ AttemptsOK /\ PinSetOK /\ SlotSetOK /\ CtlOK /\ SharedOK
           /\ ThreadsOK /\ HistoryOK

\* The parts together are the type invariant of the runs.
LEMMA TypeInvIsTypeOK == TypeInv => TypeOK
BY DEF TypeInv, AttemptsOK, PinSetOK, SlotSetOK, CtlOK, SharedOK, ThreadsOK, HistoryOK,
       TypeOK, Histories, CtlRecords, SlotRecords, GameRecords, LoseRecords,
       WorkRecords, AuthorityRecords, ClientRecords, ClearSteps

-----------------------------------------------------------------------------
(* Operators. *)

\* A set of naturals that is not empty has a least member, and Least is it.
LEMMA LeastFacts ==
    ASSUME NEW S \in SUBSET Nat, S # {}
    PROVE  Least(S) \in S /\ \A j \in S : Least(S) <= j
<1>1. \E i \in S : \A j \in S : ~ (<<j, i>> \in OpToRel(<, Nat))
  BY NatLessThanWellFounded, WFMin
<1>2. PICK i \in S : \A j \in S : ~ (<<j, i>> \in OpToRel(<, Nat))
  BY <1>1
<1>3. \A j \in S : ~ (j < i)
  <2>1. SUFFICES ASSUME NEW j \in S, j < i
                 PROVE  <<j, i>> \in OpToRel(<, Nat)
    BY <1>2
  <2>q. QED
    BY <2>1 DEF OpToRel
<1>4. \A j \in S : i <= j
  BY <1>3
<1>q. QED
  BY <1>4 DEF Least

\* A set of naturals below a bound has a greatest member if it has any.
LEMMA GreatestExists ==
    ASSUME NEW top \in Nat, NEW S \in SUBSET (0..top), S # {}
    PROVE  \E n \in S : \A m \in S : m <= n
<1>1. \E d \in {top - s : s \in S} : \A e \in {top - s : s \in S} : d <= e
  <2>1. PICK s \in S : TRUE
    OBVIOUS
  <2>2. top - s \in {top - x : x \in S}
    BY <2>1
  <2>3. \A x \in S : top - x \in Nat
    OBVIOUS
  <2>4. {top - x : x \in S} \in SUBSET Nat /\ {top - x : x \in S} # {}
    BY <2>2, <2>3
  <2>q. QED
    BY <2>4, LeastFacts
<1>2. PICK n \in S : \A m \in S : top - n <= top - m
  BY <1>1
<1>q. QED
  BY <1>2

\* A set below its capacity has room for one more.
LEMMA RoomForOne ==
    ASSUME NEW S, IsFiniteSet(S), NEW cap \in Nat, Cardinality(S) < cap, NEW x
    PROVE  IsFiniteSet(S \cup {x}) /\ Cardinality(S \cup {x}) <= cap
<1>1. Cardinality(S) \in Nat
  BY FS_CardinalityType
<1>2. /\ IsFiniteSet(S \cup {x})
      /\ Cardinality(S \cup {x}) = IF x \in S THEN Cardinality(S) ELSE Cardinality(S) + 1
  BY FS_AddElement
<1>q. QED
  BY <1>1, <1>2

\* A smaller set takes no more room.
LEMMA NoMoreRoom ==
    ASSUME NEW S, IsFiniteSet(S), NEW cap \in Nat, Cardinality(S) <= cap, NEW T \in SUBSET S
    PROVE  IsFiniteSet(T) /\ Cardinality(T) <= cap /\ (T # S => Cardinality(T) < cap)
<1>1. Cardinality(S) \in Nat
  BY FS_CardinalityType
<1>2. /\ IsFiniteSet(T) /\ Cardinality(T) <= Cardinality(S)
      /\ (Cardinality(S) = Cardinality(T) => S = T)
  BY FS_Subset
<1>3. Cardinality(T) \in Nat
  BY <1>2, FS_CardinalityType
<1>q. QED
  BY <1>1, <1>2, <1>3

\* The serials that decide what a peer has lost when `ended' are over.
EndedSerials(p, ended) == {history.lost[p]} \cup {a.serial : a \in {b \in ended : b.peer = p}}

\* Ending attempts raises what their peers have lost, to the newest of them, and
\* changes nothing else of the history.
LEMMA OverFacts ==
    ASSUME HistoryOK, NEW ended \in SUBSET AttemptRecords, NEW h, h = Over(ended)
    PROVE  /\ h \in Histories
           /\ h.consumed = history.consumed /\ h.offered = history.offered
           /\ h.delivered = history.delivered /\ h.forgotten = history.forgotten
           /\ \A p \in Peers : h.lost[p] \in EndedSerials(p, ended)
           /\ \A p \in Peers : h.lost[p] >= history.lost[p]
           /\ \A b \in ended : b.peer \in Peers => h.lost[b.peer] >= b.serial
<1> DEFINE top(p) == CHOOSE n \in EndedSerials(p, ended) :
                       \A m \in EndedSerials(p, ended) : m <= n
<1>1. h = [history EXCEPT !.lost = [p \in Peers |-> top(p)]]
  BY DEF Over, EndedSerials
<1>2. ASSUME NEW p \in Peers
      PROVE  /\ top(p) \in EndedSerials(p, ended) /\ top(p) \in Serials
             /\ \A m \in EndedSerials(p, ended) : m <= top(p)
  <2>1. EndedSerials(p, ended) \in SUBSET (0..MaxSerial) /\ EndedSerials(p, ended) # {}
    BY DEF EndedSerials, HistoryOK, Histories, Serials, AttemptRecords
  <2>2. \E n \in EndedSerials(p, ended) : \A m \in EndedSerials(p, ended) : m <= n
    BY <2>1, GreatestExists, BoundsAssumption
  <2>q. QED
    BY <2>1, <2>2 DEF Serials
<1> HIDE DEF top
<1>3. [p \in Peers |-> top(p)] \in [Peers -> Serials]
  BY <1>2
<1>4. h \in Histories /\ h.lost = [p \in Peers |-> top(p)]
      /\ h.consumed = history.consumed /\ h.offered = history.offered
      /\ h.delivered = history.delivered /\ h.forgotten = history.forgotten
  BY <1>1, <1>3 DEF HistoryOK, Histories
<1>5. \A p \in Peers : h.lost[p] = top(p)
  BY <1>4
<1>6. \A b \in ended : b.serial \in EndedSerials(b.peer, ended)
  BY DEF EndedSerials
<1>7. \A p \in Peers : history.lost[p] \in EndedSerials(p, ended)
  BY DEF EndedSerials
<1>q. QED
  BY <1>2, <1>4, <1>5, <1>6, <1>7

-----------------------------------------------------------------------------
(* Type correctness, one lemma per group of actions. *)

\* What a step leaves alone keeps its type.
LEMMA Untouched ==
    ASSUME TypeInv
    PROVE  /\ UNCHANGED attempts => AttemptsOK'
           /\ UNCHANGED pins => PinSetOK'
           /\ UNCHANGED slots => SlotSetOK'
           /\ UNCHANGED <<ctl, counter>> => CtlOK'
           /\ UNCHANGED <<cache, authority, hot, client>> => SharedOK'
           /\ UNCHANGED <<game, clear, lose, work>> => ThreadsOK'
           /\ UNCHANGED <<history, counter>> => HistoryOK'
BY DEF TypeInv, AttemptsOK, PinSetOK, SlotSetOK, CtlOK, SharedOK, ThreadsOK, HistoryOK,
       Live

\* Members, places, and the empty records.
LEMMA Defaults ==
    /\ NoAttempt \in AttemptRecords /\ NoAttempt.serial = 0 /\ NoAttempt.peer = 0
    /\ CtlIdle \in CtlRecords /\ CtlIdle.pc = "idle" /\ CtlIdle.prev = NoAttempt
    /\ GameIdle \in GameRecords /\ LoseIdle \in LoseRecords /\ WorkIdle \in WorkRecords
    /\ Peers \subseteq 0..MaxPeer /\ 0 \notin Peers /\ Places \subseteq Nat /\ Peers \subseteq Nat
<1>1. NoAttempt \in AttemptRecords /\ NoAttempt.serial = 0 /\ NoAttempt.peer = 0
  BY BoundsAssumption DEF NoAttempt, AttemptRecords, Serials, Nonces, Gens, Revs
<1>2. 1 \in Places
  BY BoundsAssumption DEF Places
<1>3. CtlIdle \in CtlRecords /\ CtlIdle.pc = "idle" /\ CtlIdle.prev = NoAttempt
  BY <1>1, <1>2, BoundsAssumption DEF CtlIdle, CtlRecords, Revs
<1>4. GameIdle \in GameRecords /\ LoseIdle \in LoseRecords /\ WorkIdle \in WorkRecords
  BY BoundsAssumption DEF GameIdle, LoseIdle, WorkIdle, GameRecords, LoseRecords,
     WorkRecords, Nonces, Gens
<1>5. Peers \subseteq 0..MaxPeer /\ 0 \notin Peers /\ Places \subseteq Nat /\ Peers \subseteq Nat
  BY BoundsAssumption DEF Peers, Places
<1>q. QED
  BY <1>1, <1>3, <1>4, <1>5

LEMMA TypeInit == Init => TypeInv
<1> SUFFICES ASSUME Init PROVE TypeInv
  OBVIOUS
<1>1. AttemptsOK
  BY Defaults DEF Init, AttemptsOK, Live
<1>2. PinSetOK /\ SlotSetOK
  BY FS_EmptySet, BoundsAssumption DEF Init, PinSetOK, SlotSetOK, PinCap
<1>3. CtlOK /\ ThreadsOK
  BY Defaults DEF Init, CtlOK, ThreadsOK, ClearSteps
<1>4. SharedOK /\ HistoryOK
  BY BoundsAssumption DEF Init, SharedOK, HistoryOK, AuthorityRecords, ClientRecords,
     Gens, Nonces, Revs, Histories, Serials
<1>q. QED
  BY <1>1, <1>2, <1>3, <1>4 DEF TypeInv

\* A reservation takes a place of the table, and a retry's inheritance keeps
\* type, peer and serial.
LEMMA PlaceFacts ==
    ASSUME AttemptsOK, NEW p \in Peers, Mine(p) \cup Usable # {}
    PROVE  /\ PlaceFor(p) \in Places
           /\ Mine(p) # {} => PlaceFor(p) \in Mine(p)
           /\ Mine(p) = {} => PlaceFor(p) \in Usable
<1>1. Mine(p) \in SUBSET Nat /\ Usable \in SUBSET Nat /\ Mine(p) \subseteq Places
      /\ Usable \subseteq Places
  BY Defaults DEF Mine, Live, Usable
<1>2. Mine(p) # {} => Least(Mine(p)) \in Mine(p)
  BY <1>1, LeastFacts
<1>3. Usable # {} => Least(Usable) \in Usable
  BY <1>1, LeastFacts
<1>q. QED
  BY <1>1, <1>2, <1>3 DEF PlaceFor

LEMMA InheritFacts ==
    ASSUME NEW prev \in AttemptRecords, NEW next \in AttemptRecords,
           NEW got, got = Inherit(prev, next)
    PROVE  /\ got \in AttemptRecords
           /\ got.serial = next.serial /\ got.peer = next.peer /\ Tuple(got) = Tuple(next)
           /\ SameTuple(prev, next) =>
                got.status = prev.status /\ got.rev = prev.rev
           /\ ~SameTuple(prev, next) => got = next
<1>1. CASE SameTuple(prev, next)
  <2>1. PICK r \in AttemptRecords : r = [next EXCEPT !.status = prev.status,
                                           !.sent = prev.sent, !.rev = prev.rev]
    BY DEF AttemptRecords
  <2>2. got = r
    BY <1>1, <2>1 DEF Inherit
  <2>q. QED
    BY <1>1, <2>1, <2>2 DEF AttemptRecords, Tuple
<1>2. CASE ~SameTuple(prev, next)
  BY <1>2 DEF Inherit
<1>q. QED
  BY <1>1, <1>2

\* The request of a member, up to the answer.
LEMMA TypeRequest == TypeInv /\ RequestStep => TypeInv'
<1> SUFFICES ASSUME TypeInv, RequestStep PROVE TypeInv'
  OBVIOUS
<1>t. /\ AttemptsOK /\ PinSetOK /\ SlotSetOK /\ CtlOK /\ SharedOK /\ ThreadsOK /\ HistoryOK
  BY DEF TypeInv
<1>1. ASSUME NEW p \in Peers, Ask(p) PROVE TypeInv'
  <2>1. PICK a \in AttemptRecords :
          a = [NoAttempt EXCEPT !.peer = p, !.nonce = client[p].nonce, !.gen = authority.gen]
    BY <1>t, Defaults DEF AttemptRecords, SharedOK, ClientRecords, AuthorityRecords
  <2>2. ctl' = [CtlIdle EXCEPT !.pc = "reserve", !.me = a]
    BY <1>1, <2>1 DEF Ask
  <2>3. a.serial = 0 /\ a.peer = p /\ a.rev = 0 /\ ~a.status /\ ~a.expired
    BY <2>1 DEF NoAttempt
  <2>4. CtlOK'
    BY <1>1, <2>2, <2>3, Defaults DEF CtlOK, CtlRecords, Ask
  <2>q. QED
    BY <1>1, <2>4, Untouched DEF Ask, TypeInv
<1>2. ASSUME Reserve PROVE TypeInv'
  <2>1. CASE Mine(ctl.me.peer) \cup Usable = {}
    <3>1. ctl' = CtlIdle
      BY <1>2, <2>1 DEF Reserve
    <3>2. CtlOK'
      BY <3>1, Defaults DEF CtlOK
    <3>q. QED
      BY <1>2, <2>1, <3>2, Untouched DEF Reserve, TypeInv
  <2>2. CASE Mine(ctl.me.peer) \cup Usable # {}
    <3> DEFINE p == ctl.me.peer
               i == PlaceFor(p)
    <3>1. p \in Peers /\ counter + 1 \in Serials /\ ctl.me \in AttemptRecords
          /\ counter + 1 # 0
      BY <1>2, <1>t, BoundsAssumption DEF CtlOK, CtlRecords, HistoryOK, Serials, Reserve
    <3>2. /\ i \in Places /\ attempts[i] \in AttemptRecords
          /\ attempts[i].serial # 0 => attempts[i].peer \in Peers
      BY <3>1, <2>2, <1>t, PlaceFacts DEF AttemptsOK, Live
    <3>3. PICK new \in AttemptRecords : new = [ctl.me EXCEPT !.serial = counter + 1]
      BY <3>1 DEF AttemptRecords
    <3>4. PICK next : next = Inherit(attempts[i], new)
      OBVIOUS
    <3>5. next \in AttemptRecords /\ next.peer = p /\ next.serial = counter + 1
      BY <3>1, <3>2, <3>3, <3>4, InheritFacts DEF AttemptRecords
    <3>6. /\ attempts' = [attempts EXCEPT ![i] = next] /\ counter' = counter + 1
          /\ ctl' = [CtlIdle EXCEPT !.pc = "pin", !.place = i, !.me = next,
                                    !.prev = attempts[i]]
          /\ history' = Over({attempts[i]} \ {attempts[j] : j \in Mine(p)})
          /\ UNCHANGED <<pins, slots, cache, authority, hot, game, clear, lose, work,
                         client>>
      BY <1>2, <2>2, <3>3, <3>4 DEF Reserve
    <3> HIDE DEF i
    <3>7. AttemptsOK'
      <4>1. attempts' \in [Places -> AttemptRecords]
        BY <1>t, <3>5, <3>6 DEF AttemptsOK
      <4>2. ASSUME NEW j \in Places PROVE attempts'[j] = IF j = i THEN next ELSE attempts[j]
        BY <1>t, <3>6 DEF AttemptsOK
      <4>q. QED
        BY <1>t, <4>1, <4>2, <3>1, <3>5 DEF AttemptsOK, Live
    <3>8. CtlOK'
      BY <3>2, <3>5, <3>6, Defaults DEF CtlOK, CtlRecords
    <3>9. {attempts[i]} \ {attempts[j] : j \in Mine(p)} \in SUBSET AttemptRecords
      BY <3>2
    <3>10. HistoryOK'
      BY <3>1, <3>6, <3>9, <1>t, OverFacts DEF HistoryOK
    <3>q. QED
      BY <3>6, <3>7, <3>8, <3>10, Untouched DEF TypeInv
  <2>q. QED
    BY <2>1, <2>2
<1>3. ASSUME PinRead PROVE TypeInv'
  <2>1. CtlOK'
    <3>1. Pinned \in {"respond", "copy"} /\ NotPinned(ctl.pc) \in {"undo", "idle"}
      BY DEF Pinned, NotPinned
    <3>2. CASE ctl' = [ctl EXCEPT !.pc = NotPinned(@)]
      BY <1>t, <3>1, <3>2 DEF CtlOK, CtlRecords
    <3>3. ASSUME NEW i \in Unexpired(Current(ctl.me.serial)), NEW k \in OwnPins(attempts[i]),
                 ctl' = [ctl EXCEPT !.pc = Pinned, !.rev = k.rev]
          PROVE  CtlOK'
      <4>1. k.rev \in Revs
        BY <3>3, <1>t DEF OwnPins, PinSetOK, PinRecords
      <4>q. QED
        BY <1>t, <3>1, <3>3, <4>1 DEF CtlOK, CtlRecords
    <3>4. ASSUME NEW i \in Unexpired(Current(ctl.me.serial)), NEW r \in Candidates(attempts[i]),
                 ctl' = [ctl EXCEPT !.rev = r,
                              !.pc = IF @ = "pin" THEN "install" ELSE "reinstall"]
          PROVE  CtlOK'
      <4>1. attempts[i] \in AttemptRecords /\ attempts[i].peer \in Peers
        BY <1>t DEF Unexpired, Current, Live, AttemptsOK
      <4>2. r \in Revs
        BY <4>1, <1>t DEF Candidates, SharedOK, AttemptRecords
      <4>q. QED
        BY <1>t, <3>4, <4>2 DEF CtlOK, CtlRecords
    <3>q. QED
      BY <1>3, <3>2, <3>3, <3>4 DEF PinRead
  <2>q. QED
    BY <1>3, <2>1, Untouched DEF PinRead, TypeInv
<1>4. ASSUME PinInstall PROVE TypeInv'
  <2>1. CtlOK'
    <3>1. Pinned \in {"respond", "copy"} /\ NotPinned(ctl.pc) \in {"undo", "idle"}
      BY DEF Pinned, NotPinned
    <3>q. QED
      BY <1>4, <1>t, <3>1 DEF PinInstall, CtlOK, CtlRecords
  <2>2. CASE UNCHANGED <<attempts, pins>>
    BY <1>4, <2>1, <2>2, Untouched DEF PinInstall, TypeInv
  <2>3. ASSUME NEW i \in Unexpired(Current(ctl.me.serial)),
               OwnPins(attempts[i]) # {} \/ Cardinality(pins) < PinCap,
               NEW new, new = [serial |-> ctl.me.serial, peer |-> ctl.me.peer,
                               nonce |-> ctl.me.nonce, gen |-> ctl.me.gen,
                               rev |-> ctl.rev],
               pins' = (pins \ OwnPins(attempts[i])) \cup {new},
               attempts' = [attempts EXCEPT ![i].rev = ctl.rev]
        PROVE  TypeInv'
    <3>1. i \in Places /\ attempts[i] \in AttemptRecords
      BY <1>t DEF Unexpired, Current, Live, AttemptsOK
    <3>2. ctl.rev \in Revs /\ ctl.me \in AttemptRecords
      BY <1>t DEF CtlOK, CtlRecords
    <3>3. PICK a \in AttemptRecords : a = [attempts[i] EXCEPT !.rev = ctl.rev]
      BY <3>1, <3>2 DEF AttemptRecords
    <3>4. attempts' = [attempts EXCEPT ![i] = a] /\ a.serial = attempts[i].serial
          /\ a.peer = attempts[i].peer
      BY <2>3, <3>1, <3>3 DEF AttemptRecords
    <3>5. AttemptsOK'
      <4>1. \A j \in Places : attempts'[j] = IF j = i THEN a ELSE attempts[j]
        BY <1>t, <3>4 DEF AttemptsOK
      <4>q. QED
        BY <1>t, <3>3, <3>4, <4>1 DEF AttemptsOK, Live
    <3>6. PinSetOK'
      <4> DEFINE rest == pins \ OwnPins(attempts[i])
      <4>1. new \in PinRecords
        BY <2>3, <3>2 DEF PinRecords, AttemptRecords
      <4>2. PinCap \in Nat
        BY BoundsAssumption DEF PinCap
      <4>3. rest \in SUBSET pins
        OBVIOUS
      <4>4. OwnPins(attempts[i]) # {} => rest # pins
        BY DEF OwnPins
      <4>5. IsFiniteSet(rest) /\ Cardinality(rest) < PinCap
        BY <2>3, <4>2, <4>3, <4>4, <1>t, NoMoreRoom DEF PinSetOK
      <4> HIDE DEF rest
      <4>6. IsFiniteSet(rest \cup {new}) /\ Cardinality(rest \cup {new}) <= PinCap
        BY <4>2, <4>5, RoomForOne
      <4> USE DEF rest
      <4>q. QED
        BY <2>3, <4>1, <4>6, <1>t DEF PinSetOK
    <3>q. QED
      BY <1>4, <2>1, <3>5, <3>6, Untouched DEF PinInstall, TypeInv
  <2>q. QED
    BY <1>4, <2>2, <2>3 DEF PinInstall
<1>5. ASSUME Respond PROVE TypeInv'
  <2>1. CtlOK'
    BY <1>5, <1>t DEF Respond, CtlOK, CtlRecords
  <2>2. client' \in [Peers -> ClientRecords]
    <3>1. ctl.me.gen \in Gens
      BY <1>t DEF CtlOK, CtlRecords, AttemptRecords
    <3>q. QED
      BY <1>5, <1>t, <3>1 DEF Respond, SharedOK, ClientRecords
  <2>3. SharedOK'
    BY <1>5, <1>t, <2>2 DEF Respond, SharedOK
  <2>q. QED
    BY <1>5, <2>1, <2>3, Untouched DEF Respond, TypeInv
<1>q. QED
  BY <1>1, <1>2, <1>3, <1>4, <1>5 DEF RequestStep

\* Removing pins or slots keeps their types and capacities.
LEMMA Fewer ==
    ASSUME TypeInv
    PROVE  /\ pins' \subseteq pins => PinSetOK'
           /\ slots' \subseteq slots => SlotSetOK'
<1>1. ASSUME pins' \subseteq pins PROVE PinSetOK'
  <2>1. PinCap \in Nat
    BY BoundsAssumption DEF PinCap
  <2>2. IsFiniteSet(pins') /\ Cardinality(pins') <= PinCap
    BY <1>1, <2>1, NoMoreRoom DEF TypeInv, PinSetOK
  <2>q. QED
    BY <1>1, <2>2 DEF TypeInv, PinSetOK
<1>2. ASSUME slots' \subseteq slots PROVE SlotSetOK'
  <2>1. SlotCap \in Nat
    BY BoundsAssumption
  <2>2. IsFiniteSet(slots') /\ Cardinality(slots') <= SlotCap
    BY <1>2, <2>1, NoMoreRoom DEF TypeInv, SlotSetOK
  <2>q. QED
    BY <1>2, <2>2 DEF TypeInv, SlotSetOK
<1>q. QED
  BY <1>1, <1>2

\* Only the place of the control thread moves, and to no new request.
LEMMA CtlMoves ==
    ASSUME TypeInv, NEW to \in {"respond", "dropprev", "lost", "dropslots", "deliver",
                                "undo", "undopins", "repin", "xslots"},
           ctl' = [ctl EXCEPT !.pc = to]
    PROVE  CtlOK'
BY DEF TypeInv, CtlOK, CtlRecords

\* What follows the answer: commit, or rollback.
LEMMA TypeSettle == TypeInv /\ (CommitStep \/ RollbackStep) => TypeInv'
<1> SUFFICES ASSUME TypeInv, CommitStep \/ RollbackStep PROVE TypeInv'
  OBVIOUS
<1>t. /\ AttemptsOK /\ PinSetOK /\ SlotSetOK /\ CtlOK /\ SharedOK /\ ThreadsOK /\ HistoryOK
  BY DEF TypeInv
<1>i. CtlIdle \in CtlRecords /\ CtlIdle.pc = "idle" /\ CtlIdle.prev.serial = 0
  BY Defaults
<1>p. ctl.me \in AttemptRecords /\ ctl.prev \in AttemptRecords /\ ctl.place \in Places
  BY <1>t DEF CtlOK, CtlRecords
<1>1. ASSUME CommitCheck PROVE TypeInv'
  <2>1. CtlOK'
    BY <1>1, CtlMoves DEF CommitCheck
  <2>q. QED
    BY <1>1, <2>1, Untouched DEF CommitCheck, TypeInv
<1>2. ASSUME CommitLost PROVE TypeInv'
  <2>1. CtlOK' /\ PinSetOK'
    BY <1>2, <1>i, Fewer DEF CommitLost, CtlOK, WithoutSerials
  <2>2. PICK f \in SUBSET Serials : history' = [history EXCEPT !.forgotten = f]
    <3>1. history.forgotten \in SUBSET Serials
          /\ history.forgotten \cup {ctl.prev.serial} \in SUBSET Serials
      BY <1>p, <1>t DEF HistoryOK, Histories, AttemptRecords
    <3>q. QED
      BY <1>2, <3>1 DEF CommitLost
  <2>3. HistoryOK'
    BY <1>2, <2>2, <1>t DEF CommitLost, HistoryOK, Histories
  <2>q. QED
    BY <1>2, <2>1, <2>3, Untouched DEF CommitLost, TypeInv
<1>3. ASSUME DropPrevPin PROVE TypeInv'
  <2>1. CtlOK' /\ PinSetOK'
    BY <1>3, CtlMoves, Fewer DEF DropPrevPin, WithoutSerials
  <2>q. QED
    BY <1>3, <2>1, Untouched DEF DropPrevPin, TypeInv
<1>4. ASSUME DropOldSlots PROVE TypeInv'
  <2>1. CtlOK' /\ SlotSetOK'
    BY <1>4, CtlMoves, Fewer DEF DropOldSlots
  <2>2. Replay(ctl.me.peer) \in WorkRecords
    BY <1>p, Defaults DEF Replay, WorkRecords, AttemptRecords
  <2>3. ThreadsOK'
    BY <1>4, <2>2, <1>t DEF DropOldSlots, ThreadsOK
  <2>q. QED
    BY <1>4, <2>1, <2>3, Untouched DEF DropOldSlots, TypeInv
<1>5. ASSUME Undo PROVE TypeInv'
  <2>1. CtlOK'
    BY <1>5, CtlMoves DEF Undo
  <2>2. PICK back \in AttemptRecords : /\ back = Restored(ctl.prev)
                                       /\ back.serial # 0 => back = ctl.prev
    BY <1>p, Defaults DEF Restored
  <2>4. AttemptsOK'
    <3>1. attempts' = attempts \/ attempts' = [attempts EXCEPT ![ctl.place] = back]
      BY <1>5, <2>2 DEF Undo
    <3>2. back.serial # 0 => back.peer \in Peers
      BY <2>2, <1>t DEF CtlOK
    <3>3. CASE attempts' = [attempts EXCEPT ![ctl.place] = back]
      <4>1. \A j \in Places : attempts'[j] = IF j = ctl.place THEN back ELSE attempts[j]
        BY <3>3, <1>t DEF AttemptsOK
      <4>q. QED
        BY <3>2, <3>3, <4>1, <1>t, <1>p DEF AttemptsOK, Live
    <3>q. QED
      BY <3>1, <3>3, Untouched
  <2>3. HistoryOK'
    <3>1. {ctl.prev} \ {back} \in SUBSET AttemptRecords
      BY <1>p
    <3>q. QED
      BY <1>5, <2>2, <3>1, <1>t, OverFacts DEF Undo, HistoryOK
  <2>q. QED
    BY <1>5, <2>1, <2>3, <2>4, Untouched DEF Undo, TypeInv
<1>6. ASSUME UndoPins PROVE TypeInv'
  <2>1. CtlOK' /\ PinSetOK'
    BY <1>6, <1>i, Fewer DEF UndoPins, CtlOK, WithoutSerials
  <2>q. QED
    BY <1>6, <2>1, Untouched DEF UndoPins, TypeInv
<1>q. QED
  BY <1>1, <1>2, <1>3, <1>4, <1>5, <1>6 DEF CommitStep, RollbackStep

\* Deliveries and expiries.
LEMMA TypeUpkeep == TypeInv /\ (DeliverStep \/ ExpireStep) => TypeInv'
<1> SUFFICES ASSUME TypeInv, DeliverStep \/ ExpireStep PROVE TypeInv'
  OBVIOUS
<1>t. /\ AttemptsOK /\ PinSetOK /\ SlotSetOK /\ CtlOK /\ SharedOK /\ ThreadsOK /\ HistoryOK
  BY DEF TypeInv
<1>i. CtlIdle \in CtlRecords /\ CtlIdle.pc = "idle" /\ CtlIdle.prev.serial = 0
  BY Defaults
<1>1. ASSUME Deliver PROVE TypeInv'
  <2>1. CtlOK'
    BY <1>1, CtlMoves DEF Deliver
  <2>q. QED
    BY <1>1, <2>1, Untouched DEF Deliver, TypeInv
<1>2. ASSUME NEW i \in Places, Redeliver(i) PROVE TypeInv'
  <2>1. attempts[i] \in AttemptRecords
    BY <1>t DEF AttemptsOK
  <2>2. CtlOK'
    BY <1>2, <2>1, <1>i DEF Redeliver, CtlOK, CtlRecords
  <2>q. QED
    BY <1>2, <2>2, Untouched DEF Redeliver, TypeInv
<1>3. ASSUME CopyPinned PROVE TypeInv'
  <2>1. CtlOK'
    BY <1>3, <1>i DEF CopyPinned, CtlOK
  <2>2. PICK d \in SUBSET PinRecords : history' = [history EXCEPT !.delivered = d]
    <3>1. ASSUME NEW k \in OwnPins([ctl.me EXCEPT !.rev = ctl.rev]),
                 history' = [history EXCEPT !.delivered = @ \cup {k}]
          PROVE  \E d \in SUBSET PinRecords : history' = [history EXCEPT !.delivered = d]
      <4>1. k \in PinRecords
        BY <1>t DEF OwnPins, PinSetOK
      <4>2. history.delivered \cup {k} \in SUBSET PinRecords
        BY <4>1, <1>t DEF HistoryOK, Histories
      <4>q. QED
        BY <3>1, <4>2
    <3>2. ASSUME UNCHANGED history
          PROVE  \E d \in SUBSET PinRecords : history' = [history EXCEPT !.delivered = d]
      <4>1. history' = [history EXCEPT !.delivered = history.delivered]
            /\ history.delivered \in SUBSET PinRecords
        BY <3>2, <1>t DEF HistoryOK, Histories
      <4>q. QED
        BY <4>1
    <3>q. QED
      BY <1>3, <3>1, <3>2 DEF CopyPinned
  <2>3. HistoryOK'
    BY <1>3, <2>2, <1>t DEF CopyPinned, HistoryOK, Histories
  <2>q. QED
    BY <1>3, <2>1, <2>3, Untouched DEF CopyPinned, TypeInv
<1>4. ASSUME ExpireAttempts PROVE TypeInv'
  <2>1. PICK late \in SUBSET AttemptRecords :
          /\ ctl' = [CtlIdle EXCEPT !.pc = "xpins", !.late = late]
          /\ attempts' = [i \in Places |-> IF attempts[i] \in late THEN NoAttempt
                                           ELSE attempts[i]]
          /\ history' = Over(late)
    <3>1. {attempts[i] : i \in {j \in Live : attempts[j].expired}} \in SUBSET AttemptRecords
      BY <1>t DEF AttemptsOK, Live
    <3>q. QED
      BY <1>4, <3>1 DEF ExpireAttempts
  <2>2. AttemptsOK'
    BY <2>1, <1>t, Defaults DEF AttemptsOK, Live
  <2>3. CtlOK'
    BY <2>1, <1>i DEF CtlOK, CtlRecords
  <2>4. HistoryOK'
    BY <1>4, <2>1, <1>t, OverFacts DEF HistoryOK, ExpireAttempts
  <2>q. QED
    BY <1>4, <2>2, <2>3, <2>4, Untouched DEF ExpireAttempts, TypeInv
<1>5. ASSUME ExpirePins PROVE TypeInv'
  <2>1. CtlOK' /\ PinSetOK'
    BY <1>5, CtlMoves, Fewer DEF ExpirePins, WithoutSerials
  <2>q. QED
    BY <1>5, <2>1, Untouched DEF ExpirePins, TypeInv
<1>6. ASSUME ExpireSlots PROVE TypeInv'
  <2>1. CtlOK' /\ SlotSetOK'
    BY <1>6, <1>i, Fewer DEF ExpireSlots, CtlOK
  <2>q. QED
    BY <1>6, <2>1, Untouched DEF ExpireSlots, TypeInv
<1>q. QED
  BY <1>1, <1>2, <1>3, <1>4, <1>5, <1>6 DEF DeliverStep, ExpireStep

\* Rewriting attempts in place, without changing whose they are.
LEMMA RemarkedAttempts ==
    ASSUME TypeInv, NEW S \in SUBSET Places, NEW f \in [Places -> AttemptRecords],
           \A i \in Places : f[i].serial = attempts[i].serial /\ f[i].peer = attempts[i].peer,
           attempts' = [i \in Places |-> IF i \in S THEN f[i] ELSE attempts[i]]
    PROVE  AttemptsOK'
BY DEF TypeInv, AttemptsOK, Live

\* The status of a member, from its packet to the mark.
LEMMA TypeStatus == TypeInv /\ StatusStep => TypeInv'
<1> SUFFICES ASSUME TypeInv, StatusStep PROVE TypeInv'
  OBVIOUS
<1>t. /\ AttemptsOK /\ PinSetOK /\ SlotSetOK /\ CtlOK /\ SharedOK /\ ThreadsOK /\ HistoryOK
  BY DEF TypeInv
<1>i. /\ CtlIdle \in CtlRecords /\ CtlIdle.pc = "idle" /\ CtlIdle.prev.serial = 0
      /\ GameIdle \in GameRecords
  BY Defaults
<1>1. ASSUME NEW p \in Peers, StatusArrives(p) PROVE TypeInv'
  <2>1. CtlOK'
    <3>1. ASSUME NEW i \in Unexpired(Mine(p)),
                 ctl' = [CtlIdle EXCEPT !.pc = "store", !.me = attempts[i]]
          PROVE  CtlOK'
      <4>1. attempts[i] \in AttemptRecords
        BY <1>t DEF AttemptsOK, Unexpired, Mine, Live
      <4>q. QED
        BY <3>1, <4>1, <1>i DEF CtlOK, CtlRecords
    <3>2. ASSUME UNCHANGED ctl PROVE CtlOK'
      BY <1>1, <3>2, Untouched DEF StatusArrives
    <3>q. QED
      BY <1>1, <3>1, <3>2 DEF StatusArrives
  <2>2. client' \in [Peers -> ClientRecords]
    BY <1>1, <1>t DEF StatusArrives, SharedOK, ClientRecords
  <2>3. SharedOK'
    BY <1>1, <2>2, <1>t DEF StatusArrives, SharedOK
  <2>q. QED
    BY <1>1, <2>1, <2>3, Untouched DEF StatusArrives, TypeInv
<1>2. ASSUME NEW p \in Peers, Consume(p) PROVE TypeInv'
  <2>1. PICK i \in Unexpired(Mine(p)) :
          game' = [pc |-> "take", peer |-> p, nonce |-> attempts[i].nonce,
                   gen |-> attempts[i].gen]
    BY <1>2 DEF Consume
  <2>2. attempts[i] \in AttemptRecords
    BY <1>t DEF AttemptsOK, Unexpired, Mine, Live
  <2>3. game' \in GameRecords
    BY <2>1, <2>2, Defaults DEF GameRecords, AttemptRecords
  <2>4. ThreadsOK'
    BY <1>2, <2>3, <1>t DEF Consume, ThreadsOK
  <2>q. QED
    BY <1>2, <2>4, Untouched DEF Consume, TypeInv
<1>3. ASSUME StoreStatus PROVE TypeInv'
  <2>1. CtlOK'
    BY <1>3, <1>i DEF StoreStatus, CtlOK
  <2>2. PICK new : new = [peer |-> ctl.me.peer, nonce |-> ctl.me.nonce,
                          gen |-> ctl.me.gen, consumed |-> FALSE]
    OBVIOUS
  <2>3. new \in SlotRecords
    <3>1. ctl.me \in AttemptRecords
      BY <1>t DEF CtlOK, CtlRecords
    <3>q. QED
      BY <2>2, <3>1 DEF SlotRecords, AttemptRecords
  <2>4. SlotCap \in Nat
    BY BoundsAssumption
  <2>5. \/ UNCHANGED slots
        \/ HasRoom(slots) /\ slots' = slots \cup {new}
        \/ \E s \in slots : slots' = (slots \ {s}) \cup {new}
    BY <1>3, <2>2 DEF StoreStatus
  <2>6. ASSUME HasRoom(slots), slots' = slots \cup {new} PROVE SlotSetOK'
    <3>1. IsFiniteSet(slots \cup {new}) /\ Cardinality(slots \cup {new}) <= SlotCap
      BY <2>4, <2>6, <1>t, RoomForOne DEF SlotSetOK, HasRoom
    <3>q. QED
      BY <2>3, <2>6, <3>1, <1>t DEF SlotSetOK
  <2>7. ASSUME NEW s \in slots, slots' = (slots \ {s}) \cup {new} PROVE SlotSetOK'
    <3>1. PICK rest \in SUBSET slots : rest = slots \ {s}
      OBVIOUS
    <3>2. IsFiniteSet(rest) /\ Cardinality(rest) < SlotCap
      BY <2>4, <3>1, <1>t, NoMoreRoom DEF SlotSetOK
    <3>3. IsFiniteSet(rest \cup {new}) /\ Cardinality(rest \cup {new}) <= SlotCap
      BY <2>4, <3>2, RoomForOne
    <3>q. QED
      BY <2>3, <2>7, <3>1, <3>3, <1>t DEF SlotSetOK
  <2>8. SlotSetOK'
    BY <2>5, <2>6, <2>7, Untouched
  <2>q. QED
    BY <1>3, <2>1, <2>8, Untouched DEF StoreStatus, TypeInv
<1>4. ASSUME TakeSlot PROVE TypeInv'
  <2>1. PICK open \in SUBSET slots :
          open = {s \in slots : ~s.consumed /\ Tuple(s) = Tuple(game)}
    OBVIOUS
  <2>2. CASE open = {}
    <3>1. game' = GameIdle /\ UNCHANGED <<slots, history>>
      BY <1>4, <2>1, <2>2 DEF TakeSlot
    <3>2. ThreadsOK'
      BY <1>4, <3>1, <1>i, <1>t DEF TakeSlot, ThreadsOK
    <3>q. QED
      BY <1>4, <3>1, <3>2, Untouched DEF TakeSlot, TypeInv
  <2>3. CASE open # {}
    <3>1. /\ slots' = (slots \ open) \cup {[s EXCEPT !.consumed = TRUE] : s \in open}
          /\ history' = [history EXCEPT !.consumed = @ \cup {Tuple(game)}]
          /\ game' = [game EXCEPT !.pc = "mark"]
      BY <1>4, <2>1, <2>3 DEF TakeSlot
    <3>2. ThreadsOK'
      BY <1>4, <3>1, <1>t DEF TakeSlot, ThreadsOK, GameRecords
    <3>3. HistoryOK'
      <4>1. Tuple(game) \in [peer : 0..MaxPeer, nonce : Nonces, gen : Gens]
        BY <1>t DEF ThreadsOK, GameRecords, Tuple
      <4>q. QED
        BY <1>4, <3>1, <4>1, <1>t DEF TakeSlot, HistoryOK, Histories
    <3>4. SlotSetOK'
      <4> DEFINE take == [s \in slots |-> IF s \in open THEN [s EXCEPT !.consumed = TRUE]
                                          ELSE s]
      <4>1. \A s \in slots : [s EXCEPT !.consumed = TRUE] \in SlotRecords
        BY <1>t DEF SlotSetOK, SlotRecords
      <4>2. slots' \subseteq SlotRecords
        BY <2>1, <3>1, <4>1, <1>t DEF SlotSetOK
      <4>3. take \in Surjection(slots, slots')
        <5>1. \A s \in slots : take[s] \in slots'
          BY <3>1
        <5>2. \A x \in slots' : \E s \in slots : take[s] = x
          BY <2>1, <3>1
        <5>q. QED
          BY <5>1, <5>2 DEF Surjection
      <4>4. IsFiniteSet(slots') /\ Cardinality(slots') <= Cardinality(slots)
        BY <4>3, <1>t, FS_Surjection DEF SlotSetOK
      <4>5. Cardinality(slots') \in Nat /\ Cardinality(slots) \in Nat
        BY <4>4, <1>t, FS_CardinalityType DEF SlotSetOK
      <4>q. QED
        BY <4>2, <4>4, <4>5, <1>t, BoundsAssumption DEF SlotSetOK
    <3>q. QED
      BY <1>4, <3>2, <3>3, <3>4, Untouched DEF TakeSlot, TypeInv
  <2>q. QED
    BY <2>2, <2>3
<1>5. ASSUME MarkStatus PROVE TypeInv'
  <2>1. AttemptsOK'
    <3> DEFINE f == [i \in Places |-> [attempts[i] EXCEPT !.status = TRUE, !.expired = FALSE]]
    <3>1. ASSUME NEW i \in Places
          PROVE  /\ f[i] \in AttemptRecords
                 /\ f[i].serial = attempts[i].serial /\ f[i].peer = attempts[i].peer
      BY <1>t DEF AttemptsOK, AttemptRecords
    <3>2. Marked(game.peer, game.nonce) \in SUBSET Places
      BY DEF Marked, Mine, Live
    <3>3. attempts' = [i \in Places |-> IF i \in Marked(game.peer, game.nonce) THEN f[i]
                                        ELSE attempts[i]]
      BY <1>5 DEF MarkStatus
    <3>4. f \in [Places -> AttemptRecords]
      BY <3>1
    <3> HIDE DEF f
    <3>q. QED
      BY <3>1, <3>2, <3>3, <3>4, RemarkedAttempts
  <2>2. ThreadsOK'
    <3>1. Replay(game.peer) \in WorkRecords
      BY <1>t, Defaults DEF Replay, WorkRecords, ThreadsOK, GameRecords
    <3>q. QED
      BY <1>5, <1>i, <1>t, <3>1 DEF MarkStatus, ThreadsOK
  <2>q. QED
    BY <1>5, <2>1, <2>2, Untouched DEF MarkStatus, TypeInv
<1>q. QED
  BY <1>1, <1>2, <1>3, <1>4, <1>5 DEF StatusStep

\* Only the work of one thread changes, to a record of the right type.
LEMMA OneWorks ==
    ASSUME TypeInv, NEW t \in Senders, NEW w \in WorkRecords,
           work' = [work EXCEPT ![t] = w], UNCHANGED <<game, clear, lose>>
    PROVE  ThreadsOK'
BY DEF TypeInv, ThreadsOK

\* What is read of the table is addressees.
LEMMA AddresseesOK ==
    ASSUME AttemptsOK, NEW S \in SUBSET Places
    PROVE  {Addressee(attempts[i]) : i \in S} \in SUBSET AddresseeRecords
BY DEF AttemptsOK, Addressee, AttemptRecords, AddresseeRecords

\* The generation payloads: capture, store, spread, replay, send.
LEMMA TypePayload == TypeInv /\ PayloadStep => TypeInv'
<1> SUFFICES ASSUME TypeInv, NEW t \in Senders,
                    \/ \E event \in Events : Capture(t, event)
                    \/ StorePayload(t) \/ Spread(t) \/ Look(t) \/ CopyCache(t) \/ Send(t)
                    \/ Refresh(t) \/ Sent(t)
             PROVE  TypeInv'
  BY DEF PayloadStep
<1>t. /\ AttemptsOK /\ PinSetOK /\ SlotSetOK /\ CtlOK /\ SharedOK /\ ThreadsOK /\ HistoryOK
  BY DEF TypeInv
<1>w. /\ work[t] \in WorkRecords /\ work \in [Senders -> WorkRecords]
      /\ WorkIdle \in WorkRecords
  BY <1>t, Defaults DEF ThreadsOK
<1>1. ASSUME NEW event \in Events, Capture(t, event) PROVE TypeInv'
  <2>1. PICK m : m = [gen |-> authority.gen, event |-> event]
    OBVIOUS
  <2>2. m \in Payloads
    BY <2>1, <1>t, BoundsAssumption DEF SharedOK, AuthorityRecords, Payloads
  <2>3. PICK w : w = [WorkIdle EXCEPT !.pc = "capture", !.load = {m}]
    OBVIOUS
  <2>4. w \in WorkRecords
    BY <2>2, <2>3, <1>w DEF WorkRecords
  <2>5. ThreadsOK'
    BY <1>1, <2>1, <2>3, <2>4, OneWorks DEF Capture
  <2>q. QED
    BY <1>1, <2>5, Untouched DEF Capture, TypeInv
<1>2. ASSUME StorePayload(t) PROVE TypeInv'
  <2>1. PICK w : w = [work[t] EXCEPT !.pc = "spread"]
    OBVIOUS
  <2>2. w \in WorkRecords /\ work' = [work EXCEPT ![t] = w]
    BY <1>2, <2>1, <1>w DEF WorkRecords, StorePayload
  <2>3. ThreadsOK'
    BY <1>2, <2>2, OneWorks DEF StorePayload
  <2>4. SharedOK'
    <3>1. cache' \subseteq Payloads
      BY <1>2, <1>w, <1>t DEF StorePayload, WorkRecords, SharedOK
    <3>q. QED
      BY <1>2, <3>1, <1>t DEF StorePayload, SharedOK
  <2>q. QED
    BY <1>2, <2>3, <2>4, Untouched DEF StorePayload, TypeInv
<1>3. ASSUME Spread(t) PROVE TypeInv'
  <2>1. PICK to \in SUBSET AddresseeRecords : to = {Addressee(attempts[i]) : i \in Live}
    BY <1>t, AddresseesOK DEF Live
  <2>2. PICK w : w = [work[t] EXCEPT !.pc = "send", !.to = to]
    OBVIOUS
  <2>3. w \in WorkRecords /\ work' = [work EXCEPT ![t] = w]
    BY <1>3, <2>1, <2>2, <1>w DEF WorkRecords, Spread
  <2>4. ThreadsOK'
    BY <1>3, <2>3, OneWorks DEF Spread
  <2>q. QED
    BY <1>3, <2>4, Untouched DEF Spread, TypeInv
<1>4. ASSUME Look(t) PROVE TypeInv'
  <2>1. PICK found \in SUBSET AddresseeRecords : found = AttemptOf(work[t].peer)
    BY <1>t, AddresseesOK DEF AttemptOf, Mine, Live
  <2>2. PICK w : w = IF found = {} THEN WorkIdle
                     ELSE [work[t] EXCEPT !.pc = "cache", !.to = found]
    OBVIOUS
  <2>3. w \in WorkRecords
    BY <2>2, <1>w DEF WorkRecords
  <2>4. work' = [work EXCEPT ![t] = w]
    BY <1>4, <2>1, <2>2, <1>w DEF Look
  <2>5. ThreadsOK'
    BY <1>4, <2>3, <2>4, OneWorks DEF Look
  <2>q. QED
    BY <1>4, <2>5, Untouched DEF Look, TypeInv
<1>5. ASSUME CopyCache(t) PROVE TypeInv'
  <2>1. PICK w : w = [work[t] EXCEPT !.pc = "send", !.load = cache]
    OBVIOUS
  <2>2. w \in WorkRecords /\ work' = [work EXCEPT ![t] = w]
    BY <1>5, <2>1, <1>w, <1>t DEF WorkRecords, CopyCache, SharedOK
  <2>3. ThreadsOK'
    BY <1>5, <2>2, OneWorks DEF CopyCache
  <2>q. QED
    BY <1>5, <2>3, Untouched DEF CopyCache, TypeInv
<1>6. ASSUME Send(t) PROVE TypeInv'
  <2>1. PICK a \in work[t].to, m \in work[t].load :
          /\ work' = [work EXCEPT ![t] = Remaining(@, a, m)]
          /\ IF Releasable(a, m)
             THEN /\ history' = [history EXCEPT !.offered = @ \cup
                       {[peer |-> a.peer, nonce |-> a.nonce, gen |-> a.gen,
                         event |-> m.event]}]
                  /\ \/ attempts' = [i \in Places |->
                          IF i \in Marked(a.peer, a.nonce)
                          THEN [attempts[i] EXCEPT !.sent = @ \cup {m.event},
                                                   !.expired = FALSE]
                          ELSE attempts[i]]
                     \/ UNCHANGED attempts
             ELSE UNCHANGED <<attempts, history>>
    BY <1>6 DEF Send
  <2>2. a \in AddresseeRecords /\ m \in Payloads
    BY <2>1, <1>w DEF WorkRecords
  <2>3. ThreadsOK'
    <3>1. PICK w : w = Remaining(work[t], a, m)
      OBVIOUS
    <3>2. w \in WorkRecords
      BY <3>1, <1>w DEF WorkRecords, Remaining
    <3>3. work' = [work EXCEPT ![t] = w]
      BY <2>1, <3>1, <1>w
    <3>q. QED
      BY <1>6, <3>2, <3>3, OneWorks DEF Send
  <2>4. HistoryOK'
    <3>1. PICK o : o = [peer |-> a.peer, nonce |-> a.nonce, gen |-> a.gen,
                        event |-> m.event]
      OBVIOUS
    <3>2. o \in [peer : 0..MaxPeer, nonce : Nonces, gen : Gens, event : {"owner", "ready"}]
      BY <2>2, <3>1 DEF AddresseeRecords, Payloads
    <3>3. CASE history' = [history EXCEPT !.offered = @ \cup {o}]
      BY <1>6, <3>2, <3>3, <1>t DEF Send, HistoryOK, Histories
    <3>4. CASE UNCHANGED history
      BY <1>6, <3>4, Untouched DEF Send
    <3>q. QED
      BY <2>1, <3>1, <3>3, <3>4
  <2>5. AttemptsOK'
    <3> DEFINE f == [i \in Places |-> [attempts[i] EXCEPT !.sent = @ \cup {m.event},
                                                          !.expired = FALSE]]
    <3>1. ASSUME NEW i \in Places
          PROVE  /\ f[i] \in AttemptRecords
                 /\ f[i].serial = attempts[i].serial /\ f[i].peer = attempts[i].peer
      BY <2>2, <1>t, ZenonT(60) DEF AttemptsOK, AttemptRecords, Payloads
    <3>2. Marked(a.peer, a.nonce) \in SUBSET Places
      BY DEF Marked, Mine, Live
    <3>3. \/ UNCHANGED attempts
          \/ attempts' = [i \in Places |-> IF i \in Marked(a.peer, a.nonce) THEN f[i]
                                           ELSE attempts[i]]
      BY <2>1
    <3>4. f \in [Places -> AttemptRecords]
      BY <3>1
    <3> HIDE DEF f
    <3>q. QED
      BY <3>1, <3>2, <3>3, <3>4, RemarkedAttempts, Untouched
  <2>q. QED
    BY <1>6, <2>3, <2>4, <2>5, Untouched DEF Send, TypeInv
<1>7. ASSUME Refresh(t) PROVE TypeInv'
  <2>1. PICK again \in SUBSET AddresseeRecords :
          again = {Addressee(attempts[i]) : i \in Unexpired(
                    {j \in Mine(work[t].peer) : \E a \in work[t].to : attempts[j].nonce = a.nonce})}
    BY <1>t, AddresseesOK DEF Unexpired, Mine, Live
  <2>2. PICK w : w = [work[t] EXCEPT !.pc = "send", !.to = again]
    OBVIOUS
  <2>3. w \in WorkRecords /\ work' = [work EXCEPT ![t] = w]
    BY <1>7, <2>1, <2>2, <1>w DEF WorkRecords, Refresh
  <2>4. ThreadsOK'
    BY <1>7, <2>3, OneWorks DEF Refresh
  <2>q. QED
    BY <1>7, <2>4, Untouched DEF Refresh, TypeInv
<1>8. ASSUME Sent(t) PROVE TypeInv'
  <2>1. ThreadsOK'
    BY <1>8, <1>w, OneWorks DEF Sent
  <2>q. QED
    BY <1>8, <2>1, Untouched DEF Sent, TypeInv
<1>q. QED
  BY <1>1, <1>2, <1>3, <1>4, <1>5, <1>6, <1>7, <1>8

\* The authority and the whole-state clear.
LEMMA TypeClear == TypeInv /\ ClearStep => TypeInv'
<1> SUFFICES ASSUME TypeInv, ClearStep PROVE TypeInv'
  OBVIOUS
<1>t. /\ AttemptsOK /\ PinSetOK /\ SlotSetOK /\ CtlOK /\ SharedOK /\ ThreadsOK /\ HistoryOK
  BY DEF TypeInv
<1>1. ASSUME CommitAuthority PROVE TypeInv'
  <2>1. authority.last + 1 \in Gens
    BY <1>1, <1>t, BoundsAssumption DEF CommitAuthority, SharedOK, AuthorityRecords, Gens
  <2>2. authority' \in AuthorityRecords
    BY <1>1, <2>1 DEF CommitAuthority, AuthorityRecords
  <2>3. hot' \in [Peers -> Revs]
    BY <1>1, <1>t, BoundsAssumption DEF CommitAuthority, SharedOK, Revs
  <2>4. SharedOK'
    BY <1>1, <2>2, <2>3, <1>t DEF CommitAuthority, SharedOK
  <2>5. ThreadsOK'
    BY <1>1, <1>t DEF CommitAuthority, ThreadsOK, ClearSteps
  <2>q. QED
    BY <1>1, <2>4, <2>5, Untouched DEF CommitAuthority, TypeInv
<1>2. ASSUME RetireAuthority PROVE TypeInv'
  <2>1. authority' \in AuthorityRecords
    <3>1. 0 \in Gens
      BY BoundsAssumption DEF Gens
    <3>2. authority' = [authority EXCEPT !.gen = 0, !.running = FALSE]
      BY <1>2 DEF RetireAuthority
    <3>q. QED
      BY <3>1, <3>2, <1>t DEF SharedOK, AuthorityRecords
  <2>2. SharedOK' /\ ThreadsOK'
    BY <1>2, <2>1, <1>t DEF RetireAuthority, SharedOK, ThreadsOK, ClearSteps
  <2>q. QED
    BY <1>2, <2>2, Untouched DEF RetireAuthority, TypeInv
<1>3. ASSUME ResetPeers PROVE TypeInv'
  <2>1. lose' \in LoseRecords
    BY <1>3, Defaults DEF ResetPeers, LoseRecords
  <2>2. ThreadsOK'
    BY <1>3, <2>1, <1>t DEF ResetPeers, ThreadsOK, ClearSteps
  <2>q. QED
    BY <1>3, <2>2, Untouched DEF ResetPeers, TypeInv
<1>4. ASSUME NEW t \in Threads, ClearAttempts(t) PROVE TypeInv'
  <2>1. AttemptsOK'
    BY <1>4, Defaults DEF ClearAttempts, AttemptsOK, Live
  <2>2. HistoryOK'
    BY <1>4, <1>t DEF ClearAttempts, HistoryOK, Histories
  <2>3. ThreadsOK'
    BY <1>4, <1>t DEF ClearAttempts, ThreadsOK, ClearSteps
  <2>q. QED
    BY <1>4, <2>1, <2>2, <2>3, Untouched DEF ClearAttempts, TypeInv
<1>5. ASSUME NEW t \in Threads, ClearSlots(t) PROVE TypeInv'
  <2>1. SlotSetOK'
    BY <1>5, Fewer DEF ClearSlots
  <2>2. ThreadsOK'
    BY <1>5, <1>t DEF ClearSlots, ThreadsOK, ClearSteps
  <2>q. QED
    BY <1>5, <2>1, <2>2, Untouched DEF ClearSlots, TypeInv
<1>6. ASSUME NEW t \in Threads, ClearCache(t) PROVE TypeInv'
  <2>1. SharedOK' /\ ThreadsOK'
    BY <1>6, <1>t DEF ClearCache, SharedOK, ThreadsOK, ClearSteps
  <2>q. QED
    BY <1>6, <2>1, Untouched DEF ClearCache, TypeInv
<1>7. ASSUME NEW t \in Threads, ClearPins(t) PROVE TypeInv'
  <2>1. PinSetOK'
    BY <1>7, Fewer DEF ClearPins
  <2>2. ThreadsOK'
    BY <1>7, <1>t DEF ClearPins, ThreadsOK, ClearSteps
  <2>q. QED
    BY <1>7, <2>1, <2>2, Untouched DEF ClearPins, TypeInv
<1>q. QED
  BY <1>1, <1>2, <1>3, <1>4, <1>5, <1>6, <1>7 DEF ClearStep

\* The loss of a peer.
LEMMA TypeLose == TypeInv /\ LoseStep => TypeInv'
<1> SUFFICES ASSUME TypeInv, LoseStep PROVE TypeInv'
  OBVIOUS
<1>t. /\ AttemptsOK /\ PinSetOK /\ SlotSetOK /\ CtlOK /\ SharedOK /\ ThreadsOK /\ HistoryOK
  BY DEF TypeInv
<1>1. ASSUME NEW p \in Peers, Losing(p) PROVE TypeInv'
  <2>1. AttemptsOK'
    BY <1>1, <1>t, Defaults DEF Losing, AttemptsOK, Live
  <2>2. HistoryOK'
    BY <1>1, <1>t DEF Losing, HistoryOK, Histories
  <2>3. lose' \in LoseRecords
    BY <1>1, <1>t, Defaults DEF Losing, ThreadsOK, LoseRecords
  <2>4. ThreadsOK'
    BY <1>1, <2>3, <1>t DEF Losing, ThreadsOK
  <2>q. QED
    BY <1>1, <2>1, <2>2, <2>4, Untouched DEF Losing, TypeInv
<1>2. ASSUME LoseNext PROVE TypeInv'
  <2>1. lose.left \in SUBSET Peers /\ lose.left \in SUBSET Nat /\ lose.left # {}
    BY <1>2, <1>t, Defaults DEF LoseNext, ThreadsOK, LoseRecords
  <2>2. Least(lose.left) \in Peers
    BY <2>1, LeastFacts
  <2>q. QED
    BY <1>1, <1>2, <2>2 DEF LoseNext
<1>3. ASSUME LosePeerSlots PROVE TypeInv'
  <2>1. SlotSetOK'
    BY <1>3, Fewer DEF LosePeerSlots
  <2>2. ThreadsOK'
    BY <1>3, <1>t DEF LosePeerSlots, ThreadsOK, LoseRecords
  <2>q. QED
    BY <1>3, <2>1, <2>2, Untouched DEF LosePeerSlots, TypeInv
<1>4. ASSUME LosePeerPins PROVE TypeInv'
  <2>1. PinSetOK'
    BY <1>4, Fewer DEF LosePeerPins
  <2>2. PICK l \in LoseRecords : l = [LoseIdle EXCEPT !.left = lose.left]
    BY <1>t, Defaults DEF ThreadsOK, LoseRecords
  <2>3. ThreadsOK'
    BY <1>4, <2>2, <1>t DEF LosePeerPins, ThreadsOK
  <2>q. QED
    BY <1>4, <2>1, <2>3, Untouched DEF LosePeerPins, TypeInv
<1>q. QED
  BY <1>1, <1>2, <1>3, <1>4 DEF LoseStep, LosePeer

\* Expiry, members and snapshots.
LEMMA TypeWorld == TypeInv /\ WorldStep => TypeInv'
<1> SUFFICES ASSUME TypeInv, WorldStep PROVE TypeInv'
  OBVIOUS
<1>t. /\ AttemptsOK /\ PinSetOK /\ SlotSetOK /\ CtlOK /\ SharedOK /\ ThreadsOK /\ HistoryOK
  BY DEF TypeInv
<1>1. ASSUME NEW s \in 1..MaxSerial, Elapse(s) PROVE TypeInv'
  <2>1. AttemptsOK'
    <3> DEFINE f == [i \in Places |-> [attempts[i] EXCEPT !.expired = TRUE]]
    <3>1. ASSUME NEW i \in Places
          PROVE  /\ f[i] \in AttemptRecords
                 /\ f[i].serial = attempts[i].serial /\ f[i].peer = attempts[i].peer
      BY <1>t DEF AttemptsOK, AttemptRecords
    <3>2. Current(s) \in SUBSET Places
      BY DEF Current, Live
    <3>3. attempts' = [i \in Places |-> IF i \in Current(s) THEN f[i] ELSE attempts[i]]
      BY <1>1 DEF Elapse
    <3>4. f \in [Places -> AttemptRecords]
      BY <3>1
    <3> HIDE DEF f
    <3>q. QED
      BY <3>1, <3>2, <3>3, <3>4, RemarkedAttempts
  <2>2. CtlOK'
    <3>1. PICK b : b = [ctl.prev EXCEPT !.expired = TRUE]
      OBVIOUS
    <3>2. b \in AttemptRecords /\ b.serial = ctl.prev.serial /\ b.peer = ctl.prev.peer
      BY <3>1, <1>t DEF CtlOK, CtlRecords, AttemptRecords
    <3>3. ctl' = ctl \/ ctl' = [ctl EXCEPT !.prev = b]
      BY <1>1, <3>1, <1>t DEF Elapse, CtlOK, CtlRecords
    <3>4. counter' = counter
      BY <1>1 DEF Elapse
    <3>q. QED
      BY <3>2, <3>3, <3>4, <1>t DEF CtlOK, CtlRecords
  <2>q. QED
    BY <1>1, <2>1, <2>2, Untouched DEF Elapse, TypeInv
<1>2. ASSUME NEW p \in Peers, FreshNonce(p) PROVE TypeInv'
  <2>1. client[p].nonce + 1 \in Nonces
    BY <1>2, <1>t, BoundsAssumption DEF FreshNonce, SharedOK, ClientRecords, Nonces
  <2>2. PICK c : c = [nonce |-> client[p].nonce + 1, told |-> 0, sent |-> FALSE]
    OBVIOUS
  <2>3. c \in ClientRecords
    BY <2>1, <2>2, BoundsAssumption DEF ClientRecords, Gens
  <2>4. client' = [client EXCEPT ![p] = c]
    BY <1>2, <2>2, <1>t DEF FreshNonce, SharedOK
  <2>5. SharedOK'
    BY <1>2, <2>3, <2>4, <1>t DEF FreshNonce, SharedOK
  <2>q. QED
    BY <1>2, <2>5, Untouched DEF FreshNonce, TypeInv
<1>3. ASSUME NEW p \in Peers, Publish(p) PROVE TypeInv'
  <2>1. hot[p] + 1 \in Revs
    BY <1>3, <1>t, BoundsAssumption DEF Publish, SharedOK, Revs
  <2>2. SharedOK'
    BY <1>3, <2>1, <1>t DEF Publish, SharedOK
  <2>q. QED
    BY <1>3, <2>2, Untouched DEF Publish, TypeInv
<1>4. ASSUME WorldChanges PROVE TypeInv'
  <2>1. SharedOK'
    BY <1>4, <1>t DEF WorldChanges, SharedOK, AuthorityRecords
  <2>q. QED
    BY <1>4, <2>1, Untouched DEF WorldChanges, TypeInv
<1>q. QED
  BY <1>1, <1>2, <1>3, <1>4 DEF WorldStep

\* Every step keeps the types.
LEMMA TypeNext == TypeInv /\ [Next]_vars => TypeInv'
<1> SUFFICES ASSUME TypeInv, [Next]_vars PROVE TypeInv'
  OBVIOUS
<1>1. CASE UNCHANGED vars
  BY <1>1, Untouched DEF vars, TypeInv
<1>q. QED
  BY <1>1, TypeRequest, TypeSettle, TypeUpkeep, TypeStatus, TypePayload, TypeClear,
     TypeLose, TypeWorld DEF Next

\* Type correctness and capacities: the tables of attempts, slots, pins and
\* payloads stay within their arrays whatever the host, its members and its game
\* do, and in whatever order.
THEOREM HostTypeCorrect == Spec => []TypeOK
<1>1. Spec => []TypeInv
  BY TypeInit, TypeNext, PTL DEF Spec
<1>q. QED
  BY <1>1, TypeInvIsTypeOK, PTL

-----------------------------------------------------------------------------
(* The table: one attempt per peer, and none that was lost. *)

\* Between the reservation and its commit or rollback.
Requesting == ctl.pc \in {"pin", "install", "respond", "commit", "undo"}

\* The control thread works on the attempt it carries.
Carrying == ctl.pc \notin {"idle", "reserve", "xpins", "xslots"}

\* Serials are unique, drawn from the counter, and newer than what their peer
\* has lost; so are peers.
TableOK ==
    /\ \A i \in Places : attempts[i].serial = 0 => attempts[i] = NoAttempt
    /\ \A i \in Live : /\ attempts[i].serial <= counter
                       /\ attempts[i].serial > history.lost[attempts[i].peer]
    /\ \A i, j \in Live : attempts[i].serial = attempts[j].serial => i = j
    /\ OneAttemptPerPeer
    /\ \A p \in Peers : history.lost[p] <= counter

\* The attempt that the control thread carries is the one of its serial.
CarriedOK ==
    /\ ctl.me.serial <= counter /\ ctl.prev.serial <= counter
    /\ \A j \in Live : attempts[j].serial = ctl.me.serial => Tuple(attempts[j]) = Tuple(ctl.me)
    /\ Carrying => ctl.me.serial # 0 /\ ctl.me.peer \in Peers

\* While a reservation is open, no other attempt of its peer, nor of the peer
\* whose place it has taken, is in the table; what a rollback would put back has
\* not been lost unless the reservation has.
RequestOK ==
    Requesting =>
    /\ ctl.prev.serial < ctl.me.serial
    /\ ctl.prev.serial = 0 => ctl.prev = NoAttempt
    /\ ctl.prev.serial # 0 /\ ctl.prev.peer # ctl.me.peer => ctl.prev.expired
    /\ \A j \in Live : attempts[j].serial = ctl.me.serial => j = ctl.place
    /\ \A j \in Live : attempts[j].peer \in {ctl.me.peer, ctl.prev.peer} =>
                         attempts[j].serial = ctl.me.serial
    /\ \A j \in Live : attempts[j].serial # ctl.prev.serial
    /\ StillReserved /\ ctl.prev.serial # 0 /\ ~ctl.prev.expired =>
         ctl.prev.serial > history.lost[ctl.prev.peer]

TableInv == TableOK /\ CarriedOK /\ RequestOK

\* A step that reserves nothing and puts nothing back: every place keeps its
\* attempt, perhaps with other marks, or is emptied; peers that still have an
\* attempt have lost nothing new.
NoneAdded ==
    /\ counter' = counter
    /\ \A i \in Places :
         \/ attempts'[i] = NoAttempt
         \/ /\ attempts[i].serial # 0 /\ attempts'[i].serial = attempts[i].serial
            /\ Tuple(attempts'[i]) = Tuple(attempts[i])
    /\ \A i \in Places : attempts'[i].serial # 0 =>
         history'.lost[attempts[i].peer] = history.lost[attempts[i].peer]
    /\ \A p \in Peers : history'.lost[p] <= counter

\* The control thread goes on with what it carries ...
GoesOn ==
    /\ ctl'.me = ctl.me /\ ctl'.place = ctl.place
    /\ ctl'.prev.serial = ctl.prev.serial /\ ctl'.prev.peer = ctl.prev.peer
    /\ ctl.prev.expired => ctl'.prev.expired
    /\ ctl.prev.serial = 0 => ctl'.prev = ctl.prev
    /\ Requesting' => Requesting
    /\ Carrying' => Carrying

\* ... or drops it.
Drops == ctl'.me.serial = 0 /\ ctl'.prev.serial = 0 /\ ~Carrying'

\* A request that is open is carried.
LEMMA RequestingCarries == Requesting => Carrying
BY DEF Requesting, Carrying

LEMMA TableKept ==
    ASSUME TypeInv, TypeInv', TableInv, NoneAdded, GoesOn \/ Drops
    PROVE  TableInv'
<1>1. /\ attempts \in [Places -> AttemptRecords] /\ attempts' \in [Places -> AttemptRecords]
      /\ \A i \in Live : attempts[i].peer \in Peers
      /\ counter \in Nat /\ counter' = counter
      /\ \A p \in Peers : history.lost[p] \in Nat
  BY DEF TypeInv, AttemptsOK, HistoryOK, Histories, Serials, NoneAdded
<1>2. ASSUME NEW i \in Live'
      PROVE  /\ i \in Live /\ attempts'[i].serial = attempts[i].serial
             /\ Tuple(attempts'[i]) = Tuple(attempts[i])
             /\ attempts'[i].peer = attempts[i].peer
             /\ history'.lost[attempts[i].peer] = history.lost[attempts[i].peer]
  BY <1>2, Defaults DEF Live, NoneAdded, Tuple
<1>3. TableOK'
  <2>1. \A i \in Places : attempts'[i].serial = 0 => attempts'[i] = NoAttempt
    BY DEF NoneAdded
  <2>2. OneAttemptPerPeer'
    BY <1>2 DEF TableInv, TableOK, OneAttemptPerPeer
  <2>q. QED
    BY <1>1, <1>2, <2>1, <2>2 DEF TableInv, TableOK, NoneAdded
<1>4. CarriedOK'
  <2>1. CASE GoesOn
    BY <1>1, <1>2, <2>1 DEF TableInv, CarriedOK, GoesOn
  <2>2. CASE Drops
    BY <1>1, <2>2 DEF Drops, CarriedOK, Live
  <2>q. QED
    BY <2>1, <2>2
<1>5. RequestOK'
  <2>1. CASE Drops
    BY <2>1 DEF Drops, RequestOK, Requesting, Carrying
  <2>2. ASSUME GoesOn, Requesting' PROVE RequestOK'
    <3>1. Requesting /\ ctl.me.serial # 0 /\ ctl.me.peer \in Peers
          /\ ctl.place \in Places /\ (ctl.prev.serial # 0 => ctl.prev.peer \in Peers)
      BY <2>2, RequestingCarries DEF GoesOn, TableInv, CarriedOK, TypeInv, CtlOK, CtlRecords
    <3>2. ASSUME StillReserved', ctl.prev.serial # 0, ~ctl'.prev.expired
          PROVE  ctl.prev.serial > history'.lost[ctl.prev.peer]
      <4>1. ctl.place \in Live'
        BY <2>2, <3>1, <3>2 DEF GoesOn, StillReserved, Live
      <4>2. ctl.place \in Live /\ StillReserved /\ attempts[ctl.place].peer = ctl.me.peer
        BY <1>2, <2>2, <3>2, <4>1, ZenonT(60) DEF GoesOn, StillReserved, TableInv, CarriedOK, Tuple
      <4>3. ctl.prev.peer = ctl.me.peer /\ ctl.prev.serial > history.lost[ctl.prev.peer]
        BY <2>2, <3>1, <3>2, <4>2 DEF GoesOn, TableInv, RequestOK
      <4>q. QED
        BY <1>2, <4>1, <4>2, <4>3
    <3>q. QED
      BY <1>2, <2>2, <3>1, <3>2 DEF GoesOn, TableInv, RequestOK
  <2>q. QED
    BY <2>1, <2>2 DEF RequestOK
<1>q. QED
  BY <1>3, <1>4, <1>5 DEF TableInv

\* A step that leaves the table, its losses and the counter alone adds nothing;
\* neither does one that only marks attempts.
LEMMA NothingAdded ==
    ASSUME TypeInv, TableInv, UNCHANGED counter, history'.lost = history.lost
    PROVE  /\ UNCHANGED attempts => NoneAdded
           /\ \A S \in SUBSET Live : \A f :
                /\ \A i \in S : f[i].serial = attempts[i].serial /\ Tuple(f[i]) = Tuple(attempts[i])
                /\ attempts' = [i \in Places |-> IF i \in S THEN f[i] ELSE attempts[i]]
                => NoneAdded
<1>1. \A p \in Peers : history'.lost[p] <= counter
  BY DEF TableInv, TableOK
<1>q. QED
  BY <1>1 DEF TableInv, TableOK, NoneAdded, Live

\* Without a step of the control thread it carries the same.
LEMMA SameCtl == UNCHANGED ctl => GoesOn
BY DEF GoesOn, Requesting, Carrying

LEMMA CtlIdleDrops == ctl' = CtlIdle => Drops
BY DEF CtlIdle, Drops, Carrying, NoAttempt

\* A reservation: a new serial in the peer's own place, or in one that is free
\* or expired.
LEMMA ReserveTable == TypeInv /\ TypeInv' /\ TableInv /\ Reserve => TableInv'
<1> SUFFICES ASSUME TypeInv, TypeInv', TableInv, Reserve PROVE TableInv'
  OBVIOUS
<1>t. /\ AttemptsOK /\ CtlOK /\ HistoryOK /\ counter \in Nat
      /\ \A p \in Peers : history.lost[p] \in Nat
      /\ attempts \in [Places -> AttemptRecords]
  BY DEF TypeInv, HistoryOK, Histories, Serials, AttemptsOK
<1>1. CASE Mine(ctl.me.peer) \cup Usable = {}
  <2>1. ctl' = CtlIdle /\ UNCHANGED <<attempts, counter, history>>
    BY <1>1 DEF Reserve
  <2>q. QED
    BY <2>1, TableKept, NothingAdded, CtlIdleDrops
<1>2. CASE Mine(ctl.me.peer) \cup Usable # {}
  <2>1. ctl.me.peer \in Peers /\ ctl.me \in AttemptRecords
    BY <1>t DEF Reserve, CtlOK, CtlRecords
  <2>2. PICK p \in Peers, i \in Places, new \in AttemptRecords :
          /\ p = ctl.me.peer /\ i = PlaceFor(p)
          /\ new = [ctl.me EXCEPT !.serial = counter + 1]
    <3>1. PlaceFor(ctl.me.peer) \in Places
      BY <1>t, <1>2, <2>1, PlaceFacts
    <3>2. counter + 1 \in Serials
      BY <1>t, BoundsAssumption DEF Reserve, CtlOK, Serials
    <3>3. [ctl.me EXCEPT !.serial = counter + 1] \in AttemptRecords
      BY <2>1, <3>2 DEF AttemptRecords
    <3>q. QED
      BY <2>1, <3>1, <3>3
  <2>3. /\ Mine(p) # {} => i \in Mine(p)
        /\ Mine(p) = {} => i \in Usable
    BY <1>t, <1>2, <2>2, PlaceFacts
  <2>4. PICK next : next = Inherit(attempts[i], new)
    OBVIOUS
  <2>5. attempts[i] \in AttemptRecords
    BY <1>t, <2>2
  <2>6. /\ next \in AttemptRecords /\ next.serial = counter + 1 /\ next.peer = p
    BY <2>2, <2>4, <2>5, InheritFacts DEF AttemptRecords
  <2>7. PICK ended \in SUBSET AttemptRecords :
          ended = {attempts[i]} \ {attempts[j] : j \in Mine(p)}
    BY <2>5
  <2>8. /\ attempts' = [attempts EXCEPT ![i] = next] /\ counter' = counter + 1
        /\ ctl' = [CtlIdle EXCEPT !.pc = "pin", !.place = i, !.me = next,
                                  !.prev = attempts[i]]
        /\ history' = Over(ended)
    BY <1>2, <2>2, <2>4, <2>7 DEF Reserve
  <2>9. /\ \A q \in Peers : history'.lost[q] \in EndedSerials(q, ended)
        /\ \A q \in Peers : history'.lost[q] >= history.lost[q]
        /\ history' \in Histories
    BY <1>t, <2>8, OverFacts
  <2>10. \A j \in Places : attempts'[j] = IF j = i THEN next ELSE attempts[j]
    BY <1>t, <2>8
  <2>11. /\ Live' = Live \cup {i}
         /\ \A j \in Live' : /\ j = i => attempts'[j] = next
                             /\ j # i => j \in Live /\ attempts'[j] = attempts[j]
    BY <2>6, <2>8, <2>10, <1>t DEF Live
  <2>12. \A b \in ended : b = attempts[i] /\ i \notin Mine(p)
    BY <2>7
  <2>13. \A q \in Peers : \/ history'.lost[q] = history.lost[q]
                          \/ /\ history'.lost[q] = attempts[i].serial
                             /\ attempts[i].peer = q /\ i \notin Mine(p)
    BY <2>9, <2>12 DEF EndedSerials
  <2>14. \A q \in Peers : history'.lost[q] <= counter
    <3>1. attempts[i].serial <= counter
      BY <1>t, <2>5 DEF TableInv, TableOK, Live, AttemptRecords, Serials
    <3>q. QED
      BY <2>13, <3>1 DEF TableInv, TableOK
  <2>15. \A j \in Live : j # i => attempts[j].peer # p
    BY <2>3 DEF Mine, TableInv, TableOK, OneAttemptPerPeer
  <2>16. \A j \in Live : j # i => history'.lost[attempts[j].peer] = history.lost[attempts[j].peer]
    <3>1. SUFFICES ASSUME NEW j \in Live, j # i,
                          history'.lost[attempts[j].peer] # history.lost[attempts[j].peer]
                   PROVE  FALSE
      OBVIOUS
    <3>2. attempts[j].peer \in Peers
      BY <1>t DEF AttemptsOK
    <3>3. attempts[i].peer = attempts[j].peer
      BY <2>13, <3>1, <3>2
    <3>4. attempts[i].serial # 0
      BY <3>2, <3>3, Defaults, <2>2 DEF TableInv, TableOK
    <3>q. QED
      BY <3>1, <3>3, <3>4, <2>2 DEF TableInv, TableOK, OneAttemptPerPeer, Live
  <2>17. TableOK'
    <3>1. \A j \in Places : attempts'[j].serial = 0 => attempts'[j] = NoAttempt
      BY <1>t, <2>6, <2>10 DEF TableInv, TableOK
    <3>2. ASSUME NEW j \in Live'
          PROVE  /\ attempts'[j].serial <= counter'
                 /\ attempts'[j].serial > history'.lost[attempts'[j].peer]
      <4>1. CASE j = i
        <5>1. history'.lost[p] <= counter /\ history'.lost[p] \in Nat
          BY <2>9, <2>14 DEF Histories, Serials
        <5>q. QED
          BY <1>t, <2>6, <2>8, <2>11, <4>1, <5>1
      <4>2. CASE j # i
        <5>1. j \in Live /\ attempts'[j] = attempts[j] /\ attempts[j].serial \in Nat
          <6>1. j \in Live /\ attempts'[j] = attempts[j]
            BY <2>11, <4>2
          <6>2. attempts[j] \in AttemptRecords
            BY <1>t, <6>1 DEF Live
          <6>q. QED
            BY <6>1, <6>2 DEF AttemptRecords, Serials
        <5>2. attempts[j].serial <= counter
              /\ attempts[j].serial > history.lost[attempts[j].peer]
          BY <5>1 DEF TableInv, TableOK
        <5>q. QED
          BY <1>t, <2>8, <2>16, <4>2, <5>1, <5>2
      <4>q. QED
        BY <4>1, <4>2
    <3>3. \A j, k \in Live' : attempts'[j].serial = attempts'[k].serial => j = k
      BY <1>t, <2>6, <2>10, <2>11 DEF TableInv, TableOK, Live, AttemptRecords, Serials
    <3>4. OneAttemptPerPeer'
      <4>1. SUFFICES ASSUME NEW j \in Live', NEW k \in Live',
                            attempts'[j].peer = attempts'[k].peer
                     PROVE  j = k
        BY DEF OneAttemptPerPeer
      <4>2. \A m, n \in Live : attempts[m].peer = attempts[n].peer => m = n
        BY DEF TableInv, TableOK, OneAttemptPerPeer
      <4>q. QED
        BY <2>6, <2>11, <2>15, <4>1, <4>2
    <3>5. \A q \in Peers : history'.lost[q] <= counter'
      BY <1>t, <2>8, <2>9, <2>14 DEF Histories, Serials
    <3>q. QED
      BY <3>1, <3>2, <3>3, <3>4, <3>5 DEF TableOK
  <2>18. /\ ctl'.me = next /\ ctl'.prev = attempts[i] /\ ctl'.place = i /\ ctl'.pc = "pin"
    BY <2>8 DEF CtlIdle
  <2>19. attempts[i].serial \in Nat /\ attempts[i].serial <= counter
    BY <1>t, <2>5 DEF TableInv, TableOK, Live, AttemptRecords, Serials
  <2>20. CarriedOK'
    BY <1>t, <2>2, <2>6, <2>8, <2>10, <2>11, <2>18, <2>19 DEF CarriedOK, TableInv, TableOK,
       Live, AttemptRecords, Serials
  <2>21. RequestOK'
    <3>1. attempts[i].serial < next.serial
      BY <1>t, <2>6, <2>19
    <3>2. attempts[i].serial # 0 /\ attempts[i].peer # p => attempts[i].expired
      BY <2>2, <2>3 DEF Usable, Mine, Live
    <3>3. \A j \in Live' : attempts'[j].serial = next.serial => j = i
      BY <1>t, <2>6, <2>10, <2>11, <2>19 DEF TableInv, TableOK, Live, AttemptRecords, Serials
    <3>4. \A j \in Live' : attempts'[j].peer \in {p, attempts[i].peer} => j = i
      BY <1>t, <2>10, <2>11, <2>15, Defaults, <2>2 DEF TableInv, TableOK, OneAttemptPerPeer,
         Live, AttemptsOK
    <3>5. \A j \in Live' : attempts'[j].serial # attempts[i].serial
      BY <1>t, <2>2, <2>6, <2>10, <2>11, <2>19 DEF TableInv, TableOK, Live, AttemptRecords
    <3>6. ASSUME attempts[i].serial # 0, ~attempts[i].expired
          PROVE  attempts[i].serial > history'.lost[attempts[i].peer]
      <4>1. attempts[i].peer = p /\ i \in Mine(p)
        BY <2>2, <2>3, <3>2, <3>6 DEF Mine, Live
      <4>2. history'.lost[p] = history.lost[p]
        BY <2>13, <4>1
      <4>q. QED
        BY <4>1, <4>2 DEF TableInv, TableOK, Mine
    <3>q. QED
      BY <2>2, <2>6, <2>10, <2>18, <3>1, <3>2, <3>3, <3>4, <3>5, <3>6
         DEF RequestOK, TableInv, TableOK
  <2>q. QED
    BY <2>17, <2>20, <2>21 DEF TableInv
<1>q. QED
  BY <1>1, <1>2

\* A rollback puts the earlier attempt back only where the reservation still is.
LEMMA UndoTable == TypeInv /\ TypeInv' /\ TableInv /\ Undo => TableInv'
<1> SUFFICES ASSUME TypeInv, TypeInv', TableInv, Undo PROVE TableInv'
  OBVIOUS
<1>t. /\ HistoryOK /\ counter \in Nat /\ counter' = counter
      /\ \A p \in Peers : history.lost[p] \in Nat
      /\ attempts \in [Places -> AttemptRecords] /\ attempts' \in [Places -> AttemptRecords]
      /\ ctl.place \in Places /\ ctl.me \in AttemptRecords /\ ctl.prev \in AttemptRecords
      /\ (ctl.prev.serial # 0 => ctl.prev.peer \in Peers)
  BY DEF TypeInv, HistoryOK, Histories, Serials, AttemptsOK, CtlOK, CtlRecords, Undo
<1>s. ctl.me.serial \in Nat /\ ctl.prev.serial \in Nat
  BY <1>t DEF AttemptRecords, Serials
<1>r. /\ Requesting /\ ctl.me.serial # 0 /\ ctl.me.peer \in Peers
      /\ ctl.me.serial <= counter /\ ctl.prev.serial <= counter
  BY DEF Undo, Requesting, Carrying, TableInv, CarriedOK
<1>1. PICK back \in AttemptRecords, ended \in SUBSET AttemptRecords :
        back = Restored(ctl.prev) /\ ended = {ctl.prev} \ {back}
  BY <1>t, Defaults DEF Restored
<1>2. /\ attempts' = IF StillReserved THEN [attempts EXCEPT ![ctl.place] = back]
                     ELSE attempts
      /\ ctl' = [ctl EXCEPT !.pc = "undopins"]
      /\ history' = Over(ended)
  BY <1>1 DEF Undo
<1>3. /\ \A q \in Peers : history'.lost[q] \in EndedSerials(q, ended)
      /\ \A q \in Peers : history'.lost[q] >= history.lost[q]
      /\ history' \in Histories
  BY <1>t, <1>1, <1>2, OverFacts
<1>4. \A q \in Peers : history'.lost[q] \in Nat
  BY <1>3 DEF Histories, Serials
<1>5. \A q \in Peers : \/ history'.lost[q] = history.lost[q]
                       \/ /\ history'.lost[q] = ctl.prev.serial /\ ctl.prev.peer = q
                          /\ back # ctl.prev
  BY <1>1, <1>3 DEF EndedSerials
<1>6. /\ back = NoAttempt \/ back = ctl.prev
      /\ back = ctl.prev => \/ ctl.prev.serial # 0 /\ ~ctl.prev.expired
                            \/ ctl.prev = NoAttempt
  BY <1>1 DEF Restored
<1>7. /\ ctl'.me = ctl.me /\ ctl'.prev = ctl.prev /\ ctl'.place = ctl.place
      /\ ctl'.pc = "undopins"
  BY <1>2, <1>t DEF TypeInv, CtlOK, CtlRecords
<1>8. RequestOK' /\ Carrying
  BY <1>7 DEF RequestOK, Requesting, Carrying, Undo
\* The attempts that stay have lost nothing.
<1>9. ASSUME NEW j \in Live, attempts[j].serial # ctl.me.serial
      PROVE  /\ attempts[j].peer \in Peers
             /\ attempts[j].peer # ctl.prev.peer /\ attempts[j].peer # ctl.me.peer
             /\ history'.lost[attempts[j].peer] = history.lost[attempts[j].peer]
  <2>1. attempts[j].peer \in Peers
    BY DEF TypeInv, AttemptsOK
  <2>2. attempts[j].peer # ctl.prev.peer /\ attempts[j].peer # ctl.me.peer
    BY <1>9, <1>r DEF TableInv, RequestOK
  <2>q. QED
    BY <1>5, <2>1, <2>2
<1>10. \A j \in Live : attempts[j].serial = ctl.me.serial => j = ctl.place
  BY <1>r DEF TableInv, RequestOK
<1>11. \A q \in Peers : history'.lost[q] <= counter
  BY <1>5, <1>r DEF TableInv, TableOK
<1>12. CASE ~StillReserved
  <2>1. UNCHANGED attempts
    BY <1>2, <1>12
  <2>2. \A j \in Places : attempts[j].serial # 0 => attempts[j].serial # ctl.me.serial
    BY <1>10, <1>12 DEF StillReserved, Live
  <2>3. NoneAdded
    <3>1. \A i \in Places : attempts'[i].serial # 0 =>
            history'.lost[attempts[i].peer] = history.lost[attempts[i].peer]
      BY <1>9, <2>1, <2>2 DEF Live
    <3>q. QED
      BY <1>t, <1>11, <2>1, <3>1 DEF NoneAdded, TableInv, TableOK
  <2>4. GoesOn
    BY <1>7, <1>8 DEF GoesOn, Requesting
  <2>q. QED
    BY <2>3, <2>4, TableKept
<1>13. CASE StillReserved /\ back.serial = 0
  <2>1. \A j \in Places : attempts'[j] = IF j = ctl.place THEN back ELSE attempts[j]
    BY <1>2, <1>13, <1>t
  <2>2. back = NoAttempt
    BY <1>6, <1>13, <1>r DEF TableInv, RequestOK
  <2>3. \A j \in Places : j # ctl.place /\ attempts[j].serial # 0 =>
          attempts[j].serial # ctl.me.serial
    BY <1>10 DEF Live
  <2>4. NoneAdded
    <3>1. \A i \in Places : attempts'[i].serial # 0 =>
            history'.lost[attempts[i].peer] = history.lost[attempts[i].peer]
      BY <1>9, <1>13, <2>1, <2>3 DEF Live
    <3>2. \A i \in Places :
            \/ attempts'[i] = NoAttempt
            \/ /\ attempts[i].serial # 0 /\ attempts'[i].serial = attempts[i].serial
               /\ Tuple(attempts'[i]) = Tuple(attempts[i])
      BY <2>1, <2>2 DEF TableInv, TableOK
    <3>q. QED
      BY <1>t, <1>11, <3>1, <3>2 DEF NoneAdded
  <2>5. GoesOn
    BY <1>7, <1>8 DEF GoesOn, Requesting
  <2>q. QED
    BY <2>4, <2>5, TableKept
<1>14. CASE StillReserved /\ back.serial # 0
  <2>1. back = ctl.prev /\ ctl.prev.serial # 0 /\ ~ctl.prev.expired
    BY <1>6, <1>14, Defaults
  <2>2. /\ attempts[ctl.place].serial = ctl.me.serial /\ ctl.place \in Live
        /\ ctl.prev.peer = ctl.me.peer /\ ctl.prev.peer \in Peers
        /\ ctl.prev.serial > history.lost[ctl.prev.peer]
        /\ ctl.prev.serial < ctl.me.serial
    BY <1>14, <1>r, <1>t, <2>1 DEF StillReserved, Live, TableInv, RequestOK
  <2>3. \A j \in Places : attempts'[j] = IF j = ctl.place THEN ctl.prev ELSE attempts[j]
    BY <1>2, <1>14, <1>t, <2>1
  <2>4. /\ Live' = Live
        /\ \A j \in Live : j # ctl.place => attempts[j].serial # ctl.me.serial
    BY <1>10, <1>t, <2>1, <2>2, <2>3 DEF Live
  <2>5. \A q \in Peers : history'.lost[q] = history.lost[q]
    BY <1>5, <2>1
  <2>6. ASSUME NEW j \in Live, j # ctl.place
        PROVE  /\ attempts'[j] = attempts[j]
               /\ attempts[j].peer # ctl.prev.peer
               /\ attempts[j].serial # ctl.prev.serial
    <3>1. j \in Places
      BY DEF Live
    <3>q. QED
      BY <1>9, <1>r, <2>3, <2>4, <2>6, <3>1 DEF TableInv, RequestOK
  <2>7. attempts'[ctl.place] = ctl.prev
    BY <1>t, <2>3
  <2>8. TableOK'
    <3>1. \A j \in Places : attempts'[j].serial = 0 => attempts'[j] = NoAttempt
      BY <2>1, <2>3 DEF TableInv, TableOK
    <3>2. \A j \in Live' : /\ attempts'[j].serial <= counter'
                           /\ attempts'[j].serial > history'.lost[attempts'[j].peer]
      <4>1. SUFFICES ASSUME NEW j \in Live
                     PROVE  /\ attempts'[j].serial <= counter
                            /\ attempts'[j].serial > history'.lost[attempts'[j].peer]
        BY <1>t, <2>4
      <4>2. CASE j = ctl.place
        BY <1>r, <2>2, <2>5, <2>7, <4>2
      <4>3. CASE j # ctl.place
        BY <1>9, <2>4, <2>6, <4>3 DEF TableInv, TableOK
      <4>q. QED
        BY <4>2, <4>3
    <3>3. \A j, k \in Live : attempts'[j].serial = attempts'[k].serial => j = k
      BY <2>6, <2>7 DEF TableInv, TableOK
    <3>4. \A j, k \in Live : attempts'[j].peer = attempts'[k].peer => j = k
      BY <2>6, <2>7 DEF TableInv, TableOK, OneAttemptPerPeer
    <3>q. QED
      BY <1>t, <1>11, <2>4, <3>1, <3>2, <3>3, <3>4 DEF TableOK, OneAttemptPerPeer
  <2>9. CarriedOK'
    <3>1. \A j \in Live : attempts'[j].serial # ctl.me.serial
      BY <1>s, <2>2, <2>4, <2>6, <2>7
    <3>q. QED
      BY <1>t, <1>r, <1>7, <2>4, <3>1 DEF CarriedOK
  <2>q. QED
    BY <1>8, <2>8, <2>9 DEF TableInv
<1>q. QED
  BY <1>12, <1>13, <1>14

\* The other steps of a request, and of what follows it.
LEMMA RequestTable ==
    TypeInv /\ TypeInv' /\ TableInv /\ (RequestStep \/ CommitStep \/ RollbackStep) => TableInv'
<1> SUFFICES ASSUME TypeInv, TypeInv', TableInv, RequestStep \/ CommitStep \/ RollbackStep
             PROVE  TableInv'
  OBVIOUS
<1>t. ctl \in CtlRecords
  BY DEF TypeInv, CtlOK
\* Only the place moves.
<1>m. ASSUME NEW to, ctl' = [ctl EXCEPT !.pc = to],
             to \in {"pin", "install", "respond", "commit", "undo"} => Requesting,
             to \notin {"idle", "reserve", "xpins", "xslots"} => Carrying
      PROVE  GoesOn
  <2>1. ctl'.pc = to /\ ctl'.me = ctl.me /\ ctl'.prev = ctl.prev /\ ctl'.place = ctl.place
    BY <1>m, <1>t DEF CtlRecords
  <2>q. QED
    BY <1>m, <2>1 DEF GoesOn, Requesting, Carrying
<1>1. ASSUME NEW p \in Peers, Ask(p) PROVE TableInv'
  <2>1. Drops
    BY <1>1 DEF Ask, CtlIdle, NoAttempt, Drops, Carrying
  <2>q. QED
    BY <1>1, <2>1, TableKept, NothingAdded DEF Ask
<1>2. ASSUME PinRead PROVE TableInv'
  <2>1. ctl'.me = ctl.me /\ ctl'.prev = ctl.prev /\ ctl'.place = ctl.place
    BY <1>2, <1>t DEF PinRead, CtlRecords
  <2>2. ctl.pc = "pin" => ctl'.pc \in {"respond", "install", "undo"}
    BY <1>2, <1>t DEF PinRead, CtlRecords, Pinned, NotPinned
  <2>3. ctl.pc = "repin" => ctl'.pc \in {"copy", "reinstall", "idle"}
    BY <1>2, <1>t DEF PinRead, CtlRecords, Pinned, NotPinned
  <2>4. GoesOn
    BY <1>2, <2>1, <2>2, <2>3 DEF PinRead, Pinning, GoesOn, Requesting, Carrying
  <2>q. QED
    BY <1>2, <2>4, TableKept, NothingAdded DEF PinRead
<1>3. ASSUME PinInstall PROVE TableInv'
  <2>1. PICK to : to \in {Pinned, NotPinned(ctl.pc)} /\ ctl' = [ctl EXCEPT !.pc = to]
    BY <1>3 DEF PinInstall
  <2>2. /\ ctl.pc = "install" => to \in {"respond", "undo"}
        /\ ctl.pc = "reinstall" => to \in {"copy", "idle"}
    BY <2>1 DEF Pinned, NotPinned
  <2>3. GoesOn
    BY <1>3, <1>m, <2>1, <2>2 DEF PinInstall, Requesting, Carrying
  <2>4. NoneAdded
    <3>1. CASE UNCHANGED attempts
      BY <1>3, <3>1, NothingAdded DEF PinInstall
    <3>2. ASSUME NEW i \in Unexpired(Current(ctl.me.serial)),
                 attempts' = [attempts EXCEPT ![i].rev = ctl.rev]
          PROVE  NoneAdded
      <4>1. i \in Live /\ i \in Places /\ attempts \in [Places -> AttemptRecords]
        BY DEF Unexpired, Current, Live, TypeInv, AttemptsOK
      <4>2. PICK a : a = [attempts[i] EXCEPT !.rev = ctl.rev]
        OBVIOUS
      <4>3. a.serial = attempts[i].serial /\ Tuple(a) = Tuple(attempts[i])
        BY <4>1, <4>2 DEF AttemptRecords, Tuple
      <4>4. attempts' = [attempts EXCEPT ![i] = a]
        BY <3>2, <4>1, <4>2
      <4>5. PICK f : f = [k \in {i} |-> a]
        OBVIOUS
      <4>6. /\ attempts' = [j \in Places |-> IF j \in {i} THEN f[j] ELSE attempts[j]]
            /\ \A k \in {i} : /\ f[k].serial = attempts[k].serial
                              /\ Tuple(f[k]) = Tuple(attempts[k])
        BY <4>1, <4>3, <4>4, <4>5
      <4>7. UNCHANGED counter /\ history'.lost = history.lost /\ {i} \in SUBSET Live
        BY <1>3, <4>1 DEF PinInstall
      <4>q. QED
        BY <4>6, <4>7, NothingAdded
    <3>q. QED
      BY <1>3, <3>1, <3>2 DEF PinInstall
  <2>q. QED
    BY <2>3, <2>4, TableKept
<1>4. ASSUME Respond PROVE TableInv'
  <2>1. GoesOn
    BY <1>4, <1>m DEF Respond, Requesting, Carrying
  <2>q. QED
    BY <1>4, <2>1, TableKept, NothingAdded DEF Respond
<1>5. ASSUME CommitCheck PROVE TableInv'
  <2>1. GoesOn
    BY <1>5, <1>m DEF CommitCheck, Requesting, Carrying
  <2>q. QED
    BY <1>5, <2>1, TableKept, NothingAdded DEF CommitCheck
<1>6. ASSUME CommitLost PROVE TableInv'
  <2>1. history'.lost = history.lost
    BY <1>6 DEF CommitLost, TypeInv, HistoryOK, Histories
  <2>q. QED
    BY <1>6, <2>1, CtlIdleDrops, TableKept, NothingAdded DEF CommitLost
<1>7. ASSUME DropPrevPin PROVE TableInv'
  <2>1. GoesOn
    BY <1>7, <1>m DEF DropPrevPin, Requesting, Carrying
  <2>q. QED
    BY <1>7, <2>1, TableKept, NothingAdded DEF DropPrevPin
<1>8. ASSUME DropOldSlots PROVE TableInv'
  <2>1. GoesOn
    BY <1>8, <1>m DEF DropOldSlots, Requesting, Carrying
  <2>q. QED
    BY <1>8, <2>1, TableKept, NothingAdded DEF DropOldSlots
<1>9. ASSUME UndoPins PROVE TableInv'
  BY <1>9, CtlIdleDrops, TableKept, NothingAdded DEF UndoPins
<1>q. QED
  BY <1>1, <1>2, <1>3, <1>4, <1>5, <1>6, <1>7, <1>8, <1>9, ReserveTable, UndoTable
     DEF RequestStep, CommitStep, RollbackStep

\* A thread that copies an attempt of the table carries that attempt.
LEMMA CopyTable ==
    ASSUME TypeInv, TableInv, UNCHANGED <<attempts, counter>>, history'.lost = history.lost,
           NEW i \in Live, NEW to \in {"repin", "store"},
           ctl' = [CtlIdle EXCEPT !.pc = to, !.me = attempts[i]]
    PROVE  TableInv'
<1>1. /\ ctl'.me = attempts[i] /\ ctl'.prev = NoAttempt /\ ctl'.pc = to
  BY DEF CtlIdle
<1>2. TableOK'
  BY DEF TableInv, TableOK, OneAttemptPerPeer, Live
<1>3. CarriedOK'
  <2>1. attempts[i].serial <= counter /\ attempts[i].serial # 0 /\ attempts[i].peer \in Peers
    BY DEF TableInv, TableOK, Live, TypeInv, AttemptsOK
  <2>2. \A j \in Live : attempts[j].serial = attempts[i].serial => j = i
    BY DEF TableInv, TableOK
  <2>3. counter \in Nat /\ NoAttempt.serial = 0
    BY DEF TypeInv, HistoryOK, Serials, NoAttempt
  <2>q. QED
    BY <1>1, <2>1, <2>2, <2>3 DEF CarriedOK, Live
<1>4. RequestOK'
  BY <1>1 DEF RequestOK, Requesting
<1>q. QED
  BY <1>2, <1>3, <1>4 DEF TableInv

\* Deliveries, expiries and the status.
LEMMA UpkeepTable ==
    TypeInv /\ TypeInv' /\ TableInv /\ (DeliverStep \/ ExpireStep \/ StatusStep) => TableInv'
<1> SUFFICES ASSUME TypeInv, TypeInv', TableInv, DeliverStep \/ ExpireStep \/ StatusStep
             PROVE  TableInv'
  OBVIOUS
<1>t. ctl \in CtlRecords /\ history \in Histories /\ attempts \in [Places -> AttemptRecords]
  BY DEF TypeInv, CtlOK, HistoryOK, AttemptsOK
<1>1. ASSUME Deliver PROVE TableInv'
  <2>1. GoesOn
    BY <1>1, <1>t DEF Deliver, GoesOn, Requesting, Carrying, CtlRecords
  <2>q. QED
    BY <1>1, <2>1, TableKept, NothingAdded DEF Deliver
<1>2. ASSUME NEW i \in Places, Redeliver(i) PROVE TableInv'
  BY <1>2, CopyTable DEF Redeliver, Unexpired
<1>3. ASSUME CopyPinned PROVE TableInv'
  <2>1. history'.lost = history.lost
    BY <1>3, <1>t DEF CopyPinned, Histories
  <2>q. QED
    BY <1>3, <2>1, CtlIdleDrops, TableKept, NothingAdded DEF CopyPinned
<1>4. ASSUME ExpireAttempts PROVE TableInv'
  <2>1. PICK late \in SUBSET AttemptRecords :
          late = {attempts[i] : i \in {j \in Live : attempts[j].expired}}
    BY <1>t DEF Live
  <2>2. /\ ctl' = [CtlIdle EXCEPT !.pc = "xpins", !.late = late]
        /\ attempts' = [i \in Places |-> IF attempts[i] \in late THEN NoAttempt
                                         ELSE attempts[i]]
        /\ history' = Over(late) /\ UNCHANGED counter
    BY <1>4, <2>1 DEF ExpireAttempts
  <2>3. \A q \in Peers : history'.lost[q] \in EndedSerials(q, late)
    BY <2>2, OverFacts DEF TypeInv
  <2>4. \A q \in Peers : \/ history'.lost[q] = history.lost[q]
                         \/ \E j \in Live : /\ attempts[j] \in late /\ attempts[j].peer = q
                                            /\ history'.lost[q] = attempts[j].serial
    BY <2>1, <2>3 DEF EndedSerials
  <2>5. NoneAdded
    <3>1. ASSUME NEW i \in Places, attempts'[i].serial # 0
          PROVE  history'.lost[attempts[i].peer] = history.lost[attempts[i].peer]
      <4>1. attempts[i] \notin late /\ i \in Live
        BY <2>2, <3>1, Defaults DEF Live
      <4>2. attempts[i].peer \in Peers
        BY <4>1 DEF TypeInv, AttemptsOK
      <4>q. QED
        BY <2>4, <4>1, <4>2 DEF TableInv, TableOK, OneAttemptPerPeer
    <3>2. \A q \in Peers : history'.lost[q] <= counter
      BY <2>4 DEF TableInv, TableOK
    <3>q. QED
      BY <2>2, <3>1, <3>2 DEF NoneAdded, TableInv, TableOK
  <2>6. Drops
    BY <2>2 DEF CtlIdle, NoAttempt, Drops, Carrying
  <2>q. QED
    BY <2>5, <2>6, TableKept
<1>5. ASSUME ExpirePins PROVE TableInv'
  <2>1. GoesOn
    BY <1>5, <1>t DEF ExpirePins, GoesOn, Requesting, Carrying, CtlRecords
  <2>q. QED
    BY <1>5, <2>1, TableKept, NothingAdded DEF ExpirePins
<1>6. ASSUME ExpireSlots PROVE TableInv'
  BY <1>6, CtlIdleDrops, TableKept, NothingAdded DEF ExpireSlots
<1>7. ASSUME NEW p \in Peers, StatusArrives(p) PROVE TableInv'
  <2>1. CASE UNCHANGED ctl
    BY <1>7, <2>1, SameCtl, TableKept, NothingAdded DEF StatusArrives
  <2>2. ASSUME NEW i \in Unexpired(Mine(p)),
               ctl' = [CtlIdle EXCEPT !.pc = "store", !.me = attempts[i]]
        PROVE  TableInv'
    BY <1>7, <2>2, CopyTable DEF StatusArrives, Unexpired, Mine
  <2>q. QED
    BY <1>7, <2>1, <2>2 DEF StatusArrives
<1>8. ASSUME NEW p \in Peers, Consume(p) PROVE TableInv'
  BY <1>8, SameCtl, TableKept, NothingAdded DEF Consume
<1>9. ASSUME StoreStatus PROVE TableInv'
  BY <1>9, CtlIdleDrops, TableKept, NothingAdded DEF StoreStatus
<1>10. ASSUME TakeSlot PROVE TableInv'
  <2>1. history'.lost = history.lost
    BY <1>10, <1>t DEF TakeSlot, Histories
  <2>q. QED
    BY <1>10, <2>1, SameCtl, TableKept, NothingAdded DEF TakeSlot
<1>11. ASSUME MarkStatus PROVE TableInv'
  <2> DEFINE f == [i \in Places |-> [attempts[i] EXCEPT !.status = TRUE, !.expired = FALSE]]
  <2>1. Marked(game.peer, game.nonce) \in SUBSET Live
    BY DEF Marked, Mine
  <2>2. \A i \in Marked(game.peer, game.nonce) :
          f[i].serial = attempts[i].serial /\ Tuple(f[i]) = Tuple(attempts[i])
    BY <1>t, <2>1 DEF AttemptRecords, Tuple, Live
  <2>3. attempts' = [i \in Places |-> IF i \in Marked(game.peer, game.nonce) THEN f[i]
                                      ELSE attempts[i]]
    BY <1>11 DEF MarkStatus
  <2> HIDE DEF f
  <2>q. QED
    BY <1>11, <2>1, <2>2, <2>3, SameCtl, TableKept, NothingAdded DEF MarkStatus
<1>q. QED
  BY <1>1, <1>2, <1>3, <1>4, <1>5, <1>6, <1>7, <1>8, <1>9, <1>10, <1>11
     DEF DeliverStep, ExpireStep, StatusStep

\* Payloads, clears, peer losses, time and members.
LEMMA OtherTable ==
    /\ TypeInv /\ TypeInv' /\ TableInv
    /\ PayloadStep \/ ClearStep \/ LoseStep \/ WorldStep
    => TableInv'
<1> SUFFICES ASSUME TypeInv, TypeInv', TableInv,
                    PayloadStep \/ ClearStep \/ LoseStep \/ WorldStep
             PROVE  TableInv'
  OBVIOUS
<1>t. ctl \in CtlRecords /\ history \in Histories /\ attempts \in [Places -> AttemptRecords]
  BY DEF TypeInv, CtlOK, HistoryOK, AttemptsOK
\* Neither the table nor the control thread.
<1>n. ASSUME UNCHANGED <<attempts, ctl, counter>>, history'.lost = history.lost
      PROVE  TableInv'
  BY <1>n, SameCtl, TableKept, NothingAdded
<1>1. ASSUME NEW t \in Senders, NEW event \in Events, Capture(t, event) PROVE TableInv'
  BY <1>1, <1>n DEF Capture
<1>2. ASSUME NEW t \in Senders,
             StorePayload(t) \/ Spread(t) \/ Look(t) \/ CopyCache(t) \/ Refresh(t) \/ Sent(t)
      PROVE  TableInv'
  <2>1. UNCHANGED <<attempts, ctl, counter, history>>
    BY <1>2 DEF StorePayload, Spread, Look, CopyCache, Refresh, Sent
  <2>q. QED
    BY <2>1, <1>n
<1>3. ASSUME NEW t \in Senders, Send(t) PROVE TableInv'
  <2>1. PICK a \in work[t].to, m \in work[t].load :
          \/ attempts' = [i \in Places |->
                            IF i \in Marked(a.peer, a.nonce)
                            THEN [attempts[i] EXCEPT !.sent = @ \cup {m.event}, !.expired = FALSE]
                            ELSE attempts[i]]
          \/ UNCHANGED attempts
    BY <1>3 DEF Send
  <2>2. UNCHANGED <<ctl, counter>> /\ history'.lost = history.lost
    BY <1>3, <1>t DEF Send, Histories
  <2> DEFINE f == [i \in Places |-> [attempts[i] EXCEPT !.sent = @ \cup {m.event},
                                                        !.expired = FALSE]]
  <2>3. Marked(a.peer, a.nonce) \in SUBSET Live
    BY DEF Marked, Mine
  <2>4. \A i \in Marked(a.peer, a.nonce) :
          f[i].serial = attempts[i].serial /\ Tuple(f[i]) = Tuple(attempts[i])
    BY <1>t, <2>3 DEF AttemptRecords, Tuple, Live
  <2>5. \/ attempts' = [i \in Places |-> IF i \in Marked(a.peer, a.nonce) THEN f[i] ELSE attempts[i]]
        \/ UNCHANGED attempts
    BY <2>1
  <2> HIDE DEF f
  <2>q. QED
    BY <2>2, <2>3, <2>4, <2>5, SameCtl, TableKept, NothingAdded
<1>4. ASSUME CommitAuthority \/ RetireAuthority \/ ResetPeers PROVE TableInv'
  <2>1. UNCHANGED <<attempts, ctl, counter, history>>
    BY <1>4 DEF CommitAuthority, RetireAuthority, ResetPeers
  <2>q. QED
    BY <2>1, <1>n
<1>5. ASSUME NEW t \in Threads, ClearAttempts(t) PROVE TableInv'
  <2>1. /\ attempts' = [i \in Places |-> NoAttempt] /\ UNCHANGED <<counter, ctl>>
        /\ history'.lost = [p \in Peers |-> counter]
    BY <1>5, <1>t DEF ClearAttempts, Histories
  <2>2. counter <= counter
    BY DEF TypeInv, HistoryOK, Serials
  <2>3. NoneAdded
    BY <2>1, <2>2, Defaults DEF NoneAdded
  <2>q. QED
    BY <2>1, <2>3, SameCtl, TableKept
<1>6. ASSUME NEW t \in Threads, ClearSlots(t) \/ ClearCache(t) \/ ClearPins(t)
      PROVE  TableInv'
  <2>1. UNCHANGED <<attempts, ctl, counter, history>>
    BY <1>6 DEF ClearSlots, ClearCache, ClearPins
  <2>q. QED
    BY <2>1, <1>n
<1>7. ASSUME NEW p, Losing(p) PROVE TableInv'
  <2>1. /\ attempts' = [i \in Places |-> IF i \in Mine(p) THEN NoAttempt ELSE attempts[i]]
        /\ UNCHANGED <<counter, ctl>>
        /\ history' = [history EXCEPT !.lost[p] = counter]
    BY <1>7 DEF Losing
  <2>2. \A q \in Peers : history'.lost[q] = IF q = p THEN counter ELSE history.lost[q]
    BY <2>1, <1>t DEF Histories
  <2>3. counter <= counter
    BY DEF TypeInv, HistoryOK, Serials
  <2>4. \A i \in Places : attempts'[i].serial # 0 =>
          history'.lost[attempts[i].peer] = history.lost[attempts[i].peer]
    <3>1. SUFFICES ASSUME NEW i \in Places, attempts'[i].serial # 0
                   PROVE  history'.lost[attempts[i].peer] = history.lost[attempts[i].peer]
      OBVIOUS
    <3>2. attempts'[i] = attempts[i] /\ i \notin Mine(p)
      BY <2>1, <3>1, Defaults
    <3>3. i \in Live /\ attempts[i].peer # p
      BY <3>1, <3>2 DEF Live, Mine
    <3>4. attempts[i].peer \in Peers
      BY <3>3 DEF TypeInv, AttemptsOK
    <3>q. QED
      BY <2>2, <3>3, <3>4
  <2>5. \A q \in Peers : history'.lost[q] <= counter
    BY <2>2, <2>3 DEF TableInv, TableOK
  <2>6. NoneAdded
    BY <2>1, <2>4, <2>5 DEF NoneAdded, TableInv, TableOK
  <2>q. QED
    BY <2>1, <2>6, SameCtl, TableKept
<1>8. ASSUME LosePeerSlots \/ LosePeerPins PROVE TableInv'
  <2>1. UNCHANGED <<attempts, ctl, counter, history>>
    BY <1>8 DEF LosePeerSlots, LosePeerPins
  <2>q. QED
    BY <2>1, <1>n
<1>9. ASSUME NEW s \in 1..MaxSerial, Elapse(s) PROVE TableInv'
  <2> DEFINE f == [i \in Places |-> [attempts[i] EXCEPT !.expired = TRUE]]
  <2>1. Current(s) \in SUBSET Live
    BY DEF Current
  <2>2. \A i \in Current(s) :
          f[i].serial = attempts[i].serial /\ Tuple(f[i]) = Tuple(attempts[i])
    BY <1>t, <2>1 DEF AttemptRecords, Tuple, Live
  <2>3. attempts' = [i \in Places |-> IF i \in Current(s) THEN f[i] ELSE attempts[i]]
    BY <1>9 DEF Elapse
  <2> HIDE DEF f
  <2>4. NoneAdded
    BY <1>9, <2>1, <2>2, <2>3, NothingAdded DEF Elapse
  <2>5. PICK b : b = [ctl.prev EXCEPT !.expired = TRUE]
    OBVIOUS
  <2>6. b.serial = ctl.prev.serial /\ b.peer = ctl.prev.peer /\ b.expired
    BY <1>t, <2>5 DEF CtlRecords, AttemptRecords
  <2>7. ctl' = ctl \/ (ctl.prev.serial # 0 /\ ctl' = [ctl EXCEPT !.prev = b])
    BY <1>9, <1>t, <2>5 DEF Elapse, CtlRecords
  <2>8. GoesOn
    <3>1. CASE ctl' = [ctl EXCEPT !.prev = b] /\ ctl.prev.serial # 0
      <4>1. /\ ctl'.pc = ctl.pc /\ ctl'.me = ctl.me /\ ctl'.place = ctl.place
            /\ ctl'.prev = b
        BY <1>t, <3>1 DEF CtlRecords
      <4>q. QED
        BY <2>6, <3>1, <4>1 DEF GoesOn, Requesting, Carrying
    <3>q. QED
      BY <2>7, <3>1, SameCtl
  <2>q. QED
    BY <2>4, <2>8, TableKept
<1>10. ASSUME NEW p \in Peers, FreshNonce(p) \/ Publish(p) PROVE TableInv'
  <2>1. UNCHANGED <<attempts, ctl, counter, history>>
    BY <1>10 DEF FreshNonce, Publish
  <2>q. QED
    BY <2>1, <1>n
<1>11. ASSUME WorldChanges PROVE TableInv'
  BY <1>11, <1>n DEF WorldChanges
<1>12. PayloadStep => TableInv'
  BY <1>1, <1>2, <1>3 DEF PayloadStep
<1>13. ClearStep => TableInv'
  BY <1>4, <1>5, <1>6 DEF ClearStep
<1>14. LoseStep => TableInv'
  BY <1>7, <1>8 DEF LoseStep, LosePeer, LoseNext
<1>15. WorldStep => TableInv'
  BY <1>9, <1>10, <1>11 DEF WorldStep
<1>q. QED
  BY <1>12, <1>13, <1>14, <1>15

LEMMA TableInit == Init => TableInv
<1> SUFFICES ASSUME Init PROVE TableInv
  OBVIOUS
<1>1. Live = {} /\ ctl = CtlIdle /\ counter = 0
  BY DEF Init, Live, NoAttempt
<1>q. QED
  BY <1>1 DEF Init, TableInv, TableOK, CarriedOK, RequestOK, OneAttemptPerPeer, Requesting,
     Carrying, CtlIdle, NoAttempt

LEMMA TableNext == TypeInv /\ TypeInv' /\ TableInv /\ [Next]_vars => TableInv'
<1> SUFFICES ASSUME TypeInv, TypeInv', TableInv, [Next]_vars PROVE TableInv'
  OBVIOUS
<1>1. CASE UNCHANGED vars
  BY <1>1, SameCtl, TableKept, NothingAdded DEF vars
<1>2. CASE Next
  BY <1>2, RequestTable, UpkeepTable, OtherTable DEF Next
<1>q. QED
  BY <1>1, <1>2

LEMMA TableAlways == Spec => []TableInv
BY TypeInit, TypeNext, TableInit, TableNext, PTL DEF Spec

\* A member owns at most one attempt, whatever requests, expiries, rollbacks and
\* losses come in between.
THEOREM HostOneAttemptPerPeer == Spec => []OneAttemptPerPeer
<1>1. TableInv => OneAttemptPerPeer
  BY DEF TableInv, TableOK
<1>q. QED
  BY <1>1, TableAlways, PTL

\* An attempt that has ended with its peer, its expiry or the whole state never
\* comes back, not even by a rollback that was under way.
THEOREM HostLostStaysLost == Spec => []LostStaysLost
<1>1. TableInv => LostStaysLost
  BY DEF TableInv, TableOK, LostStaysLost
<1>q. QED
  BY <1>1, TableAlways, PTL

-----------------------------------------------------------------------------
(* The status: no release before the host's game has consumed it. *)

\* Statuses that members have sent: in a slot, on their way into one, consumed.
Reported == {Tuple(s) : s \in slots} \cup history.consumed
            \cup {Tuple(a) : a \in {b \in {ctl.me} : ctl.pc = "store"}}

\* Attempts that are, or may come to be, in the table.
Carried == {attempts[i] : i \in Live}
           \cup {a \in {ctl.prev} : Requesting /\ a.serial # 0}
           \cup {a \in {ctl.me} : ctl.pc = "reserve"}

\* A status that was sent under a nonce is of the one generation that nonce can
\* still be admitted to.
AgreeOK == \A s \in Reported, a \in Carried :
    s.peer = a.peer /\ s.nonce = a.nonce => s.gen = a.gen

\* A member whose status of its current nonce is under way does not ask again.
SpentOK == \A s \in Reported :
    /\ s.peer \in Peers
    /\ \/ s.nonce < client[s.peer].nonce
       \/ s.nonce = client[s.peer].nonce /\ client[s.peer].sent

MarkedOK == \A a \in Carried : a.status => Tuple(a) \in history.consumed

CopiesOK == \A t \in Senders : \A a \in work[t].to : a.status => Tuple(a) \in history.consumed

TakenOK == game.pc = "mark" => Tuple(game) \in history.consumed

StatusInv == AgreeOK /\ SpentOK /\ MarkedOK /\ CopiesOK /\ TakenOK /\ StatusBeforeRelease

\* Nonces only grow, and a nonce once spent stays spent.
ClientOnward == \A p \in Peers :
    \/ client'[p].nonce > client[p].nonce
    \/ client'[p].nonce = client[p].nonce /\ (client[p].sent => client'[p].sent)

\* Nothing new is carried, and nothing gets a mark.
CarriedKept == \A b \in Carried' : \E a \in Carried :
    Tuple(b) = Tuple(a) /\ (b.status => a.status)

LEMMA StatusKept ==
    ASSUME TypeInv, TypeInv', StatusInv, Reported' \subseteq Reported, ClientOnward, CarriedKept,
           history.consumed \subseteq history'.consumed,
           CopiesOK', TakenOK', StatusBeforeRelease'
    PROVE  StatusInv'
<1>1. AgreeOK'
  <2>1. SUFFICES ASSUME NEW s \in Reported', NEW b \in Carried',
                        s.peer = b.peer, s.nonce = b.nonce
                 PROVE  s.gen = b.gen
    BY DEF AgreeOK
  <2>2. PICK a \in Carried : Tuple(b) = Tuple(a)
    BY DEF CarriedKept
  <2>3. b.peer = a.peer /\ b.nonce = a.nonce /\ b.gen = a.gen
    BY <2>2 DEF Tuple
  <2>q. QED
    BY <2>1, <2>3 DEF StatusInv, AgreeOK
<1>2. SpentOK'
  <2>1. SUFFICES ASSUME NEW s \in Reported
                 PROVE  /\ s.peer \in Peers
                        /\ \/ s.nonce < client'[s.peer].nonce
                           \/ s.nonce = client'[s.peer].nonce /\ client'[s.peer].sent
    BY DEF SpentOK
  <2>2. /\ s.peer \in Peers
        /\ \/ s.nonce < client[s.peer].nonce
           \/ s.nonce = client[s.peer].nonce /\ client[s.peer].sent
    BY DEF StatusInv, SpentOK
  <2>3. /\ client[s.peer].nonce \in Nat /\ client'[s.peer].nonce \in Nat
        /\ s.nonce \in Nat
    <3>1. s.nonce \in Nat
      BY DEF Reported, Tuple, TypeInv, SlotSetOK, SlotRecords, HistoryOK, Histories, CtlOK,
         CtlRecords, AttemptRecords, Nonces
    <3>q. QED
      BY <2>2, <3>1 DEF TypeInv, SharedOK, ClientRecords, Nonces
  <2>q. QED
    BY <2>2, <2>3 DEF ClientOnward
<1>3. MarkedOK'
  BY DEF MarkedOK, CarriedKept, StatusInv
<1>q. QED
  BY <1>1, <1>2, <1>3 DEF StatusInv

\* A step that tells the members, the game thread and the senders nothing.
Silent == /\ slots' \subseteq slots /\ UNCHANGED <<game, work>>
          /\ history'.consumed = history.consumed /\ history'.offered = history.offered
          /\ (ctl'.pc = "store" => ctl.pc = "store" /\ ctl'.me = ctl.me)

LEMMA SilentKept ==
    ASSUME TypeInv, TypeInv', StatusInv, Silent, ClientOnward, CarriedKept
    PROVE  StatusInv'
<1>1. Reported' \subseteq Reported
  BY DEF Silent, Reported
<1>2. CopiesOK' /\ TakenOK' /\ StatusBeforeRelease'
  BY DEF Silent, StatusInv, CopiesOK, TakenOK, StatusBeforeRelease
<1>q. QED
  BY <1>1, <1>2, StatusKept DEF Silent

LEMMA ClientSame == UNCHANGED client => ClientOnward
BY DEF ClientOnward

\* The table keeps the attempts it has, or empties places.
TableFades == \A i \in Live' : i \in Live /\ Tuple(attempts'[i]) = Tuple(attempts[i])
                               /\ (attempts'[i].status => attempts[i].status)

\* The control thread carries no more than before.
CtlFades ==
    /\ ctl'.pc = "reserve" => ctl.pc = "reserve" /\ ctl'.me = ctl.me
    /\ Requesting' => /\ Requesting /\ ctl'.prev.serial = ctl.prev.serial
                      /\ Tuple(ctl'.prev) = Tuple(ctl.prev)
                      /\ (ctl'.prev.status => ctl.prev.status)

LEMMA Fading ==
    ASSUME TableFades, CtlFades
    PROVE  CarriedKept
<1>1. SUFFICES ASSUME NEW b \in Carried'
               PROVE  \E a \in Carried : Tuple(b) = Tuple(a) /\ (b.status => a.status)
  BY DEF CarriedKept
<1>2. ASSUME NEW i \in Live', b = attempts'[i]
      PROVE  \E a \in Carried : Tuple(b) = Tuple(a) /\ (b.status => a.status)
  BY <1>2 DEF TableFades, Carried
<1>3. ASSUME Requesting', b = ctl'.prev, b.serial # 0
      PROVE  \E a \in Carried : Tuple(b) = Tuple(a) /\ (b.status => a.status)
  BY <1>3 DEF CtlFades, Carried
<1>4. ASSUME ctl'.pc = "reserve", b = ctl'.me
      PROVE  \E a \in Carried : Tuple(b) = Tuple(a) /\ (b.status => a.status)
  BY <1>4 DEF CtlFades, Carried
<1>q. QED
  BY <1>1, <1>2, <1>3, <1>4 DEF Carried

LEMMA SameTable == UNCHANGED attempts => TableFades
BY DEF TableFades, Live

LEMMA SameCtlFades == UNCHANGED ctl => CtlFades /\ (ctl'.pc = "store" => ctl.pc = "store" /\ ctl'.me = ctl.me)
BY DEF CtlFades, Requesting

\* A retry carries on what its attempt has achieved; nothing else is marked.
LEMMA ReserveStatus == TypeInv /\ TypeInv' /\ TableInv /\ StatusInv /\ Reserve => StatusInv'
<1> SUFFICES ASSUME TypeInv, TypeInv', TableInv, StatusInv, Reserve PROVE StatusInv'
  OBVIOUS
<1>t. /\ AttemptsOK /\ CtlOK /\ HistoryOK /\ attempts \in [Places -> AttemptRecords]
      /\ ctl.me.peer \in Peers /\ ctl.me \in AttemptRecords /\ ~ctl.me.status
      /\ ctl.pc = "reserve" /\ UNCHANGED client
  BY DEF TypeInv, AttemptsOK, CtlOK, CtlRecords, Reserve
<1>1. CASE Mine(ctl.me.peer) \cup Usable = {}
  <2>1. ctl' = CtlIdle /\ UNCHANGED <<attempts, history, slots, game, work, client>>
    BY <1>1 DEF Reserve
  <2>2. CtlFades /\ Silent
    BY <2>1 DEF CtlIdle, CtlFades, Silent, Requesting
  <2>q. QED
    BY <2>1, <2>2, SilentKept, ClientSame, SameTable, Fading
<1>2. CASE Mine(ctl.me.peer) \cup Usable # {}
  <2>1. PICK i \in Places, new \in AttemptRecords :
          i = PlaceFor(ctl.me.peer) /\ new = [ctl.me EXCEPT !.serial = counter + 1]
    <3>1. PlaceFor(ctl.me.peer) \in Places
      BY <1>t, <1>2, PlaceFacts
    <3>2. counter + 1 \in Serials
      BY <1>t, BoundsAssumption DEF CtlOK, HistoryOK, Serials
    <3>3. [ctl.me EXCEPT !.serial = counter + 1] \in AttemptRecords
      BY <1>t, <3>2 DEF AttemptRecords
    <3>q. QED
      BY <3>1, <3>3
  <2>2. PICK next : next = Inherit(attempts[i], new)
    OBVIOUS
  <2>3. attempts[i] \in AttemptRecords
    BY <1>t, <2>1
  <2>4. Tuple(new) = Tuple(ctl.me) /\ new.status = ctl.me.status
    BY <1>t, <2>1 DEF AttemptRecords, Tuple
  <2>5. Tuple(next) = Tuple(ctl.me)
    BY <2>1, <2>2, <2>3, <2>4, InheritFacts
  <2>6. next.status => attempts[i].serial # 0 /\ Tuple(attempts[i]) = Tuple(next)
                       /\ attempts[i].status
    <3>1. CASE SameTuple(attempts[i], new)
      <4>1. next.status = attempts[i].status
        BY <2>1, <2>2, <2>3, <3>1, InheritFacts
      <4>q. QED
        BY <2>4, <2>5, <3>1, <4>1 DEF SameTuple
    <3>2. CASE ~SameTuple(attempts[i], new)
      <4>1. next = new
        BY <2>1, <2>2, <2>3, <3>2, InheritFacts
      <4>q. QED
        BY <1>t, <2>4, <4>1
    <3>q. QED
      BY <3>1, <3>2
  <2>7. PICK ended \in SUBSET AttemptRecords :
          ended = {attempts[i]} \ {attempts[j] : j \in Mine(ctl.me.peer)}
    BY <2>3
  <2>8. /\ attempts' = [attempts EXCEPT ![i] = next]
        /\ ctl' = [CtlIdle EXCEPT !.pc = "pin", !.place = i, !.me = next,
                                  !.prev = attempts[i]]
        /\ history' = Over(ended) /\ UNCHANGED <<slots, game, work, client>>
    BY <1>2, <2>1, <2>2, <2>7 DEF Reserve
  <2>9. ctl'.pc = "pin" /\ ctl'.prev = attempts[i] /\ ctl'.me = next
    BY <2>8 DEF CtlIdle
  <2>10. \A j \in Places : attempts'[j] = IF j = i THEN next ELSE attempts[j]
    BY <1>t, <2>8
  <2>11. Silent
    BY <1>t, <2>7, <2>8, <2>9, OverFacts DEF Silent
  <2>12. CarriedKept
    <3>1. SUFFICES ASSUME NEW b \in Carried'
                   PROVE  \E a \in Carried : Tuple(b) = Tuple(a) /\ (b.status => a.status)
      BY DEF CarriedKept
    <3>2. \/ \E j \in Live' : b = attempts'[j]
          \/ b = attempts[i] /\ b.serial # 0
      BY <2>9 DEF Carried
    <3>3. attempts[i].serial # 0 => attempts[i] \in Carried
      BY <2>1 DEF Carried, Live
    <3>4. ctl.me \in Carried
      BY <1>t DEF Carried
    <3>5. ASSUME NEW j \in Live', b = attempts'[j], j # i
          PROVE  b \in Carried
      BY <2>10, <3>5 DEF Carried, Live
    <3>6. CASE b = next
      <4>1. CASE next.status
        BY <2>6, <3>3, <3>6, <4>1
      <4>2. CASE ~next.status
        BY <2>5, <3>4, <3>6, <4>2
      <4>q. QED
        BY <4>1, <4>2
    <3>7. ASSUME NEW j \in Live', b = attempts'[j], j = i
          PROVE  b = next
      BY <2>10, <3>7 DEF Live
    <3>q. QED
      BY <3>2, <3>3, <3>5, <3>6, <3>7
  <2>q. QED
    BY <2>8, <2>11, <2>12, SilentKept, ClientSame
<1>q. QED
  BY <1>1, <1>2

\* The other steps of a request and of what follows it.
LEMMA RequestStatus ==
    /\ TypeInv /\ TypeInv' /\ TableInv /\ StatusInv
    /\ RequestStep \/ CommitStep \/ RollbackStep
    => StatusInv'
<1> SUFFICES ASSUME TypeInv, TypeInv', TableInv, StatusInv,
                    RequestStep \/ CommitStep \/ RollbackStep
             PROVE  StatusInv'
  OBVIOUS
<1>t. ctl \in CtlRecords /\ attempts \in [Places -> AttemptRecords] /\ history \in Histories
      /\ client \in [Peers -> ClientRecords]
  BY DEF TypeInv, CtlOK, AttemptsOK, HistoryOK, SharedOK
\* Only the place of the control thread moves.
<1>m. ASSUME NEW to, ctl' = [ctl EXCEPT !.pc = to], to \notin {"reserve", "store"},
             to \in {"pin", "install", "respond", "commit", "undo"} => Requesting
      PROVE  CtlFades /\ ctl'.pc # "store"
  BY <1>m, <1>t DEF CtlFades, Requesting, CtlRecords
<1>i. ctl' = CtlIdle => CtlFades /\ ctl'.pc # "store"
  BY DEF CtlIdle, CtlFades, Requesting
<1>1. ASSUME NEW p \in Peers, Ask(p) PROVE StatusInv'
  <2>1. /\ ctl'.pc = "reserve" /\ ctl'.me.peer = p /\ ctl'.me.nonce = client[p].nonce
        /\ ~ctl'.me.status /\ ~client[p].sent
        /\ UNCHANGED <<attempts, slots, game, work, client, history>>
    BY <1>1 DEF Ask, CtlIdle, NoAttempt
  <2>2. Reported' \subseteq Reported
    BY <2>1 DEF Reported
  <2>3. \A b \in Carried' : b \in Carried \/ b = ctl'.me
    BY <2>1 DEF Carried, Requesting, Live
  <2>4. \A s \in Reported : ~(s.peer = p /\ s.nonce = client[p].nonce)
    <3>1. client[p].nonce \in Nat
      BY <1>t DEF ClientRecords, Nonces
    <3>q. QED
      BY <2>1, <3>1 DEF StatusInv, SpentOK
  <2>5. AgreeOK' /\ SpentOK' /\ MarkedOK'
    <3>1. AgreeOK'
      BY <2>1, <2>2, <2>3, <2>4 DEF StatusInv, AgreeOK
    <3>2. SpentOK'
      BY <2>1, <2>2 DEF StatusInv, SpentOK
    <3>3. MarkedOK'
      BY <2>1, <2>3 DEF StatusInv, MarkedOK
    <3>q. QED
      BY <3>1, <3>2, <3>3
  <2>6. CopiesOK' /\ TakenOK' /\ StatusBeforeRelease'
    BY <2>1 DEF StatusInv, CopiesOK, TakenOK, StatusBeforeRelease
  <2>q. QED
    BY <2>5, <2>6 DEF StatusInv
<1>2. ASSUME PinRead PROVE StatusInv'
  <2>1. /\ ctl'.me = ctl.me /\ ctl'.prev = ctl.prev
        /\ ctl.pc = "pin" => ctl'.pc \in {"respond", "install", "undo"}
        /\ ctl.pc = "repin" => ctl'.pc \in {"copy", "reinstall", "idle"}
    BY <1>2, <1>t DEF PinRead, CtlRecords, Pinned, NotPinned
  <2>2. CtlFades /\ ctl'.pc # "store"
    BY <1>2, <2>1 DEF PinRead, Pinning, CtlFades, Requesting
  <2>3. Silent
    BY <1>2, <2>2 DEF PinRead, Silent
  <2>q. QED
    BY <1>2, <2>2, <2>3, SilentKept, ClientSame, SameTable, Fading DEF PinRead
<1>3. ASSUME PinInstall PROVE StatusInv'
  <2>1. PICK to : to \in {Pinned, NotPinned(ctl.pc)} /\ ctl' = [ctl EXCEPT !.pc = to]
    BY <1>3 DEF PinInstall
  <2>2. /\ ctl.pc = "install" => to \in {"respond", "undo"}
        /\ ctl.pc = "reinstall" => to \in {"copy", "idle"}
    BY <2>1 DEF Pinned, NotPinned
  <2>3. CtlFades /\ ctl'.pc # "store"
    BY <1>3, <1>m, <2>1, <2>2 DEF PinInstall, Requesting
  <2>4. TableFades
    <3>1. CASE UNCHANGED attempts
      BY <3>1, SameTable
    <3>2. ASSUME NEW i \in Unexpired(Current(ctl.me.serial)),
                 attempts' = [attempts EXCEPT ![i].rev = ctl.rev]
          PROVE  TableFades
      <4>1. i \in Live /\ i \in Places /\ attempts[i] \in AttemptRecords
        BY <1>t DEF Unexpired, Current, Live
      <4>2. PICK a : a = [attempts[i] EXCEPT !.rev = ctl.rev]
        OBVIOUS
      <4>3. Tuple(a) = Tuple(attempts[i]) /\ a.status = attempts[i].status
        BY <4>1, <4>2 DEF AttemptRecords, Tuple
      <4>4. \A j \in Places : attempts'[j] = IF j = i THEN a ELSE attempts[j]
        BY <3>2, <1>t, <4>1, <4>2
      <4>q. QED
        BY <4>1, <4>3, <4>4 DEF TableFades, Live
    <3>q. QED
      BY <1>3, <3>1, <3>2 DEF PinInstall
  <2>5. Silent /\ UNCHANGED client
    BY <1>3, <2>3 DEF PinInstall, Silent
  <2>q. QED
    BY <2>3, <2>4, <2>5, SilentKept, ClientSame, Fading
<1>4. ASSUME Respond PROVE StatusInv'
  <2>1. CtlFades /\ ctl'.pc # "store"
    BY <1>4, <1>m DEF Respond, Requesting
  <2>2. ClientOnward
    BY <1>4, <1>t DEF Respond, ClientOnward, ClientRecords
  <2>3. Silent /\ UNCHANGED attempts
    BY <1>4, <2>1 DEF Respond, Silent
  <2>q. QED
    BY <2>1, <2>2, <2>3, SilentKept, SameTable, Fading
<1>5. ASSUME CommitCheck PROVE StatusInv'
  <2>1. CtlFades /\ ctl'.pc # "store"
    BY <1>5, <1>m DEF CommitCheck, Requesting
  <2>2. Silent /\ UNCHANGED <<attempts, client>>
    BY <1>5, <2>1 DEF CommitCheck, Silent
  <2>q. QED
    BY <2>1, <2>2, SilentKept, ClientSame, SameTable, Fading
<1>6. ASSUME CommitLost PROVE StatusInv'
  <2>1. Silent /\ UNCHANGED <<attempts, client>> /\ CtlFades
    BY <1>6, <1>i, <1>t DEF CommitLost, Silent, Histories
  <2>q. QED
    BY <2>1, SilentKept, ClientSame, SameTable, Fading
<1>7. ASSUME DropPrevPin PROVE StatusInv'
  <2>1. CtlFades /\ ctl'.pc # "store"
    BY <1>7, <1>m DEF DropPrevPin
  <2>2. Silent /\ UNCHANGED <<attempts, client>>
    BY <1>7, <2>1 DEF DropPrevPin, Silent
  <2>q. QED
    BY <2>1, <2>2, SilentKept, ClientSame, SameTable, Fading
<1>8. ASSUME DropOldSlots PROVE StatusInv'
  <2>0. ctl' = [ctl EXCEPT !.pc = "deliver"]
    BY <1>8 DEF DropOldSlots
  <2>1. CtlFades /\ ctl'.pc # "store"
    BY <2>0, <1>m
  <2>2. Reported' \subseteq Reported
    BY <1>8, <2>1 DEF DropOldSlots, Reported
  <2>3. CopiesOK'
    <3>1. \A t \in Senders : work'[t].to \subseteq work[t].to
      <4>1. work \in [Senders -> WorkRecords] /\ Replay(ctl.me.peer).to = {}
        BY DEF TypeInv, ThreadsOK, Replay, WorkIdle
      <4>q. QED
        BY <1>8, <4>1 DEF DropOldSlots
    <3>2. UNCHANGED history
      BY <1>8 DEF DropOldSlots
    <3>q. QED
      BY <3>1, <3>2 DEF StatusInv, CopiesOK
  <2>4. TakenOK' /\ StatusBeforeRelease'
    BY <1>8 DEF DropOldSlots, StatusInv, TakenOK, StatusBeforeRelease
  <2>5. UNCHANGED <<attempts, client, history>>
    BY <1>8 DEF DropOldSlots
  <2>q. QED
    BY <2>1, <2>2, <2>3, <2>4, <2>5, StatusKept, ClientSame, SameTable, Fading
<1>9. ASSUME Undo PROVE StatusInv'
  <2>1. CtlFades /\ ctl'.pc # "store" /\ Requesting
    BY <1>9, <1>m DEF Undo, Requesting
  <2>2. PICK back \in AttemptRecords, ended \in SUBSET AttemptRecords :
          back = Restored(ctl.prev) /\ ended = {ctl.prev} \ {back}
    BY <1>t, Defaults DEF Restored, CtlRecords
  <2>3. Silent /\ UNCHANGED client
    <3>1. history' = Over(ended)
      BY <1>9, <2>2 DEF Undo
    <3>2. history'.consumed = history.consumed /\ history'.offered = history.offered
      BY <2>2, <3>1, OverFacts DEF TypeInv
    <3>q. QED
      BY <1>9, <2>1, <3>2 DEF Undo, Silent
  <2>4. CarriedKept
    <3>1. back.serial # 0 => back = ctl.prev
      BY <2>2, Defaults DEF Restored
    <3>2. \A j \in Live' : \/ j \in Live /\ attempts'[j] = attempts[j]
                           \/ attempts'[j] = ctl.prev /\ ctl.prev.serial # 0
      <4>1. attempts' = attempts \/ attempts' = [attempts EXCEPT ![ctl.place] = back]
        BY <1>9, <2>2 DEF Undo
      <4>2. CASE attempts' = [attempts EXCEPT ![ctl.place] = back]
        <5>1. \A j \in Places : attempts'[j] = IF j = ctl.place THEN back ELSE attempts[j]
          BY <1>t, <4>2
        <5>q. QED
          BY <3>1, <5>1 DEF Live
      <4>q. QED
        BY <4>1, <4>2 DEF Live
    <3>3. Carried' \subseteq Carried
      <4>1. ~Requesting' /\ ctl'.pc # "reserve"
        BY <1>9, <1>t DEF Undo, Requesting, CtlRecords
      <4>q. QED
        BY <2>1, <3>2, <4>1 DEF Carried
    <3>q. QED
      BY <3>3 DEF CarriedKept
  <2>q. QED
    BY <2>3, <2>4, SilentKept, ClientSame
<1>10. ASSUME UndoPins PROVE StatusInv'
  <2>1. Silent /\ UNCHANGED <<attempts, client>> /\ CtlFades
    BY <1>10, <1>i DEF UndoPins, Silent
  <2>q. QED
    BY <2>1, SilentKept, ClientSame, SameTable, Fading
<1>q. QED
  BY <1>1, <1>2, <1>3, <1>4, <1>5, <1>6, <1>7, <1>8, <1>9, <1>10, ReserveStatus
     DEF RequestStep, CommitStep, RollbackStep

\* Deliveries and expiries.
LEMMA UpkeepStatus ==
    TypeInv /\ TypeInv' /\ TableInv /\ StatusInv /\ (DeliverStep \/ ExpireStep) => StatusInv'
<1> SUFFICES ASSUME TypeInv, TypeInv', TableInv, StatusInv, DeliverStep \/ ExpireStep
             PROVE  StatusInv'
  OBVIOUS
<1>t. ctl \in CtlRecords /\ attempts \in [Places -> AttemptRecords] /\ history \in Histories
  BY DEF TypeInv, CtlOK, AttemptsOK, HistoryOK
<1>1. ASSUME Deliver PROVE StatusInv'
  <2>1. ctl'.pc = "repin"
    BY <1>1, <1>t DEF Deliver, CtlRecords
  <2>2. CtlFades /\ Silent /\ UNCHANGED <<attempts, client>>
    BY <1>1, <2>1 DEF Deliver, Silent, CtlFades, Requesting
  <2>q. QED
    BY <2>2, SilentKept, ClientSame, SameTable, Fading
<1>2. ASSUME NEW i \in Places, Redeliver(i) PROVE StatusInv'
  <2>1. ctl'.pc = "repin"
    BY <1>2 DEF Redeliver, CtlIdle
  <2>2. CtlFades /\ Silent /\ UNCHANGED <<attempts, client>>
    BY <1>2, <2>1 DEF Redeliver, Silent, CtlFades, Requesting
  <2>q. QED
    BY <2>2, SilentKept, ClientSame, SameTable, Fading
<1>3. ASSUME CopyPinned PROVE StatusInv'
  <2>1. ctl'.pc = "idle"
    BY <1>3 DEF CopyPinned, CtlIdle
  <2>2. history'.consumed = history.consumed /\ history'.offered = history.offered
    BY <1>3, <1>t DEF CopyPinned, Histories
  <2>3. CtlFades /\ Silent /\ UNCHANGED <<attempts, client>>
    BY <1>3, <2>1, <2>2 DEF CopyPinned, Silent, CtlFades, Requesting
  <2>q. QED
    BY <2>3, SilentKept, ClientSame, SameTable, Fading
<1>4. ASSUME ExpireAttempts PROVE StatusInv'
  <2>1. PICK late \in SUBSET AttemptRecords :
          late = {attempts[i] : i \in {j \in Live : attempts[j].expired}}
    BY <1>t DEF Live
  <2>2. /\ ctl'.pc = "xpins"
        /\ attempts' = [i \in Places |-> IF attempts[i] \in late THEN NoAttempt
                                         ELSE attempts[i]]
        /\ history' = Over(late) /\ UNCHANGED <<slots, game, work, client>>
    BY <1>4, <2>1 DEF ExpireAttempts, CtlIdle
  <2>3. TableFades
    BY <2>2, Defaults DEF TableFades, Live
  <2>4. history'.consumed = history.consumed /\ history'.offered = history.offered
    BY <2>2, OverFacts DEF TypeInv
  <2>5. CtlFades /\ Silent
    BY <2>2, <2>4 DEF Silent, CtlFades, Requesting
  <2>q. QED
    BY <2>2, <2>3, <2>5, SilentKept, ClientSame, Fading
<1>5. ASSUME ExpirePins PROVE StatusInv'
  <2>1. ctl'.pc = "xslots"
    BY <1>5, <1>t DEF ExpirePins, CtlRecords
  <2>2. CtlFades /\ Silent /\ UNCHANGED <<attempts, client>>
    BY <1>5, <2>1 DEF ExpirePins, Silent, CtlFades, Requesting
  <2>q. QED
    BY <2>2, SilentKept, ClientSame, SameTable, Fading
<1>6. ASSUME ExpireSlots PROVE StatusInv'
  <2>1. ctl'.pc = "idle" /\ slots' \subseteq slots
    BY <1>6 DEF ExpireSlots, CtlIdle
  <2>2. CtlFades /\ Silent /\ UNCHANGED <<attempts, client>>
    BY <1>6, <2>1 DEF ExpireSlots, Silent, CtlFades, Requesting
  <2>q. QED
    BY <2>2, SilentKept, ClientSame, SameTable, Fading
<1>q. QED
  BY <1>1, <1>2, <1>3, <1>4, <1>5, <1>6 DEF DeliverStep, ExpireStep

\* The status itself: sent once per nonce, stored, consumed, marked.
LEMMA StatusStatus ==
    TypeInv /\ TypeInv' /\ TableInv /\ StatusInv /\ StatusStep => StatusInv'
<1> SUFFICES ASSUME TypeInv, TypeInv', TableInv, StatusInv, StatusStep PROVE StatusInv'
  OBVIOUS
<1>t. /\ ctl \in CtlRecords /\ attempts \in [Places -> AttemptRecords]
      /\ history \in Histories /\ client \in [Peers -> ClientRecords]
      /\ game \in GameRecords /\ work \in [Senders -> WorkRecords]
  BY DEF TypeInv, CtlOK, AttemptsOK, HistoryOK, SharedOK, ThreadsOK
<1>1. ASSUME NEW p \in Peers, StatusArrives(p) PROVE StatusInv'
  <2>1. /\ client' = [client EXCEPT ![p].sent = TRUE] /\ ctl.pc = "idle"
        /\ UNCHANGED <<attempts, slots, game, work, history>>
    BY <1>1 DEF StatusArrives, CtlFree
  <2>2. /\ \A q \in Peers : client'[q].nonce = client[q].nonce
        /\ \A q \in Peers : q # p => client'[q].sent = client[q].sent
        /\ client'[p].sent
    BY <1>t, <2>1 DEF ClientRecords
  <2>3. ClientOnward
    BY <2>2 DEF ClientOnward
  <2>4. CASE UNCHANGED ctl
    <3>1. Silent /\ CtlFades
      BY <2>1, <2>4, SameCtlFades DEF Silent
    <3>q. QED
      BY <2>1, <2>3, <3>1, SilentKept, SameTable, Fading
  <2>5. ASSUME NEW i \in Unexpired(Mine(p)), attempts[i].nonce = client[p].nonce,
               ctl' = [CtlIdle EXCEPT !.pc = "store", !.me = attempts[i]]
        PROVE  StatusInv'
    <3>1. ctl'.pc = "store" /\ ctl'.me = attempts[i] /\ ctl'.prev = NoAttempt
      BY <2>5 DEF CtlIdle
    <3>2. i \in Live /\ attempts[i].peer = p
      BY DEF Unexpired, Mine
    <3>3. Carried' = {attempts[j] : j \in Live} /\ Carried' \subseteq Carried
      BY <2>1, <3>1 DEF Carried, Requesting, Live
    <3>4. \A s \in Reported' : s \in Reported \/ s = Tuple(attempts[i])
      BY <2>1, <3>1 DEF Reported
    <3>5. AgreeOK'
      <4>1. SUFFICES ASSUME NEW j \in Live, attempts[i].peer = attempts[j].peer
                     PROVE  attempts[i].gen = attempts[j].gen
        BY <3>3, <3>4 DEF StatusInv, AgreeOK, Tuple
      <4>q. QED
        BY <3>2, <4>1 DEF TableInv, TableOK, OneAttemptPerPeer
    <3>6. SpentOK'
      BY <2>2, <2>5, <3>2, <3>4 DEF StatusInv, SpentOK, Tuple
    <3>7. MarkedOK' /\ CopiesOK' /\ TakenOK' /\ StatusBeforeRelease'
      BY <2>1, <3>3 DEF StatusInv, MarkedOK, CopiesOK, TakenOK, StatusBeforeRelease
    <3>q. QED
      BY <3>5, <3>6, <3>7 DEF StatusInv
  <2>q. QED
    BY <1>1, <2>4, <2>5 DEF StatusArrives
<1>2. ASSUME NEW p \in Peers, Consume(p) PROVE StatusInv'
  <2>1. UNCHANGED <<attempts, slots, ctl, work, client, history>> /\ game'.pc = "take"
    BY <1>2 DEF Consume
  <2>2. Reported' \subseteq Reported
    BY <2>1 DEF Reported
  <2>3. CopiesOK' /\ TakenOK' /\ StatusBeforeRelease'
    BY <2>1 DEF StatusInv, CopiesOK, TakenOK, StatusBeforeRelease
  <2>q. QED
    BY <2>1, <2>2, <2>3, StatusKept, ClientSame, SameTable, SameCtlFades, Fading
<1>3. ASSUME StoreStatus PROVE StatusInv'
  <2>0. PICK new : new = [peer |-> ctl.me.peer, nonce |-> ctl.me.nonce,
                          gen |-> ctl.me.gen, consumed |-> FALSE]
    OBVIOUS
  <2>1. Tuple(new) = Tuple(ctl.me)
    BY <2>0 DEF Tuple
  <2>2. slots' \subseteq slots \cup {new}
    BY <1>3, <2>0 DEF StoreStatus
  <2>3. /\ ctl'.pc = "idle" /\ ctl.pc = "store"
        /\ UNCHANGED <<attempts, game, work, client, history>>
    BY <1>3 DEF StoreStatus, CtlIdle
  <2>4. Reported' \subseteq Reported
    BY <2>1, <2>2, <2>3 DEF Reported
  <2>5. CtlFades
    BY <2>3 DEF CtlFades, Requesting
  <2>6. CopiesOK' /\ TakenOK' /\ StatusBeforeRelease'
    BY <2>3 DEF StatusInv, CopiesOK, TakenOK, StatusBeforeRelease
  <2>q. QED
    BY <2>3, <2>4, <2>5, <2>6, StatusKept, ClientSame, SameTable, Fading
<1>4. ASSUME TakeSlot PROVE StatusInv'
  <2>0. UNCHANGED <<attempts, ctl, work, client>>
    BY <1>4 DEF TakeSlot
  <2>1. PICK open \in SUBSET slots :
          open = {s \in slots : ~s.consumed /\ Tuple(s) = Tuple(game)}
    OBVIOUS
  <2>2. CASE open = {}
    <3>1. game'.pc = "idle" /\ UNCHANGED <<slots, history>>
      BY <1>4, <2>1, <2>2 DEF TakeSlot, GameIdle
    <3>2. Reported' \subseteq Reported
      BY <2>0, <3>1 DEF Reported
    <3>3. CopiesOK' /\ TakenOK' /\ StatusBeforeRelease'
      BY <2>0, <3>1 DEF StatusInv, CopiesOK, TakenOK, StatusBeforeRelease
    <3>q. QED
      BY <2>0, <3>1, <3>2, <3>3, StatusKept, ClientSame, SameTable, SameCtlFades, Fading
  <2>3. CASE open # {}
    <3>1. /\ slots' = (slots \ open) \cup {[s EXCEPT !.consumed = TRUE] : s \in open}
          /\ history' = [history EXCEPT !.consumed = history.consumed \cup {Tuple(game)}]
          /\ game' = [game EXCEPT !.pc = "mark"]
      BY <1>4, <2>1, <2>3 DEF TakeSlot
    <3>2. /\ history'.consumed = history.consumed \cup {Tuple(game)}
          /\ history'.offered = history.offered
      BY <1>t, <3>1 DEF Histories
    <3>3. Tuple(game') = Tuple(game)
      BY <1>t, <3>1 DEF GameRecords, Tuple
    <3>4. \A s \in slots : Tuple([s EXCEPT !.consumed = TRUE]) = Tuple(s)
      BY DEF TypeInv, SlotSetOK, SlotRecords, Tuple
    <3>5. {Tuple(s) : s \in slots'} \subseteq {Tuple(s) : s \in slots}
      BY <2>1, <3>1, <3>4
    <3>6. Tuple(game) \in {Tuple(s) : s \in slots}
      BY <2>1, <2>3
    <3>7. Reported' \subseteq Reported
      BY <2>0, <3>2, <3>5, <3>6 DEF Reported
    <3>8. CopiesOK' /\ TakenOK' /\ StatusBeforeRelease'
      BY <2>0, <3>2, <3>3 DEF StatusInv, CopiesOK, TakenOK, StatusBeforeRelease
    <3>q. QED
      BY <2>0, <3>2, <3>7, <3>8, StatusKept, ClientSame, SameTable, SameCtlFades, Fading
  <2>q. QED
    BY <2>2, <2>3
<1>5. ASSUME MarkStatus PROVE StatusInv'
  <2>1. /\ game.pc = "mark" /\ game'.pc = "idle"
        /\ UNCHANGED <<slots, ctl, client, history>>
    BY <1>5 DEF MarkStatus, GameIdle
  <2>2. Tuple(game) \in history.consumed /\ Tuple(game) \in Reported
    BY <2>1 DEF StatusInv, TakenOK, Reported
  <2>3. ASSUME NEW i \in Live'
        PROVE  /\ i \in Live /\ Tuple(attempts'[i]) = Tuple(attempts[i])
               /\ attempts'[i].status => Tuple(attempts[i]) \in history.consumed
    <3>1. i \in Live /\ attempts[i] \in AttemptRecords
      BY <1>5, <1>t DEF MarkStatus, Live, Marked, Mine
    <3>2. attempts[i] \in Carried
      BY <3>1 DEF Carried
    <3>3. CASE i \in Marked(game.peer, game.nonce)
      <4>1. attempts'[i] = [attempts[i] EXCEPT !.status = TRUE, !.expired = FALSE]
        BY <1>5, <3>1, <3>3 DEF MarkStatus, Live
      <4>2. Tuple(attempts'[i]) = Tuple(attempts[i])
        BY <3>1, <4>1 DEF AttemptRecords, Tuple
      <4>3. attempts[i].peer = game.peer /\ attempts[i].nonce = game.nonce
        BY <3>3 DEF Marked, Mine
      <4>4. attempts[i].gen = game.gen
        BY <2>2, <3>2, <4>3 DEF StatusInv, AgreeOK, Tuple
      <4>q. QED
        BY <2>2, <3>1, <4>2, <4>3, <4>4 DEF Tuple
    <3>4. CASE i \notin Marked(game.peer, game.nonce)
      <4>1. attempts'[i] = attempts[i]
        BY <1>5, <3>1, <3>4 DEF MarkStatus, Live
      <4>q. QED
        BY <3>1, <3>2, <4>1 DEF StatusInv, MarkedOK
    <3>q. QED
      BY <3>3, <3>4
  <2>4. \A b \in Carried' : \/ b \in Carried
                            \/ \E i \in Live' : b = attempts'[i]
    BY <2>1 DEF Carried, Requesting
  <2>5. AgreeOK'
    <3>1. Reported' = Reported
      BY <2>1 DEF Reported
    <3>2. \A i \in Live' : attempts[i] \in Carried /\ attempts'[i].peer = attempts[i].peer
            /\ attempts'[i].nonce = attempts[i].nonce /\ attempts'[i].gen = attempts[i].gen
      BY <2>3 DEF Carried, Tuple
    <3>q. QED
      BY <2>4, <3>1, <3>2 DEF StatusInv, AgreeOK
  <2>6. SpentOK'
    BY <2>1 DEF StatusInv, SpentOK, Reported
  <2>7. MarkedOK'
    BY <2>1, <2>3, <2>4 DEF StatusInv, MarkedOK
  <2>8. CopiesOK'
    <3>1. \A t \in Senders : work'[t].to \subseteq work[t].to
      <4>1. Replay(game.peer).to = {}
        BY DEF Replay, WorkIdle
      <4>q. QED
        BY <1>5, <1>t, <4>1 DEF MarkStatus
    <3>q. QED
      BY <2>1, <3>1 DEF StatusInv, CopiesOK
  <2>9. TakenOK' /\ StatusBeforeRelease'
    BY <2>1 DEF StatusInv, TakenOK, StatusBeforeRelease
  <2>q. QED
    BY <2>5, <2>6, <2>7, <2>8, <2>9 DEF StatusInv
<1>q. QED
  BY <1>1, <1>2, <1>3, <1>4, <1>5 DEF StatusStep

\* Payloads are released to copies of attempts whose status is consumed.
LEMMA PayloadStatus ==
    TypeInv /\ TypeInv' /\ TableInv /\ StatusInv /\ PayloadStep => StatusInv'
<1> SUFFICES ASSUME TypeInv, TypeInv', TableInv, StatusInv, NEW t \in Senders,
                    \/ \E event \in Events : Capture(t, event)
                    \/ StorePayload(t) \/ Spread(t) \/ Look(t) \/ CopyCache(t) \/ Send(t)
                    \/ Refresh(t) \/ Sent(t)
             PROVE  StatusInv'
  BY DEF PayloadStep
<1>t. /\ attempts \in [Places -> AttemptRecords] /\ history \in Histories
      /\ work \in [Senders -> WorkRecords] /\ work[t] \in WorkRecords
  BY DEF TypeInv, AttemptsOK, HistoryOK, ThreadsOK
\* A thread that only takes up, or drops, copies.
<1>w. ASSUME NEW w, work' = [work EXCEPT ![t] = w],
             \A a \in w.to : a.status => Tuple(a) \in history.consumed,
             UNCHANGED <<attempts, slots, ctl, client, game, history>>
      PROVE  StatusInv'
  <2>1. CopiesOK'
    BY <1>w, <1>t DEF StatusInv, CopiesOK
  <2>2. TakenOK' /\ StatusBeforeRelease'
    BY <1>w DEF StatusInv, TakenOK, StatusBeforeRelease
  <2>3. Reported' \subseteq Reported
    BY <1>w DEF Reported
  <2>q. QED
    BY <1>w, <2>1, <2>2, <2>3, StatusKept, ClientSame, SameTable, SameCtlFades, Fading
\* Copies that are read from the table.
<1>c. ASSUME NEW S \in SUBSET Live, NEW a \in {Addressee(attempts[i]) : i \in S}, a.status
      PROVE  Tuple(a) \in history.consumed
  <2>1. PICK i \in Live : a = Addressee(attempts[i])
    OBVIOUS
  <2>2. attempts[i].status /\ Tuple(a) = Tuple(attempts[i]) /\ attempts[i] \in Carried
    BY <1>c, <2>1 DEF Addressee, Tuple, Carried
  <2>q. QED
    BY <2>2 DEF StatusInv, MarkedOK
<1>1. ASSUME NEW event \in Events, Capture(t, event) PROVE StatusInv'
  <2>1. PICK w : w = [WorkIdle EXCEPT !.pc = "capture",
                        !.load = {[gen |-> authority.gen, event |-> event]}]
    OBVIOUS
  <2>2. w.to = {}
    BY <2>1 DEF WorkIdle
  <2>q. QED
    BY <1>1, <1>w, <2>1, <2>2 DEF Capture
<1>2. ASSUME StorePayload(t) PROVE StatusInv'
  <2>1. PICK w : w = [work[t] EXCEPT !.pc = "spread"]
    OBVIOUS
  <2>2. w.to = work[t].to /\ work' = [work EXCEPT ![t] = w]
    BY <1>2, <1>t, <2>1 DEF StorePayload, WorkRecords
  <2>q. QED
    BY <1>2, <1>w, <2>2 DEF StorePayload, StatusInv, CopiesOK
<1>3. ASSUME Spread(t) PROVE StatusInv'
  <2>1. PICK w : w = [work[t] EXCEPT !.pc = "send",
                        !.to = {Addressee(attempts[i]) : i \in Live}]
    OBVIOUS
  <2>2. w.to = {Addressee(attempts[i]) : i \in Live} /\ work' = [work EXCEPT ![t] = w]
    BY <1>3, <1>t, <2>1 DEF Spread, WorkRecords
  <2>q. QED
    BY <1>3, <1>w, <1>c, <2>2 DEF Spread
<1>4. ASSUME Look(t) PROVE StatusInv'
  <2>1. PICK found : found = AttemptOf(work[t].peer)
    OBVIOUS
  <2>2. PICK w : w = IF found = {} THEN WorkIdle
                     ELSE [work[t] EXCEPT !.pc = "cache", !.to = found]
    OBVIOUS
  <2>3. (w.to = {} \/ w.to = found) /\ work' = [work EXCEPT ![t] = w]
    BY <1>4, <1>t, <2>1, <2>2 DEF Look, WorkRecords, WorkIdle
  <2>4. \A a \in found : a.status => Tuple(a) \in history.consumed
    BY <1>c, <2>1 DEF AttemptOf, Mine
  <2>q. QED
    BY <1>4, <1>w, <2>3, <2>4 DEF Look
<1>5. ASSUME CopyCache(t) PROVE StatusInv'
  <2>1. PICK w : w = [work[t] EXCEPT !.pc = "send", !.load = cache]
    OBVIOUS
  <2>2. w.to = work[t].to /\ work' = [work EXCEPT ![t] = w]
    BY <1>5, <1>t, <2>1 DEF CopyCache, WorkRecords
  <2>q. QED
    BY <1>5, <1>w, <2>2 DEF CopyCache, StatusInv, CopiesOK
<1>6. ASSUME Send(t) PROVE StatusInv'
  <2>1. PICK a \in work[t].to, m \in work[t].load :
          /\ work' = [work EXCEPT ![t] = Remaining(@, a, m)]
          /\ IF Releasable(a, m)
             THEN /\ history' = [history EXCEPT !.offered = @ \cup
                       {[peer |-> a.peer, nonce |-> a.nonce, gen |-> a.gen,
                         event |-> m.event]}]
                  /\ \/ attempts' = [i \in Places |->
                          IF i \in Marked(a.peer, a.nonce)
                          THEN [attempts[i] EXCEPT !.sent = @ \cup {m.event},
                                                   !.expired = FALSE]
                          ELSE attempts[i]]
                     \/ UNCHANGED attempts
             ELSE UNCHANGED <<attempts, history>>
    BY <1>6 DEF Send
  <2>2. UNCHANGED <<slots, ctl, client, game>>
    BY <1>6 DEF Send
  <2>3. history'.consumed = history.consumed
    BY <1>t, <2>1 DEF Histories
  <2>4. TableFades
    <3> DEFINE f(i) == [attempts[i] EXCEPT !.sent = @ \cup {m.event}, !.expired = FALSE]
    <3>1. \A i \in Places : Tuple(f(i)) = Tuple(attempts[i]) /\ f(i).serial = attempts[i].serial
                            /\ f(i).status = attempts[i].status
      BY <1>t DEF AttemptRecords, Tuple
    <3>2. \A i \in Places : attempts'[i] \in {f(i), attempts[i]}
      BY <2>1
    <3> HIDE DEF f
    <3>q. QED
      BY <3>1, <3>2 DEF TableFades, Live
  <2>5. Reported' \subseteq Reported
    BY <2>2, <2>3 DEF Reported
  <2>6. CopiesOK'
    <3>1. PICK w : w = Remaining(work[t], a, m)
      OBVIOUS
    <3>2. w.to \subseteq work[t].to
      BY <1>t, <3>1 DEF Remaining, WorkRecords
    <3>3. work' = [work EXCEPT ![t] = w]
      BY <1>t, <2>1, <3>1
    <3>q. QED
      BY <1>t, <2>3, <3>2, <3>3 DEF StatusInv, CopiesOK
  <2>7. StatusBeforeRelease'
    <3>1. PICK o : o = [peer |-> a.peer, nonce |-> a.nonce, gen |-> a.gen,
                        event |-> m.event]
      OBVIOUS
    <3>2. \A x \in history'.offered : x \in history.offered \/ (x = o /\ Releasable(a, m))
      <4>1. CASE Releasable(a, m)
        <5>1. history' = [history EXCEPT !.offered = history.offered \cup {o}]
          BY <2>1, <3>1, <4>1
        <5>q. QED
          BY <1>t, <4>1, <5>1 DEF Histories
      <4>2. CASE ~Releasable(a, m)
        BY <2>1, <4>2
      <4>q. QED
        BY <4>1, <4>2
    <3>3. Releasable(a, m) /\ o.event = "ready" => Tuple(o) \in history.consumed
      BY <3>1 DEF Releasable, StatusInv, CopiesOK, Tuple
    <3>q. QED
      BY <2>3, <3>2, <3>3 DEF StatusInv, StatusBeforeRelease
  <2>8. TakenOK'
    BY <2>2, <2>3 DEF StatusInv, TakenOK
  <2>q. QED
    BY <2>2, <2>3, <2>4, <2>5, <2>6, <2>7, <2>8, StatusKept, ClientSame, SameCtlFades, Fading
<1>7. ASSUME Refresh(t) PROVE StatusInv'
  <2>1. PICK S \in SUBSET Live :
          S = Unexpired({j \in Mine(work[t].peer) :
                          \E a \in work[t].to : attempts[j].nonce = a.nonce})
    BY DEF Unexpired, Mine
  <2>2. PICK w : w = [work[t] EXCEPT !.pc = "send", !.to = {Addressee(attempts[i]) : i \in S}]
    OBVIOUS
  <2>3. w.to = {Addressee(attempts[i]) : i \in S} /\ work' = [work EXCEPT ![t] = w]
    BY <1>7, <1>t, <2>1, <2>2 DEF Refresh, WorkRecords
  <2>q. QED
    BY <1>7, <1>w, <1>c, <2>3 DEF Refresh
<1>8. ASSUME Sent(t) PROVE StatusInv'
  <2>1. WorkIdle.to = {}
    BY DEF WorkIdle
  <2>q. QED
    BY <1>8, <1>w, <2>1 DEF Sent
<1>q. QED
  BY <1>1, <1>2, <1>3, <1>4, <1>5, <1>6, <1>7, <1>8

\* Clears, peer losses, time and members.
LEMMA OtherStatus ==
    /\ TypeInv /\ TypeInv' /\ TableInv /\ StatusInv
    /\ ClearStep \/ LoseStep \/ WorldStep
    => StatusInv'
<1> SUFFICES ASSUME TypeInv, TypeInv', TableInv, StatusInv,
                    ClearStep \/ LoseStep \/ WorldStep
             PROVE  StatusInv'
  OBVIOUS
<1>t. /\ ctl \in CtlRecords /\ history \in Histories
      /\ attempts \in [Places -> AttemptRecords] /\ client \in [Peers -> ClientRecords]
  BY DEF TypeInv, CtlOK, HistoryOK, AttemptsOK, SharedOK
\* Only the table fades, or slots go.
<1>n. ASSUME TableFades, UNCHANGED <<ctl, game, work, client>>, slots' \subseteq slots,
             history'.consumed = history.consumed, history'.offered = history.offered
      PROVE  StatusInv'
  BY <1>n, SilentKept, ClientSame, SameCtlFades, Fading DEF Silent
<1>1. ASSUME CommitAuthority \/ RetireAuthority \/ ResetPeers PROVE StatusInv'
  <2>1. UNCHANGED <<attempts, slots, ctl, game, work, client, history>>
    BY <1>1 DEF CommitAuthority, RetireAuthority, ResetPeers
  <2>q. QED
    BY <2>1, <1>n, SameTable
<1>2. ASSUME NEW t \in Threads, ClearAttempts(t) PROVE StatusInv'
  <2>1. TableFades
    BY <1>2, Defaults DEF ClearAttempts, TableFades, Live
  <2>2. history'.consumed = history.consumed /\ history'.offered = history.offered
    BY <1>2, <1>t DEF ClearAttempts, Histories
  <2>q. QED
    BY <1>2, <1>n, <2>1, <2>2 DEF ClearAttempts
<1>3. ASSUME NEW t \in Threads, ClearSlots(t) \/ ClearCache(t) \/ ClearPins(t)
      PROVE  StatusInv'
  <2>1. /\ UNCHANGED <<attempts, ctl, game, work, client, history>>
        /\ slots' \subseteq slots
    BY <1>3 DEF ClearSlots, ClearCache, ClearPins
  <2>q. QED
    BY <2>1, <1>n, SameTable
<1>4. ASSUME NEW p, Losing(p) PROVE StatusInv'
  <2>1. TableFades
    BY <1>4, Defaults DEF Losing, TableFades, Live
  <2>2. history'.consumed = history.consumed /\ history'.offered = history.offered
    BY <1>4, <1>t DEF Losing, Histories
  <2>q. QED
    BY <1>4, <1>n, <2>1, <2>2 DEF Losing
<1>5. ASSUME LosePeerSlots \/ LosePeerPins PROVE StatusInv'
  <2>1. /\ UNCHANGED <<attempts, ctl, game, work, client, history>>
        /\ slots' \subseteq slots
    BY <1>5 DEF LosePeerSlots, LosePeerPins
  <2>q. QED
    BY <2>1, <1>n, SameTable
<1>6. ASSUME NEW s \in 1..MaxSerial, Elapse(s) PROVE StatusInv'
  <2>1. TableFades
    <3> DEFINE f(i) == [attempts[i] EXCEPT !.expired = TRUE]
    <3>1. \A i \in Places : Tuple(f(i)) = Tuple(attempts[i]) /\ f(i).serial = attempts[i].serial
                            /\ f(i).status = attempts[i].status
      BY <1>t DEF AttemptRecords, Tuple
    <3>2. \A i \in Places : attempts'[i] \in {f(i), attempts[i]}
      BY <1>6 DEF Elapse
    <3> HIDE DEF f
    <3>q. QED
      BY <3>1, <3>2 DEF TableFades, Live
  <2>2. PICK b : b = [ctl.prev EXCEPT !.expired = TRUE]
    OBVIOUS
  <2>3. b.serial = ctl.prev.serial /\ Tuple(b) = Tuple(ctl.prev) /\ b.status = ctl.prev.status
    BY <1>t, <2>2 DEF CtlRecords, AttemptRecords, Tuple
  <2>4. ctl' = ctl \/ ctl' = [ctl EXCEPT !.prev = b]
    BY <1>6, <1>t, <2>2 DEF Elapse, CtlRecords
  <2>5. ctl'.pc = ctl.pc /\ ctl'.me = ctl.me /\ (ctl'.prev = b \/ ctl'.prev = ctl.prev)
    BY <1>t, <2>4 DEF CtlRecords
  <2>6. CtlFades /\ Silent /\ UNCHANGED client
    BY <1>6, <2>3, <2>5 DEF Elapse, CtlFades, Silent, Requesting
  <2>q. QED
    BY <2>1, <2>6, SilentKept, ClientSame, Fading
<1>7. ASSUME NEW p \in Peers, FreshNonce(p) PROVE StatusInv'
  <2>1. ClientOnward
    <3>1. client'[p].nonce = client[p].nonce + 1
          /\ \A q \in Peers : q # p => client'[q] = client[q]
      BY <1>7, <1>t DEF FreshNonce
    <3>2. client[p].nonce \in Nat
      BY <1>t DEF ClientRecords, Nonces
    <3>q. QED
      BY <3>1, <3>2 DEF ClientOnward
  <2>2. Silent /\ UNCHANGED <<attempts, ctl>>
    BY <1>7 DEF FreshNonce, Silent
  <2>q. QED
    BY <2>1, <2>2, SilentKept, SameTable, SameCtlFades, Fading
<1>8. ASSUME NEW p \in Peers, Publish(p) PROVE StatusInv'
  BY <1>8, <1>n, SameTable DEF Publish
<1>9. ASSUME WorldChanges PROVE StatusInv'
  BY <1>9, <1>n, SameTable DEF WorldChanges
<1>10. ClearStep => StatusInv'
  BY <1>1, <1>2, <1>3 DEF ClearStep
<1>11. LoseStep => StatusInv'
  BY <1>4, <1>5 DEF LoseStep, LosePeer, LoseNext
<1>12. WorldStep => StatusInv'
  BY <1>6, <1>7, <1>8, <1>9 DEF WorldStep
<1>q. QED
  BY <1>10, <1>11, <1>12

LEMMA StatusInit == Init => StatusInv
<1> SUFFICES ASSUME Init PROVE StatusInv
  OBVIOUS
<1>1. /\ slots = {} /\ history.consumed = {} /\ history.offered = {}
      /\ ctl = CtlIdle /\ game = GameIdle /\ Live = {}
      /\ \A t \in Senders : work[t].to = {}
  BY DEF Init, Live, NoAttempt, WorkIdle
<1>2. Reported = {} /\ Carried = {}
  BY <1>1 DEF Reported, Carried, CtlIdle, Requesting
<1>q. QED
  BY <1>1, <1>2 DEF StatusInv, AgreeOK, SpentOK, MarkedOK, CopiesOK, TakenOK,
     StatusBeforeRelease, GameIdle

LEMMA StatusNext == TypeInv /\ TypeInv' /\ TableInv /\ StatusInv /\ [Next]_vars => StatusInv'
<1> SUFFICES ASSUME TypeInv, TypeInv', TableInv, StatusInv, [Next]_vars PROVE StatusInv'
  OBVIOUS
<1>1. CASE UNCHANGED vars
  BY <1>1, SilentKept, ClientSame, SameTable, SameCtlFades, Fading DEF vars, Silent
<1>q. QED
  BY <1>1, RequestStatus, UpkeepStatus, StatusStatus, PayloadStatus, OtherStatus DEF Next

\* Ready and world events go out only for an attempt whose own status the host's
\* game has consumed, however attempts are replaced, retried and rolled back
\* while the copies that the sending threads judge by are under way.
THEOREM HostStatusBeforeRelease == Spec => []StatusBeforeRelease
<1>1. Spec => []StatusInv
  BY TypeInit, TypeNext, TableInit, TableNext, StatusInit, StatusNext, PTL DEF Spec
<1>2. StatusInv => StatusBeforeRelease
  BY DEF StatusInv
<1>q. QED
  BY <1>1, <1>2, PTL

-----------------------------------------------------------------------------
(* The pins: what they hold, and whose they are. *)

\* No attempt is ahead of its member's nonces or of the authority generations.
Timely(a) == a.nonce <= client[a.peer].nonce /\ a.gen <= authority.last

ClocksOK ==
    /\ \A i \in Live : Timely(attempts[i])
    /\ ctl.prev.serial # 0 => Timely(ctl.prev)
    /\ ctl.me.peer \in Peers => Timely(ctl.me)
    /\ authority.gen \in {0, authority.last}

\* A pin holds a real revision, and the attempt of its serial, in the table or
\* in the hands of a request, is the attempt it was made for and has its
\* revision.
PinsOK == \A k \in pins :
    /\ k.serial # 0 /\ k.serial <= counter /\ k.peer \in Peers /\ k.rev # 0 /\ Timely(k)
    /\ \A i \in Live : attempts[i].serial = k.serial =>
         Tuple(attempts[i]) = Tuple(k) /\ attempts[i].rev = k.rev
    /\ Requesting /\ ctl.prev.serial = k.serial =>
         Tuple(ctl.prev) = Tuple(k) /\ ctl.prev.rev = k.rev

\* A revision that is about to be pinned or delivered is a real one.
CopyOK == ctl.pc \in {"install", "reinstall", "copy"} => ctl.rev # 0

HoldInv == ClocksOK /\ PinsOK /\ CopyOK

\* The clocks of members and authority do not go back.
ClocksOnward == ClientOnward /\ authority'.last >= authority.last
                /\ authority'.gen \in {0, authority'.last}

\* The table keeps the attempts it has, with their revisions, or empties places.
TableHolds == \A i \in Live' : /\ i \in Live /\ attempts'[i].serial = attempts[i].serial
                               /\ Tuple(attempts'[i]) = Tuple(attempts[i])
                               /\ attempts'[i].rev = attempts[i].rev

\* The control thread keeps, drops, or takes up an attempt of the table.
CtlHolds ==
    /\ \/ Tuple(ctl'.me) = Tuple(ctl.me)
       \/ ctl'.me.peer = 0
       \/ \E i \in Live : ctl'.me = attempts[i]
    /\ \/ ctl'.prev.serial = 0
       \/ /\ ctl'.prev.serial = ctl.prev.serial /\ Tuple(ctl'.prev) = Tuple(ctl.prev)
          /\ ctl'.prev.rev = ctl.prev.rev /\ (Requesting' => Requesting)

\* The same, of a value that is already the next state's.
TimelyNext(b) == b.nonce <= client'[b.peer].nonce /\ b.gen <= authority'.last

LEMMA TimelyStays ==
    ASSUME TypeInv, TypeInv', ClocksOnward, NEW a, a.peer \in Peers, a.nonce \in Nat,
           a.gen \in Nat, Timely(a), NEW b, Tuple(b) = Tuple(a)
    PROVE  TimelyNext(b)
<1>1. b.peer = a.peer /\ b.nonce = a.nonce /\ b.gen = a.gen
  BY DEF Tuple
<1>2. /\ client[a.peer].nonce \in Nat /\ client'[a.peer].nonce \in Nat
      /\ authority.last \in Nat /\ authority'.last \in Nat
  BY DEF TypeInv, SharedOK, ClientRecords, AuthorityRecords, Nonces, Gens
<1>3. client'[a.peer].nonce >= client[a.peer].nonce /\ authority'.last >= authority.last
  BY <1>2 DEF ClocksOnward, ClientOnward
<1>q. QED
  BY <1>1, <1>2, <1>3 DEF Timely, TimelyNext

\* Attempts and pins carry naturals.
LEMMA Numbers ==
    ASSUME TypeInv
    PROVE  /\ \A i \in Live : /\ attempts[i] \in AttemptRecords /\ attempts[i].peer \in Peers
                              /\ attempts[i].nonce \in Nat /\ attempts[i].gen \in Nat
                              /\ attempts[i].serial \in Nat
           /\ \A k \in pins : k.nonce \in Nat /\ k.gen \in Nat /\ k.serial \in Nat
           /\ ctl.me \in AttemptRecords /\ ctl.prev \in AttemptRecords
           /\ ctl.me.nonce \in Nat /\ ctl.me.gen \in Nat /\ ctl.me.serial \in Nat
           /\ ctl.prev.nonce \in Nat /\ ctl.prev.gen \in Nat /\ ctl.prev.serial \in Nat
           /\ counter \in Nat
           /\ authority.last \in Nat /\ authority.gen \in Nat
           /\ \A p \in Peers : client[p].nonce \in Nat /\ history.lost[p] \in Nat
BY DEF TypeInv, AttemptsOK, PinSetOK, CtlOK, CtlRecords, AttemptRecords, PinRecords, Live,
   HistoryOK, Histories, SharedOK, AuthorityRecords, ClientRecords, Nonces, Gens, Serials

LEMMA HoldKept ==
    ASSUME TypeInv, TypeInv', TableInv, HoldInv, ClocksOnward, TableHolds, CtlHolds,
           pins' \subseteq pins, counter' >= counter, CopyOK'
    PROVE  HoldInv'
<1>1. ASSUME NEW i \in Live' PROVE TimelyNext(attempts'[i])
  <2>1. i \in Live /\ Tuple(attempts'[i]) = Tuple(attempts[i]) /\ Timely(attempts[i])
    BY DEF TableHolds, HoldInv, ClocksOK
  <2>q. QED
    BY <2>1, Numbers, TimelyStays
<1>2. ctl'.prev.serial # 0 => TimelyNext(ctl'.prev)
  <2>1. SUFFICES ASSUME ctl'.prev.serial # 0 PROVE TimelyNext(ctl'.prev)
    OBVIOUS
  <2>2. ctl.prev.serial # 0 /\ Tuple(ctl'.prev) = Tuple(ctl.prev) /\ Timely(ctl.prev)
    BY <2>1 DEF CtlHolds, HoldInv, ClocksOK
  <2>3. ctl.prev.peer \in Peers
    BY <2>2 DEF TypeInv, CtlOK
  <2>q. QED
    BY <2>2, <2>3, Numbers, TimelyStays
<1>3. ctl'.me.peer \in Peers => TimelyNext(ctl'.me)
  <2>1. SUFFICES ASSUME ctl'.me.peer \in Peers PROVE TimelyNext(ctl'.me)
    OBVIOUS
  <2>2. CASE Tuple(ctl'.me) = Tuple(ctl.me)
    <3>1. ctl.me.peer \in Peers /\ Timely(ctl.me)
      BY <2>1, <2>2 DEF HoldInv, ClocksOK, Tuple
    <3>q. QED
      BY <2>2, <3>1, Numbers, TimelyStays
  <2>3. ASSUME NEW i \in Live, ctl'.me = attempts[i] PROVE TimelyNext(ctl'.me)
    <3>1. Timely(attempts[i])
      BY DEF HoldInv, ClocksOK
    <3>q. QED
      BY <2>3, <3>1, Numbers, TimelyStays
  <2>q. QED
    BY <2>1, <2>2, <2>3, Defaults DEF CtlHolds
<1>4. ClocksOK'
  BY <1>1, <1>2, <1>3 DEF ClocksOK, ClocksOnward, Timely, TimelyNext
<1>5. PinsOK'
  <2>1. SUFFICES ASSUME NEW k \in pins
                 PROVE  /\ k.serial # 0 /\ k.serial <= counter' /\ k.peer \in Peers
                        /\ k.rev # 0 /\ TimelyNext(k)
                        /\ \A i \in Live' : attempts'[i].serial = k.serial =>
                             Tuple(attempts'[i]) = Tuple(k) /\ attempts'[i].rev = k.rev
                        /\ Requesting' /\ ctl'.prev.serial = k.serial =>
                             Tuple(ctl'.prev) = Tuple(k) /\ ctl'.prev.rev = k.rev
    BY DEF PinsOK, Timely, TimelyNext
  <2>2. k.serial # 0 /\ k.serial <= counter /\ k.peer \in Peers /\ k.rev # 0 /\ Timely(k)
    BY DEF HoldInv, PinsOK
  <2>3. k.serial <= counter'
    BY <2>2, Numbers DEF TypeInv, HistoryOK, Serials
  <2>4. TimelyNext(k)
    BY <2>2, Numbers, TimelyStays
  <2>5. \A i \in Live' : attempts'[i].serial = k.serial =>
          Tuple(attempts'[i]) = Tuple(k) /\ attempts'[i].rev = k.rev
    BY DEF TableHolds, HoldInv, PinsOK
  <2>6. Requesting' /\ ctl'.prev.serial = k.serial =>
          Tuple(ctl'.prev) = Tuple(k) /\ ctl'.prev.rev = k.rev
    BY <2>2 DEF CtlHolds, HoldInv, PinsOK
  <2>q. QED
    BY <2>2, <2>3, <2>4, <2>5, <2>6
<1>q. QED
  BY <1>4, <1>5 DEF HoldInv

LEMMA SameTableHolds == UNCHANGED attempts => TableHolds
BY DEF TableHolds, Live

LEMMA SameCtlHolds == UNCHANGED ctl => CtlHolds
BY DEF CtlHolds, Requesting

LEMMA CtlIdleHolds == ctl' = CtlIdle => CtlHolds /\ CopyOK'
BY DEF CtlHolds, CtlIdle, NoAttempt, CopyOK

LEMMA SameClocks ==
    HoldInv /\ UNCHANGED <<client, authority>> /\ TypeInv => ClocksOnward
BY Numbers, ClientSame DEF HoldInv, ClocksOK, ClocksOnward

\* A step of the control thread that neither drops nor takes up an attempt.
LEMMA CtlGoesOnHolds ==
    ASSUME ctl'.me = ctl.me, ctl'.prev = ctl.prev, Requesting' => Requesting
    PROVE  CtlHolds
BY DEF CtlHolds

\* A request asks under the member's nonce and the authority's generation.
LEMMA AskHold ==
    ASSUME TypeInv, TypeInv', TableInv, HoldInv, NEW p \in Peers, Ask(p)
    PROVE  HoldInv'
<1>1. PICK a : a = [NoAttempt EXCEPT !.peer = p, !.nonce = client[p].nonce,
                                     !.gen = authority.gen]
  OBVIOUS
<1>2. a.peer = p /\ a.nonce = client[p].nonce /\ a.gen = authority.gen
  BY <1>1 DEF NoAttempt
<1>3. ctl'.pc = "reserve" /\ ctl'.me = a /\ ctl'.prev = NoAttempt
  BY <1>1 DEF Ask, CtlIdle
<1>4. UNCHANGED <<attempts, pins, authority, client, counter>>
  BY DEF Ask
<1>5. TimelyNext(a)
  <2>1. a.gen <= authority.last
    BY <1>2, Numbers DEF HoldInv, ClocksOK
  <2>2. a.nonce <= client[p].nonce
    BY <1>2, Numbers
  <2>q. QED
    BY <1>2, <1>4, <2>1, <2>2 DEF TimelyNext
<1>6. ClocksOK'
  <2>1. \A i \in Live' : TimelyNext(attempts'[i])
    BY <1>4 DEF HoldInv, ClocksOK, Live, Timely, TimelyNext
  <2>2. authority'.gen \in {0, authority'.last}
    BY <1>4 DEF HoldInv, ClocksOK
  <2>q. QED
    BY <1>3, <1>5, <2>1, <2>2, Defaults DEF ClocksOK, Timely, TimelyNext
<1>7. PinsOK'
  <2>1. ~ Requesting'
    BY <1>3 DEF Requesting
  <2>q. QED
    BY <1>4, <2>1 DEF HoldInv, PinsOK, Live, Timely
<1>8. CopyOK'
  BY <1>3 DEF CopyOK
<1>q. QED
  BY <1>6, <1>7, <1>8 DEF HoldInv

\* A reservation takes a serial no pin has, and carries the attempt it replaces.
LEMMA ReserveHold ==
    ASSUME TypeInv, TypeInv', TableInv, HoldInv, Reserve
    PROVE  HoldInv'
<1>u. UNCHANGED <<pins, authority, client>>
  BY DEF Reserve
<1>o. ClocksOnward
  BY <1>u, SameClocks
<1>1. CASE Mine(ctl.me.peer) \cup Usable = {}
  <2>1. ctl' = CtlIdle /\ UNCHANGED <<attempts, counter>>
    BY <1>1 DEF Reserve
  <2>2. counter \in Nat
    BY Numbers
  <2>q. QED
    BY <1>u, <1>o, <2>1, <2>2, HoldKept, SameTableHolds, CtlIdleHolds
<1>2. CASE Mine(ctl.me.peer) \cup Usable # {}
  <2>t. /\ attempts \in [Places -> AttemptRecords] /\ counter \in Nat
        /\ ctl.me.peer \in Peers /\ ctl.me \in AttemptRecords /\ AttemptsOK
    BY Numbers DEF TypeInv, AttemptsOK, CtlOK, Reserve
  <2>1. PICK i \in Places, new \in AttemptRecords :
          i = PlaceFor(ctl.me.peer) /\ new = [ctl.me EXCEPT !.serial = counter + 1]
    <3>1. PlaceFor(ctl.me.peer) \in Places
      BY <2>t, <1>2, PlaceFacts
    <3>2. counter + 1 \in Serials
      BY <2>t, BoundsAssumption DEF Reserve, TypeInv, CtlOK, HistoryOK, Serials
    <3>q. QED
      BY <2>t, <3>1, <3>2 DEF AttemptRecords
  <2>2. PICK next : next = Inherit(attempts[i], new)
    OBVIOUS
  <2>3. attempts[i] \in AttemptRecords
    BY <2>t
  <2>4. Tuple(next) = Tuple(ctl.me) /\ next.serial = counter + 1
    BY <2>1, <2>2, <2>3, InheritFacts DEF AttemptRecords, Tuple
  <2>5. /\ attempts' = [attempts EXCEPT ![i] = next] /\ counter' = counter + 1
        /\ ctl'.me = next /\ ctl'.prev = attempts[i] /\ ctl'.pc = "pin"
    BY <1>2, <2>1, <2>2 DEF Reserve, CtlIdle
  <2>6. \A j \in Places : attempts'[j] = IF j = i THEN next ELSE attempts[j]
    BY <2>t, <2>5
  <2>7. TimelyNext(next)
    <3>1. Timely(ctl.me)
      BY <2>t DEF HoldInv, ClocksOK
    <3>q. QED
      BY <2>4, <2>t, <3>1, <1>o, Numbers, TimelyStays
  <2>8. ASSUME NEW j \in Live PROVE TimelyNext(attempts[j])
    BY <1>u DEF HoldInv, ClocksOK, Timely, TimelyNext
  <2>9. ClocksOK'
    <3>1. \A j \in Live' : TimelyNext(attempts'[j])
      <4>1. SUFFICES ASSUME NEW j \in Live' PROVE TimelyNext(attempts'[j])
        OBVIOUS
      <4>2. j = i => attempts'[j] = next
        BY <2>6 DEF Live
      <4>3. j # i => j \in Live /\ attempts'[j] = attempts[j]
        BY <2>6 DEF Live
      <4>q. QED
        BY <2>7, <2>8, <4>2, <4>3
    <3>2. ctl'.prev.serial # 0 => TimelyNext(ctl'.prev)
      BY <2>5, <2>8 DEF Live
    <3>3. authority'.gen \in {0, authority'.last}
      BY <1>u DEF HoldInv, ClocksOK
    <3>q. QED
      BY <2>5, <2>7, <3>1, <3>2, <3>3 DEF ClocksOK, Timely, TimelyNext
  <2>10. PinsOK'
    <3>1. SUFFICES ASSUME NEW k \in pins
                   PROVE  /\ k.serial # 0 /\ k.serial <= counter' /\ k.peer \in Peers
                          /\ k.rev # 0 /\ TimelyNext(k)
                          /\ \A j \in Live' : attempts'[j].serial = k.serial =>
                               Tuple(attempts'[j]) = Tuple(k) /\ attempts'[j].rev = k.rev
                          /\ Requesting' /\ ctl'.prev.serial = k.serial =>
                               Tuple(ctl'.prev) = Tuple(k) /\ ctl'.prev.rev = k.rev
      BY <1>u DEF PinsOK, Timely, TimelyNext
    <3>2. k.serial # 0 /\ k.serial <= counter /\ k.peer \in Peers /\ k.rev # 0 /\ TimelyNext(k)
      BY <1>u DEF HoldInv, PinsOK, Timely, TimelyNext
    <3>3. \A j \in Live : attempts[j].serial = k.serial =>
            Tuple(attempts[j]) = Tuple(k) /\ attempts[j].rev = k.rev
      BY DEF HoldInv, PinsOK
    <3>4. k.serial \in Nat
      BY Numbers
    <3>5. k.serial <= counter' /\ k.serial # next.serial
      BY <2>t, <2>4, <2>5, <3>2, <3>4
    <3>6. \A j \in Live' : attempts'[j].serial = k.serial =>
            j \in Live /\ attempts'[j] = attempts[j]
      BY <2>6, <3>5 DEF Live
    <3>7. ctl'.prev.serial = k.serial => i \in Live
      BY <2>5, <3>2 DEF Live
    <3>q. QED
      BY <2>5, <3>2, <3>3, <3>5, <3>6, <3>7
  <2>11. CopyOK'
    BY <2>5 DEF CopyOK
  <2>q. QED
    BY <2>9, <2>10, <2>11 DEF HoldInv
<1>q. QED
  BY <1>1, <1>2

\* What a rollback puts back is what the request has carried.
LEMMA UndoHold ==
    ASSUME TypeInv, TypeInv', TableInv, HoldInv, Undo
    PROVE  HoldInv'
<1>u. UNCHANGED <<pins, authority, client, counter>>
  BY DEF Undo
<1>t. /\ attempts \in [Places -> AttemptRecords] /\ ctl \in CtlRecords
      /\ ctl.place \in Places /\ Requesting
  BY DEF TypeInv, AttemptsOK, CtlOK, CtlRecords, Undo, Requesting
<1>1. PICK back : back = Restored(ctl.prev)
  OBVIOUS
<1>2. back.serial # 0 => back = ctl.prev
  BY <1>1, Defaults DEF Restored
<1>3. \A j \in Live' : \/ j \in Live /\ attempts'[j] = attempts[j]
                       \/ attempts'[j] = back /\ back.serial # 0
  <2>1. CASE StillReserved
    <3>1. \A j \in Places : attempts'[j] = IF j = ctl.place THEN back ELSE attempts[j]
      BY <1>t, <1>1, <2>1 DEF Undo
    <3>q. QED
      BY <3>1 DEF Live
  <2>2. CASE ~StillReserved
    BY <2>2 DEF Undo, Live
  <2>q. QED
    BY <2>1, <2>2
<1>4. ctl'.pc = "undopins" /\ ctl'.me = ctl.me /\ ctl'.prev = ctl.prev
  BY <1>t DEF Undo, CtlRecords
<1>5. ClocksOK'
  <2>1. ASSUME NEW j \in Live' PROVE TimelyNext(attempts'[j])
    BY <1>u, <1>2, <1>3 DEF HoldInv, ClocksOK, Timely, TimelyNext
  <2>2. /\ ctl'.prev.serial # 0 => TimelyNext(ctl'.prev)
        /\ ctl'.me.peer \in Peers => TimelyNext(ctl'.me)
        /\ authority'.gen \in {0, authority'.last}
    BY <1>u, <1>4 DEF HoldInv, ClocksOK, Timely, TimelyNext
  <2>q. QED
    BY <2>1, <2>2 DEF ClocksOK, Timely, TimelyNext
<1>6. PinsOK'
  <2>1. SUFFICES ASSUME NEW k \in pins
                 PROVE  \A j \in Live' : attempts'[j].serial = k.serial =>
                          Tuple(attempts'[j]) = Tuple(k) /\ attempts'[j].rev = k.rev
    <3>1. ~ Requesting'
      BY <1>4 DEF Requesting
    <3>q. QED
      BY <1>u, <2>1, <3>1 DEF HoldInv, PinsOK, Timely
  <2>q. QED
    BY <1>t, <1>2, <1>3 DEF HoldInv, PinsOK
<1>7. CopyOK'
  BY <1>4 DEF CopyOK
<1>q. QED
  BY <1>5, <1>6, <1>7 DEF HoldInv

\* A new pin is made for the attempt in the table, with its revision, and takes
\* the place of the pin the attempt had.
LEMMA InstallHold ==
    ASSUME TypeInv, TypeInv', TableInv, HoldInv, PinInstall
    PROVE  HoldInv'
<1>u. UNCHANGED <<client, authority, counter>>
  BY DEF PinInstall
<1>o. ClocksOnward
  BY <1>u, SameClocks
<1>t. /\ attempts \in [Places -> AttemptRecords] /\ ctl \in CtlRecords
      /\ ctl.me.serial # 0 /\ ctl.me.peer \in Peers /\ ctl.me.serial <= counter
      /\ ctl.rev # 0
  BY DEF TypeInv, AttemptsOK, CtlOK, PinInstall, TableInv, CarriedOK, Carrying, HoldInv, CopyOK
<1>1. PICK to : to \in {Pinned, NotPinned(ctl.pc)} /\ ctl' = [ctl EXCEPT !.pc = to]
  BY DEF PinInstall
<1>2. /\ ctl'.pc = to /\ ctl'.me = ctl.me /\ ctl'.prev = ctl.prev /\ ctl'.rev = ctl.rev
      /\ ctl.pc = "install" => to \in {"respond", "undo"}
      /\ ctl.pc = "reinstall" => to \in {"copy", "idle"}
  BY <1>t, <1>1 DEF CtlRecords, Pinned, NotPinned
<1>3. /\ Requesting' => Requesting
      /\ CopyOK'
  BY <1>2, <1>t DEF PinInstall, Requesting, CopyOK
<1>4. CASE UNCHANGED <<attempts, pins>>
  <2>1. counter' >= counter
    BY <1>u, Numbers
  <2>q. QED
    BY <1>2, <1>3, <1>4, <1>o, <2>1, HoldKept, SameTableHolds, CtlGoesOnHolds
<1>5. ASSUME NEW i \in Unexpired(Current(ctl.me.serial)),
             pins' = (pins \ OwnPins(attempts[i])) \cup
                     {[serial |-> ctl.me.serial, peer |-> ctl.me.peer,
                       nonce |-> ctl.me.nonce, gen |-> ctl.me.gen, rev |-> ctl.rev]},
             attempts' = [attempts EXCEPT ![i].rev = ctl.rev]
      PROVE  HoldInv'
  <2>1. i \in Live /\ i \in Places /\ attempts[i].serial = ctl.me.serial
    BY DEF Unexpired, Current, Live
  <2>2. PICK a : a = [attempts[i] EXCEPT !.rev = ctl.rev]
    OBVIOUS
  <2>3. /\ a.serial = ctl.me.serial /\ Tuple(a) = Tuple(attempts[i]) /\ a.rev = ctl.rev
        /\ Tuple(attempts[i]) = Tuple(ctl.me)
    BY <1>t, <2>1, <2>2 DEF AttemptRecords, Tuple, TableInv, CarriedOK
  <2>4. \A j \in Places : attempts'[j] = IF j = i THEN a ELSE attempts[j]
    BY <1>5, <1>t, <2>1, <2>2
  <2>5. PICK new : new = [serial |-> ctl.me.serial, peer |-> ctl.me.peer,
                          nonce |-> ctl.me.nonce, gen |-> ctl.me.gen, rev |-> ctl.rev]
    OBVIOUS
  <2>6. /\ new.serial = ctl.me.serial /\ new.rev = ctl.rev /\ new.peer = ctl.me.peer
        /\ Tuple(new) = Tuple(ctl.me)
    BY <2>5 DEF Tuple
  <2>7. ASSUME NEW k \in pins' PROVE k = new \/ (k \in pins /\ k.serial # ctl.me.serial)
    <3>1. k = new \/ (k \in pins /\ k \notin OwnPins(attempts[i]))
      BY <1>5, <2>5
    <3>2. ASSUME k \in pins, k.serial = ctl.me.serial PROVE k \in OwnPins(attempts[i])
      <4>1. Tuple(attempts[i]) = Tuple(k) /\ attempts[i].rev = k.rev
        BY <2>1, <3>2 DEF HoldInv, PinsOK
      <4>q. QED
        BY <2>1, <3>2, <4>1 DEF OwnPins
    <3>q. QED
      BY <3>1, <3>2
  <2>8. \A j \in Live' : j \in Live /\ (j # i => attempts'[j] = attempts[j])
                         /\ (j = i => attempts'[j] = a)
    BY <2>1, <2>4 DEF Live
  <2>9. Timely(ctl.me)
    BY <1>t DEF HoldInv, ClocksOK
  <2>10. TimelyNext(a) /\ TimelyNext(new)
    BY <1>o, <1>t, <2>3, <2>6, <2>9, Numbers, TimelyStays
  <2>11. ClocksOK'
    <3>1. \A j \in Live' : TimelyNext(attempts'[j])
      BY <1>u, <2>8, <2>10 DEF HoldInv, ClocksOK, Timely, TimelyNext
    <3>2. /\ ctl'.prev.serial # 0 => TimelyNext(ctl'.prev)
          /\ ctl'.me.peer \in Peers => TimelyNext(ctl'.me)
          /\ authority'.gen \in {0, authority'.last}
      BY <1>u, <1>2 DEF HoldInv, ClocksOK, Timely, TimelyNext
    <3>q. QED
      BY <3>1, <3>2 DEF ClocksOK, Timely, TimelyNext
  <2>12. PinsOK'
    <3>1. SUFFICES ASSUME NEW k \in pins'
                   PROVE  /\ k.serial # 0 /\ k.serial <= counter' /\ k.peer \in Peers
                          /\ k.rev # 0 /\ TimelyNext(k)
                          /\ \A j \in Live' : attempts'[j].serial = k.serial =>
                               Tuple(attempts'[j]) = Tuple(k) /\ attempts'[j].rev = k.rev
                          /\ Requesting' /\ ctl'.prev.serial = k.serial =>
                               Tuple(ctl'.prev) = Tuple(k) /\ ctl'.prev.rev = k.rev
      BY DEF PinsOK, Timely, TimelyNext
    <3>2. CASE k = new
      <4>1. \A j \in Live' : attempts'[j].serial = k.serial => j = i
        BY <2>1, <2>3, <2>6, <2>8, <3>2 DEF TableInv, TableOK
      <4>2. Requesting' => ctl'.prev.serial # k.serial
        <5>1. Requesting => ctl.prev.serial < ctl.me.serial
          BY DEF TableInv, RequestOK
        <5>q. QED
          BY <1>2, <1>3, <2>6, <3>2, <5>1, Numbers
      <4>q. QED
        BY <1>u, <1>t, <2>3, <2>6, <2>8, <2>10, <3>2, <4>1, <4>2
    <3>3. CASE k \in pins /\ k.serial # ctl.me.serial
      <4>1. \A j \in Live' : attempts'[j].serial = k.serial => j # i
        BY <2>3, <2>8, <3>3
      <4>2. TimelyNext(k) /\ k.serial <= counter'
        BY <1>u, <3>3 DEF HoldInv, PinsOK, Timely, TimelyNext
      <4>q. QED
        BY <1>2, <1>3, <2>8, <3>3, <4>1, <4>2 DEF HoldInv, PinsOK
    <3>q. QED
      BY <2>7, <3>2, <3>3
  <2>q. QED
    BY <1>3, <2>11, <2>12 DEF HoldInv
<1>q. QED
  BY <1>4, <1>5 DEF PinInstall

\* The other steps of a request, and of what follows it.
LEMMA RequestHold ==
    TypeInv /\ TypeInv' /\ TableInv /\ HoldInv /\ (RequestStep \/ CommitStep \/ RollbackStep)
    => HoldInv'
<1> SUFFICES ASSUME TypeInv, TypeInv', TableInv, HoldInv,
                    RequestStep \/ CommitStep \/ RollbackStep
             PROVE  HoldInv'
  OBVIOUS
<1>t. ctl \in CtlRecords
  BY DEF TypeInv, CtlOK
\* Neither the table nor the clocks move, and no pin is added.
<1>m. ASSUME CtlHolds, CopyOK', pins' \subseteq pins,
             UNCHANGED <<attempts, counter, authority>>, ClocksOnward
      PROVE  HoldInv'
  BY <1>m, HoldKept, SameTableHolds, Numbers
<1>1. ASSUME PinRead PROVE HoldInv'
  <2>1. ctl'.me = ctl.me /\ ctl'.prev = ctl.prev
    BY <1>1, <1>t DEF PinRead, CtlRecords
  <2>2. ctl.pc = "pin" => ctl'.pc \in {"respond", "install", "undo"}
    BY <1>1, <1>t DEF PinRead, CtlRecords, Pinned, NotPinned
  <2>3. ctl.pc = "repin" => ctl'.pc \in {"copy", "reinstall", "idle"}
    BY <1>1, <1>t DEF PinRead, CtlRecords, Pinned, NotPinned
  <2>4. CtlHolds
    BY <1>1, <2>1, <2>2, <2>3, CtlGoesOnHolds DEF PinRead, Pinning, Requesting
  <2>5. CopyOK'
    <3>1. ASSUME NEW i \in Unexpired(Current(ctl.me.serial)), NEW k \in OwnPins(attempts[i]),
                 ctl' = [ctl EXCEPT !.pc = Pinned, !.rev = k.rev]
          PROVE  CopyOK'
      <4>1. k.rev # 0 /\ ctl'.rev = k.rev
        BY <1>t, <3>1 DEF OwnPins, HoldInv, PinsOK, CtlRecords
      <4>q. QED
        BY <4>1 DEF CopyOK
    <3>2. ASSUME NEW i \in Unexpired(Current(ctl.me.serial)), NEW r \in Candidates(attempts[i]),
                 ctl' = [ctl EXCEPT !.rev = r,
                              !.pc = IF @ = "pin" THEN "install" ELSE "reinstall"]
          PROVE  CopyOK'
      <4>1. r # 0 /\ ctl'.rev = r
        BY <1>t, <3>2 DEF Candidates, CtlRecords
      <4>q. QED
        BY <4>1 DEF CopyOK
    <3>3. CASE ctl' = [ctl EXCEPT !.pc = NotPinned(@)]
      <4>1. ctl'.pc \in {"undo", "idle"}
        BY <1>t, <3>3 DEF NotPinned, CtlRecords
      <4>q. QED
        BY <4>1 DEF CopyOK
    <3>q. QED
      BY <1>1, <3>1, <3>2, <3>3 DEF PinRead
  <2>q. QED
    BY <1>1, <1>m, <2>4, <2>5, SameClocks DEF PinRead
<1>2. ASSUME Respond PROVE HoldInv'
  <2>1. ctl'.me = ctl.me /\ ctl'.prev = ctl.prev /\ ctl'.pc \in {"commit", "undo"}
    BY <1>2, <1>t DEF Respond, CtlRecords
  <2>2. CtlHolds /\ CopyOK'
    BY <1>2, <2>1, CtlGoesOnHolds DEF Respond, Requesting, CopyOK
  <2>3. \A p \in Peers : client'[p].nonce = client[p].nonce /\ client'[p].sent = client[p].sent
    BY <1>2 DEF Respond, TypeInv, SharedOK, ClientRecords
  <2>4. ClocksOnward
    <3>1. authority'.gen \in {0, authority'.last} /\ authority'.last >= authority.last
      BY <1>2, Numbers DEF Respond, HoldInv, ClocksOK
    <3>q. QED
      BY <2>3, <3>1 DEF ClocksOnward, ClientOnward
  <2>q. QED
    BY <1>2, <1>m, <2>2, <2>4 DEF Respond
<1>3. ASSUME CommitCheck PROVE HoldInv'
  <2>1. ctl'.me = ctl.me /\ ctl'.prev = ctl.prev /\ ctl'.pc \in {"dropprev", "lost"}
    BY <1>3, <1>t DEF CommitCheck, CtlRecords
  <2>2. CtlHolds /\ CopyOK'
    BY <2>1, CtlGoesOnHolds DEF Requesting, CopyOK
  <2>q. QED
    BY <1>3, <1>m, <2>2, SameClocks DEF CommitCheck
<1>4. ASSUME CommitLost PROVE HoldInv'
  BY <1>4, <1>m, CtlIdleHolds, SameClocks DEF CommitLost, WithoutSerials
<1>5. ASSUME DropPrevPin PROVE HoldInv'
  <2>1. ctl'.me = ctl.me /\ ctl'.prev = ctl.prev /\ ctl'.pc = "dropslots"
    BY <1>5, <1>t DEF DropPrevPin, CtlRecords
  <2>2. CtlHolds /\ CopyOK'
    BY <2>1, CtlGoesOnHolds DEF Requesting, CopyOK
  <2>q. QED
    BY <1>5, <1>m, <2>2, SameClocks DEF DropPrevPin, WithoutSerials
<1>6. ASSUME DropOldSlots PROVE HoldInv'
  <2>1. ctl'.me = ctl.me /\ ctl'.prev = ctl.prev /\ ctl'.pc = "deliver"
    BY <1>6, <1>t DEF DropOldSlots, CtlRecords
  <2>2. CtlHolds /\ CopyOK'
    BY <2>1, CtlGoesOnHolds DEF Requesting, CopyOK
  <2>q. QED
    BY <1>6, <1>m, <2>2, SameClocks DEF DropOldSlots
<1>7. ASSUME UndoPins PROVE HoldInv'
  BY <1>7, <1>m, CtlIdleHolds, SameClocks DEF UndoPins, WithoutSerials
<1>q. QED
  BY <1>1, <1>2, <1>3, <1>4, <1>5, <1>6, <1>7, AskHold, ReserveHold, InstallHold, UndoHold
     DEF RequestStep, CommitStep, RollbackStep

\* Every place keeps its attempt and that attempt its revision; marks may change.
Remarked == Live' = Live /\ \A i \in Places :
    /\ attempts'[i].serial = attempts[i].serial /\ Tuple(attempts'[i]) = Tuple(attempts[i])
    /\ attempts'[i].rev = attempts[i].rev

LEMMA SameRemarked == UNCHANGED attempts => Remarked
BY DEF Remarked, Live

LEMMA RemarkedBy ==
    ASSUME TypeInv, NEW S \in SUBSET Live, NEW f,
           \A i \in S : f[i].serial = attempts[i].serial /\ Tuple(f[i]) = Tuple(attempts[i])
                        /\ f[i].rev = attempts[i].rev,
           attempts' = [i \in Places |-> IF i \in S THEN f[i] ELSE attempts[i]]
    PROVE  Remarked
<1>1. \A i \in Places : attempts'[i] = IF i \in S THEN f[i] ELSE attempts[i]
  OBVIOUS
<1>2. \A i \in Places :
        /\ attempts'[i].serial = attempts[i].serial /\ Tuple(attempts'[i]) = Tuple(attempts[i])
        /\ attempts'[i].rev = attempts[i].rev
  BY <1>1
<1>3. Live' = Live
  BY <1>2 DEF Live
<1>q. QED
  BY <1>2, <1>3 DEF Remarked

\* Marks, sends and the passing of an expiry.
LEMMA MarkRemarks ==
    ASSUME TypeInv, MarkStatus
    PROVE  Remarked
<1> DEFINE f == [i \in Places |-> [attempts[i] EXCEPT !.status = TRUE, !.expired = FALSE]]
<1>1. Marked(game.peer, game.nonce) \in SUBSET Live
  BY DEF Marked, Mine
<1>2. \A i \in Marked(game.peer, game.nonce) :
        f[i].serial = attempts[i].serial /\ Tuple(f[i]) = Tuple(attempts[i])
        /\ f[i].rev = attempts[i].rev
  BY <1>1 DEF TypeInv, AttemptsOK, AttemptRecords, Tuple, Live
<1>3. attempts' = [i \in Places |-> IF i \in Marked(game.peer, game.nonce) THEN f[i]
                                    ELSE attempts[i]]
  BY DEF MarkStatus
<1> HIDE DEF f
<1>q. QED
  BY <1>1, <1>2, <1>3, RemarkedBy

LEMMA SendRemarks ==
    ASSUME TypeInv, NEW t \in Senders, Send(t)
    PROVE  Remarked
<1>1. PICK a \in work[t].to, m \in work[t].load :
        \/ attempts' = [i \in Places |->
                          IF i \in Marked(a.peer, a.nonce)
                          THEN [attempts[i] EXCEPT !.sent = @ \cup {m.event}, !.expired = FALSE]
                          ELSE attempts[i]]
        \/ UNCHANGED attempts
  BY DEF Send
<1> DEFINE f == [i \in Places |-> [attempts[i] EXCEPT !.sent = @ \cup {m.event},
                                                      !.expired = FALSE]]
<1>2. Marked(a.peer, a.nonce) \in SUBSET Live
  BY DEF Marked, Mine
<1>3. \A i \in Marked(a.peer, a.nonce) :
        f[i].serial = attempts[i].serial /\ Tuple(f[i]) = Tuple(attempts[i])
        /\ f[i].rev = attempts[i].rev
  BY <1>2 DEF TypeInv, AttemptsOK, AttemptRecords, Tuple, Live
<1>4. \/ attempts' = [i \in Places |-> IF i \in Marked(a.peer, a.nonce) THEN f[i] ELSE attempts[i]]
      \/ UNCHANGED attempts
  BY <1>1
<1> HIDE DEF f
<1>q. QED
  BY <1>2, <1>3, <1>4, RemarkedBy, SameRemarked

LEMMA ElapseRemarks ==
    ASSUME TypeInv, NEW s \in 1..MaxSerial, Elapse(s)
    PROVE  /\ Remarked
           /\ ctl'.pc = ctl.pc /\ ctl'.me = ctl.me /\ ctl'.place = ctl.place
           /\ ctl'.late = ctl.late /\ ctl'.rev = ctl.rev
           /\ ctl'.prev.serial = ctl.prev.serial /\ Tuple(ctl'.prev) = Tuple(ctl.prev)
           /\ ctl'.prev.rev = ctl.prev.rev /\ ctl'.prev.peer = ctl.prev.peer
           /\ (ctl.prev.expired => ctl'.prev.expired)
<1>t. ctl \in CtlRecords /\ attempts \in [Places -> AttemptRecords]
  BY DEF TypeInv, CtlOK, AttemptsOK
<1> DEFINE f == [i \in Places |-> [attempts[i] EXCEPT !.expired = TRUE]]
<1>1. Current(s) \in SUBSET Live
  BY DEF Current
<1>2. \A i \in Current(s) :
        f[i].serial = attempts[i].serial /\ Tuple(f[i]) = Tuple(attempts[i])
        /\ f[i].rev = attempts[i].rev
  BY <1>t, <1>1 DEF AttemptRecords, Tuple, Live
<1>3. attempts' = [i \in Places |-> IF i \in Current(s) THEN f[i] ELSE attempts[i]]
  BY DEF Elapse
<1> HIDE DEF f
<1>4. Remarked
  BY <1>1, <1>2, <1>3, RemarkedBy, ZenonT(60)
<1>5. PICK b : b = [ctl.prev EXCEPT !.expired = TRUE]
  OBVIOUS
<1>6. /\ b.serial = ctl.prev.serial /\ b.peer = ctl.prev.peer /\ b.expired
      /\ Tuple(b) = Tuple(ctl.prev) /\ b.rev = ctl.prev.rev
  BY <1>t, <1>5 DEF CtlRecords, AttemptRecords, Tuple
<1>7. ctl' = ctl \/ ctl' = [ctl EXCEPT !.prev = b]
  BY <1>t, <1>5 DEF Elapse, CtlRecords
<1>8. CASE ctl' = [ctl EXCEPT !.prev = b]
  <2>1. /\ ctl'.pc = ctl.pc /\ ctl'.me = ctl.me /\ ctl'.place = ctl.place
        /\ ctl'.late = ctl.late /\ ctl'.rev = ctl.rev /\ ctl'.prev = b
    BY <1>t, <1>8 DEF CtlRecords
  <2>q. QED
    BY <1>4, <1>6, <2>1
<1>q. QED
  BY <1>4, <1>7, <1>8

LEMMA RemarkedHolds == Remarked => TableHolds
BY DEF Remarked, TableHolds, Live

\* Deliveries, expiries, the status and the payloads.
LEMMA UpkeepHold ==
    /\ TypeInv /\ TypeInv' /\ TableInv /\ HoldInv
    /\ DeliverStep \/ ExpireStep \/ StatusStep \/ PayloadStep
    => HoldInv'
<1> SUFFICES ASSUME TypeInv, TypeInv', TableInv, HoldInv,
                    DeliverStep \/ ExpireStep \/ StatusStep \/ PayloadStep
             PROVE  HoldInv'
  OBVIOUS
<1>t. ctl \in CtlRecords
  BY DEF TypeInv, CtlOK
\* No new attempt, no pin added, no step of the clocks.
<1>m. ASSUME CtlHolds, CopyOK', pins' \subseteq pins, TableHolds,
             UNCHANGED <<counter, authority, client>>
      PROVE  HoldInv'
  BY <1>m, HoldKept, SameClocks, Numbers
\* Not the control thread.
<1>n. ASSUME UNCHANGED <<ctl, pins, counter, authority, client>>, Remarked
      PROVE  HoldInv'
  <2>1. CopyOK'
    BY <1>n DEF HoldInv, CopyOK
  <2>q. QED
    BY <1>m, <1>n, <2>1, SameCtlHolds, RemarkedHolds
<1>1. ASSUME Deliver PROVE HoldInv'
  <2>1. ctl'.me = ctl.me /\ ctl'.prev = ctl.prev /\ ctl'.pc = "repin"
    BY <1>1, <1>t DEF Deliver, CtlRecords
  <2>2. CtlHolds /\ CopyOK'
    BY <2>1, CtlGoesOnHolds DEF Requesting, CopyOK
  <2>q. QED
    BY <1>1, <1>m, <2>2, SameTableHolds DEF Deliver
<1>c. ASSUME NEW i \in Live, NEW to \in {"repin", "store"},
             ctl' = [CtlIdle EXCEPT !.pc = to, !.me = attempts[i]]
      PROVE  CtlHolds /\ CopyOK'
  <2>1. ctl'.pc = to /\ ctl'.me = attempts[i] /\ ctl'.prev = NoAttempt
    BY <1>c DEF CtlIdle
  <2>q. QED
    BY <2>1, Defaults DEF CtlHolds, CopyOK
<1>2. ASSUME NEW i \in Places, Redeliver(i) PROVE HoldInv'
  <2>1. i \in Live
    BY <1>2 DEF Redeliver, Unexpired
  <2>q. QED
    BY <1>2, <1>c, <1>m, <2>1, SameTableHolds DEF Redeliver
<1>3. ASSUME CopyPinned PROVE HoldInv'
  BY <1>3, <1>m, CtlIdleHolds, SameTableHolds DEF CopyPinned
<1>4. ASSUME ExpireAttempts PROVE HoldInv'
  <2>1. TableHolds
    BY <1>4, Defaults DEF ExpireAttempts, TableHolds, Live
  <2>2. ctl'.pc = "xpins" /\ ctl'.me = NoAttempt /\ ctl'.prev = NoAttempt
    BY <1>4 DEF ExpireAttempts, CtlIdle
  <2>3. CtlHolds /\ CopyOK'
    BY <2>2, Defaults DEF CtlHolds, CopyOK
  <2>q. QED
    BY <1>4, <1>m, <2>1, <2>3 DEF ExpireAttempts
<1>5. ASSUME ExpirePins PROVE HoldInv'
  <2>1. ctl'.me = ctl.me /\ ctl'.prev = ctl.prev /\ ctl'.pc = "xslots"
    BY <1>5, <1>t DEF ExpirePins, CtlRecords
  <2>2. CtlHolds /\ CopyOK'
    BY <2>1, CtlGoesOnHolds DEF Requesting, CopyOK
  <2>q. QED
    BY <1>5, <1>m, <2>2, SameTableHolds DEF ExpirePins, WithoutSerials
<1>6. ASSUME ExpireSlots PROVE HoldInv'
  BY <1>6, <1>m, CtlIdleHolds, SameTableHolds DEF ExpireSlots
<1>7. ASSUME NEW p \in Peers, StatusArrives(p) PROVE HoldInv'
  <2>1. UNCHANGED <<attempts, pins, counter, authority>>
        /\ client' = [client EXCEPT ![p].sent = TRUE]
    BY <1>7 DEF StatusArrives
  <2>2. ClocksOnward
    <3>1. \A q \in Peers : /\ client'[q].nonce = client[q].nonce
                           /\ client[q].sent => client'[q].sent
      BY <2>1 DEF TypeInv, SharedOK, ClientRecords
    <3>2. authority'.gen \in {0, authority'.last} /\ authority'.last >= authority.last
      BY <2>1, Numbers DEF HoldInv, ClocksOK
    <3>q. QED
      BY <3>1, <3>2 DEF ClocksOnward, ClientOnward
  <2>3. CtlHolds /\ CopyOK'
    <3>1. CASE UNCHANGED ctl
      BY <3>1, SameCtlHolds DEF HoldInv, CopyOK
    <3>2. ASSUME NEW i \in Unexpired(Mine(p)),
                 ctl' = [CtlIdle EXCEPT !.pc = "store", !.me = attempts[i]]
          PROVE  CtlHolds /\ CopyOK'
      <4>1. i \in Live
        BY DEF Unexpired, Mine
      <4>q. QED
        BY <1>c, <3>2, <4>1
    <3>q. QED
      BY <1>7, <3>1, <3>2 DEF StatusArrives
  <2>q. QED
    BY <2>1, <2>2, <2>3, HoldKept, SameTableHolds, Numbers
<1>8. ASSUME NEW p \in Peers, Consume(p) PROVE HoldInv'
  BY <1>8, <1>n, SameRemarked DEF Consume
<1>9. ASSUME StoreStatus PROVE HoldInv'
  BY <1>9, <1>m, CtlIdleHolds, SameTableHolds DEF StoreStatus
<1>10. ASSUME TakeSlot PROVE HoldInv'
  BY <1>10, <1>n, SameRemarked DEF TakeSlot
<1>11. ASSUME MarkStatus PROVE HoldInv'
  BY <1>11, <1>n, MarkRemarks DEF MarkStatus
<1>12. ASSUME NEW t \in Senders, NEW event \in Events, Capture(t, event) PROVE HoldInv'
  BY <1>12, <1>n, SameRemarked DEF Capture
<1>13. ASSUME NEW t \in Senders,
              StorePayload(t) \/ Spread(t) \/ Look(t) \/ CopyCache(t) \/ Refresh(t) \/ Sent(t)
       PROVE  HoldInv'
  <2>1. UNCHANGED <<attempts, pins, ctl, counter, authority, client>>
    BY <1>13 DEF StorePayload, Spread, Look, CopyCache, Refresh, Sent
  <2>q. QED
    BY <2>1, <1>n, SameRemarked
<1>14. ASSUME NEW t \in Senders, Send(t) PROVE HoldInv'
  BY <1>14, <1>n, SendRemarks DEF Send
<1>q. QED
  BY <1>1, <1>2, <1>3, <1>4, <1>5, <1>6, <1>7, <1>8, <1>9, <1>10, <1>11, <1>12, <1>13, <1>14
     DEF DeliverStep, ExpireStep, StatusStep, PayloadStep

\* Clears, peer losses, time and members.
LEMMA OtherHold ==
    TypeInv /\ TypeInv' /\ TableInv /\ HoldInv /\ (ClearStep \/ LoseStep \/ WorldStep)
    => HoldInv'
<1> SUFFICES ASSUME TypeInv, TypeInv', TableInv, HoldInv, ClearStep \/ LoseStep \/ WorldStep
             PROVE  HoldInv'
  OBVIOUS
<1>m. ASSUME UNCHANGED <<ctl, counter>>, ClocksOnward, pins' \subseteq pins, TableHolds
      PROVE  HoldInv'
  <2>1. CopyOK'
    BY <1>m DEF HoldInv, CopyOK
  <2>q. QED
    BY <1>m, <2>1, HoldKept, SameCtlHolds, Numbers
<1>a. /\ authority \in AuthorityRecords /\ authority.gen \in {0, authority.last}
      /\ authority.last \in Nat
  BY Numbers DEF TypeInv, SharedOK, HoldInv, ClocksOK
<1>1. ASSUME CommitAuthority PROVE HoldInv'
  <2>1. authority'.gen = authority'.last /\ authority'.last = authority.last + 1
    BY <1>1 DEF CommitAuthority
  <2>2. ClocksOnward
    BY <1>1, <1>a, <2>1, ClientSame DEF CommitAuthority, ClocksOnward
  <2>q. QED
    BY <1>1, <1>m, <2>2, SameTableHolds DEF CommitAuthority
<1>2. ASSUME RetireAuthority PROVE HoldInv'
  <2>1. authority' = [authority EXCEPT !.gen = 0, !.running = FALSE]
    BY <1>2 DEF RetireAuthority
  <2>2. authority'.gen = 0 /\ authority'.last = authority.last
    BY <1>a, <2>1 DEF AuthorityRecords
  <2>3. ClocksOnward
    BY <1>2, <1>a, <2>2, ClientSame DEF RetireAuthority, ClocksOnward
  <2>q. QED
    BY <1>2, <1>m, <2>3, SameTableHolds DEF RetireAuthority
<1>3. ASSUME ResetPeers PROVE HoldInv'
  BY <1>3, <1>m, SameClocks, SameTableHolds DEF ResetPeers
<1>4. ASSUME NEW t \in Threads,
             ClearAttempts(t) \/ ClearSlots(t) \/ ClearCache(t) \/ ClearPins(t)
      PROVE  HoldInv'
  <2>1. TableHolds
    <3>1. ASSUME ClearAttempts(t) PROVE TableHolds
      BY <3>1, Defaults DEF ClearAttempts, TableHolds, Live
    <3>2. ASSUME ClearSlots(t) \/ ClearCache(t) \/ ClearPins(t) PROVE TableHolds
      BY <3>2, SameTableHolds DEF ClearSlots, ClearCache, ClearPins
    <3>q. QED
      BY <1>4, <3>1, <3>2
  <2>2. UNCHANGED <<ctl, counter, client, authority>> /\ pins' \subseteq pins
    BY <1>4 DEF ClearAttempts, ClearSlots, ClearCache, ClearPins
  <2>q. QED
    BY <1>m, <2>1, <2>2, SameClocks
<1>5. ASSUME NEW p, Losing(p) PROVE HoldInv'
  <2>1. TableHolds
    BY <1>5, Defaults DEF Losing, TableHolds, Live
  <2>q. QED
    BY <1>5, <1>m, <2>1, SameClocks DEF Losing
<1>6. ASSUME LosePeerSlots \/ LosePeerPins PROVE HoldInv'
  <2>1. UNCHANGED <<attempts, ctl, counter, client, authority>> /\ pins' \subseteq pins
    BY <1>6 DEF LosePeerSlots, LosePeerPins
  <2>q. QED
    BY <1>m, <2>1, SameClocks, SameTableHolds
<1>7. ASSUME NEW s \in 1..MaxSerial, Elapse(s) PROVE HoldInv'
  <2>1. CtlHolds
    BY <1>7, ElapseRemarks DEF CtlHolds, Requesting
  <2>2. CopyOK'
    BY <1>7, ElapseRemarks DEF HoldInv, CopyOK
  <2>3. UNCHANGED <<pins, counter, authority, client>>
    BY <1>7 DEF Elapse
  <2>q. QED
    BY <1>7, <2>1, <2>2, <2>3, ElapseRemarks, RemarkedHolds, HoldKept, SameClocks, Numbers
<1>8. ASSUME NEW p \in Peers, FreshNonce(p) PROVE HoldInv'
  <2>1. ClientOnward
    <3>1. client'[p].nonce = client[p].nonce + 1
          /\ \A q \in Peers : q # p => client'[q] = client[q]
      BY <1>8 DEF FreshNonce, TypeInv, SharedOK
    <3>q. QED
      BY <3>1, Numbers DEF ClientOnward
  <2>2. ClocksOnward
    BY <1>8, <1>a, <2>1 DEF FreshNonce, ClocksOnward
  <2>q. QED
    BY <1>8, <1>m, <2>2, SameTableHolds DEF FreshNonce
<1>9. ASSUME NEW p \in Peers, Publish(p) PROVE HoldInv'
  BY <1>9, <1>m, SameClocks, SameTableHolds DEF Publish
<1>10. ASSUME WorldChanges PROVE HoldInv'
  <2>1. authority'.gen = authority.gen /\ authority'.last = authority.last
    BY <1>10, <1>a DEF WorldChanges, AuthorityRecords
  <2>2. ClocksOnward
    BY <1>10, <1>a, <2>1, ClientSame DEF WorldChanges, ClocksOnward
  <2>q. QED
    BY <1>10, <1>m, <2>2, SameTableHolds DEF WorldChanges
<1>11. ClearStep => HoldInv'
  BY <1>1, <1>2, <1>3, <1>4 DEF ClearStep
<1>12. LoseStep => HoldInv'
  BY <1>5, <1>6 DEF LoseStep, LosePeer, LoseNext
<1>13. WorldStep => HoldInv'
  BY <1>7, <1>8, <1>9, <1>10 DEF WorldStep
<1>q. QED
  BY <1>11, <1>12, <1>13

LEMMA HoldInit == Init => HoldInv
<1> SUFFICES ASSUME Init PROVE HoldInv
  OBVIOUS
<1>1. Live = {} /\ pins = {} /\ ctl = CtlIdle /\ authority.gen = 0
  BY DEF Init, Live, NoAttempt
<1>2. ctl.pc = "idle" /\ ctl.prev.serial = 0 /\ ctl.me.peer \notin Peers
  BY <1>1, Defaults DEF CtlIdle
<1>q. QED
  BY <1>1, <1>2 DEF HoldInv, ClocksOK, PinsOK, CopyOK

LEMMA HoldNext == TypeInv /\ TypeInv' /\ TableInv /\ HoldInv /\ [Next]_vars => HoldInv'
<1> SUFFICES ASSUME TypeInv, TypeInv', TableInv, HoldInv, [Next]_vars PROVE HoldInv'
  OBVIOUS
<1>1. CASE UNCHANGED vars
  <2>1. CopyOK'
    BY <1>1 DEF vars, HoldInv, CopyOK
  <2>2. UNCHANGED <<attempts, pins, ctl, client, authority, counter>>
    BY <1>1 DEF vars
  <2>q. QED
    BY <2>1, <2>2, HoldKept, SameClocks, SameTableHolds, SameCtlHolds, Numbers
<1>q. QED
  BY <1>1, RequestHold, UpkeepHold, OtherHold DEF Next

LEMMA HoldAlways == Spec => [](TypeInv /\ TableInv /\ HoldInv)
BY TypeInit, TypeNext, TableInit, TableNext, HoldInit, HoldNext, PTL DEF Spec

-----------------------------------------------------------------------------
(* A pin has an owner. *)

\* Its attempt is in the table, or it is about to go with its peer or with the
\* whole state, or it is the one kind that a lost commit leaves behind.
Held(k) ==
    \/ Current(k.serial) # {}
    \/ lose.pc # "idle" /\ lose.peer = k.peer
    \/ \E t \in Threads : clear[t] # "none"
    \/ k.serial \in history.forgotten

\* The control thread has it in hand: it will put the attempt of the pin back,
\* unpin it, or leave it behind.  An open request whose reservation is gone does
\* neither for its own peer, and the loss of that peer has taken the pin.
InHand(k) ==
    \/ /\ Requesting /\ k.serial = ctl.prev.serial
       /\ StillReserved \/ ctl.prev.peer # ctl.me.peer
    \/ ctl.pc = "lost" /\ k.serial = ctl.prev.serial /\ ctl.prev.peer # ctl.me.peer
    \/ ctl.pc = "dropprev" /\ k.serial = ctl.prev.serial
    \/ ctl.pc = "undopins" /\ k.serial \in Undone
    \/ ctl.pc = "xpins" /\ k.serial \in {a.serial : a \in ctl.late}

OwnerOK == \A k \in pins : Held(k) \/ InHand(k)

\* Places keep their serials.
SerialsStay == \A i \in Places : attempts'[i].serial = attempts[i].serial

\* Marks of peer losses and clears stay, and what is forgotten stays so.
MarksStay == UNCHANGED <<lose, clear>> /\ history'.forgotten = history.forgotten

LEMMA RemarkedSerials == (Remarked => SerialsStay) /\ (UNCHANGED attempts => SerialsStay)
BY DEF Remarked, SerialsStay

LEMMA HeldStays ==
    ASSUME SerialsStay, MarksStay, NEW k, Held(k)
    PROVE  Held(k)'
<1>1. Current(k.serial) # {} => Current(k.serial)' # {}
  BY DEF SerialsStay, Current, Live
<1>q. QED
  BY <1>1 DEF Held, MarksStay

\* A step of the control thread in which it has nothing in hand.
LEMMA OwnersByTable ==
    ASSUME OwnerOK, SerialsStay, MarksStay, pins' \subseteq pins,
           ctl.pc \notin {"pin", "install", "respond", "commit", "undo", "lost", "dropprev",
                          "undopins", "xpins"}
    PROVE  OwnerOK'
<1>1. SUFFICES ASSUME NEW k \in pins' PROVE Held(k)'
  BY DEF OwnerOK
<1>2. Held(k)
  BY DEF OwnerOK, InHand, Requesting
<1>q. QED
  BY <1>2, HeldStays

\* A step of another thread that leaves the attempts in their places.
LEMMA OwnersStay ==
    ASSUME TypeInv, OwnerOK, SerialsStay, MarksStay, pins' \subseteq pins,
           ctl'.pc = ctl.pc, ctl'.me = ctl.me, ctl'.place = ctl.place, ctl'.late = ctl.late,
           ctl'.prev.serial = ctl.prev.serial, ctl'.prev.peer = ctl.prev.peer,
           ctl.prev.expired => ctl'.prev.expired
    PROVE  OwnerOK'
<1>1. SUFFICES ASSUME NEW k \in pins' PROVE Held(k)' \/ InHand(k)'
  BY DEF OwnerOK
<1>2. Held(k) \/ InHand(k)
  BY DEF OwnerOK
<1>3. CASE Held(k)
  BY <1>3, HeldStays
<1>4. CASE InHand(k)
  <2>1. ctl.place \in Places
    BY DEF TypeInv, CtlOK, CtlRecords
  <2>2. StillReserved => StillReserved'
    BY <2>1 DEF StillReserved, SerialsStay
  <2>3. k.serial \in Undone => k.serial \in Undone'
    BY DEF Undone
  <2>q. QED
    BY <1>4, <2>2, <2>3 DEF InHand, Requesting
<1>q. QED
  BY <1>2, <1>3, <1>4

\* The request: what it replaces is in its hand.
LEMMA ReserveOwner ==
    ASSUME TypeInv, TypeInv', TableInv, HoldInv, OwnerOK, Reserve
    PROVE  OwnerOK'
<1>t. /\ attempts \in [Places -> AttemptRecords] /\ counter \in Nat
      /\ ctl.me.peer \in Peers /\ ctl.me \in AttemptRecords /\ AttemptsOK /\ HistoryOK
  BY Numbers DEF TypeInv, AttemptsOK, CtlOK, Reserve
<1>1. CASE Mine(ctl.me.peer) \cup Usable = {}
  BY <1>1, OwnersByTable, RemarkedSerials DEF Reserve, MarksStay
<1>2. CASE Mine(ctl.me.peer) \cup Usable # {}
  <2>1. PICK i \in Places, new \in AttemptRecords :
          i = PlaceFor(ctl.me.peer) /\ new = [ctl.me EXCEPT !.serial = counter + 1]
    <3>1. PlaceFor(ctl.me.peer) \in Places
      BY <1>t, <1>2, PlaceFacts
    <3>2. counter + 1 \in Serials
      BY <1>t, BoundsAssumption DEF Reserve, TypeInv, CtlOK, Serials
    <3>q. QED
      BY <1>t, <3>1, <3>2 DEF AttemptRecords
  <2>2. PICK next : next = Inherit(attempts[i], new)
    OBVIOUS
  <2>3. attempts[i] \in AttemptRecords
    BY <1>t
  <2>4. PICK ended \in SUBSET AttemptRecords :
          ended = {attempts[i]} \ {attempts[j] : j \in Mine(ctl.me.peer)}
    BY <2>3
  <2>5. /\ attempts' = [attempts EXCEPT ![i] = next]
        /\ ctl'.me = next /\ ctl'.prev = attempts[i] /\ ctl'.pc = "pin" /\ ctl'.place = i
        /\ UNCHANGED <<pins, lose, clear>> /\ history' = Over(ended)
    BY <1>2, <2>1, <2>2, <2>4 DEF Reserve, CtlIdle
  <2>6. \A j \in Places : attempts'[j] = IF j = i THEN next ELSE attempts[j]
    BY <1>t, <2>5
  <2>7. history'.forgotten = history.forgotten
    BY <1>t, <2>5, OverFacts
  <2>8. StillReserved' /\ Requesting'
    BY <2>1, <2>5, <2>6 DEF StillReserved, Requesting
  <2>9. SUFFICES ASSUME NEW k \in pins PROVE Held(k)' \/ InHand(k)'
    BY <2>5 DEF OwnerOK
  <2>10. Held(k) /\ k.serial # 0
    BY DEF OwnerOK, InHand, Requesting, Reserve, HoldInv, PinsOK
  <2>11. ASSUME NEW j \in Current(k.serial), j # i PROVE Held(k)'
    <3>1. j \in Current(k.serial)'
      BY <2>6, <2>11 DEF Current, Live
    <3>q. QED
      BY <3>1 DEF Held
  <2>12. ASSUME i \in Current(k.serial) PROVE InHand(k)'
    BY <2>5, <2>8, <2>12 DEF Current, InHand
  <2>q. QED
    BY <2>5, <2>7, <2>10, <2>11, <2>12 DEF Held
<1>q. QED
  BY <1>1, <1>2

\* A rollback puts the earlier attempt back, or unpins it with its own pin.
LEMMA UndoOwner ==
    ASSUME TypeInv, TypeInv', TableInv, HoldInv, OwnerOK, Undo
    PROVE  OwnerOK'
<1>t. /\ attempts \in [Places -> AttemptRecords] /\ ctl \in CtlRecords /\ HistoryOK
      /\ ctl.place \in Places /\ Requesting /\ ctl.prev \in AttemptRecords
  BY DEF TypeInv, AttemptsOK, CtlOK, CtlRecords, Undo, Requesting
<1>1. PICK back \in AttemptRecords, ended \in SUBSET AttemptRecords :
        back = Restored(ctl.prev) /\ ended = {ctl.prev} \ {back}
  BY <1>t, Defaults DEF Restored
<1>2. /\ attempts' = IF StillReserved THEN [attempts EXCEPT ![ctl.place] = back]
                     ELSE attempts
      /\ ctl' = [ctl EXCEPT !.pc = "undopins"]
      /\ history' = Over(ended) /\ UNCHANGED <<pins, lose, clear>>
  BY <1>1 DEF Undo
<1>3. ctl'.pc = "undopins" /\ ctl'.me = ctl.me /\ ctl'.prev = ctl.prev
  BY <1>t, <1>2 DEF CtlRecords
<1>4. history'.forgotten = history.forgotten
  BY <1>t, <1>2, OverFacts
<1>5. Undone' = Undone
  BY <1>3 DEF Undone
<1>6. SUFFICES ASSUME NEW k \in pins PROVE Held(k)' \/ InHand(k)'
  BY <1>2 DEF OwnerOK
<1>7. k.serial # 0
  BY DEF HoldInv, PinsOK
<1>8. ASSUME NEW j \in Current(k.serial) PROVE Held(k)' \/ InHand(k)'
  <2>1. CASE StillReserved /\ j = ctl.place
    <3>1. k.serial \in Undone
      BY <1>8, <2>1 DEF Current, StillReserved, Undone
    <3>q. QED
      BY <1>3, <1>5, <3>1 DEF InHand
  <2>2. CASE ~(StillReserved /\ j = ctl.place)
    <3>1. attempts'[j] = attempts[j] /\ j \in Places
      BY <1>2, <1>t, <1>8, <2>2 DEF Current, Live
    <3>2. j \in Current(k.serial)'
      BY <1>8, <3>1 DEF Current, Live
    <3>q. QED
      BY <3>2 DEF Held
  <2>q. QED
    BY <2>1, <2>2
<1>9. ASSUME InHand(k) PROVE Held(k)' \/ InHand(k)'
  <2>1. k.serial = ctl.prev.serial /\ (StillReserved \/ ctl.prev.peer # ctl.me.peer)
    BY <1>9 DEF InHand, Undo
  <2>2. CASE ctl.prev.expired
    BY <1>3, <1>5, <2>1, <2>2 DEF InHand, Undone
  <2>3. CASE ~ctl.prev.expired
    <3>1. StillReserved /\ back = ctl.prev
      BY <1>1, <1>7, <1>t, <2>1, <2>3 DEF TableInv, RequestOK, Restored
    <3>2. attempts'[ctl.place] = ctl.prev
      BY <1>2, <1>t, <3>1
    <3>3. ctl.place \in Current(k.serial)'
      BY <1>7, <1>t, <2>1, <3>2 DEF Current, Live
    <3>q. QED
      BY <3>3 DEF Held
  <2>q. QED
    BY <2>2, <2>3
<1>q. QED
  BY <1>2, <1>4, <1>8, <1>9 DEF OwnerOK, Held

\* The other steps of a request, and of what follows it.
LEMMA RequestOwner ==
    /\ TypeInv /\ TypeInv' /\ TableInv /\ HoldInv /\ OwnerOK
    /\ RequestStep \/ CommitStep \/ RollbackStep
    => OwnerOK'
<1> SUFFICES ASSUME TypeInv, TypeInv', TableInv, HoldInv, OwnerOK,
                    RequestStep \/ CommitStep \/ RollbackStep
             PROVE  OwnerOK'
  OBVIOUS
<1>t. ctl \in CtlRecords /\ ctl.place \in Places /\ history \in Histories
  BY DEF TypeInv, CtlOK, CtlRecords, HistoryOK
\* The request goes on.
<1>m. ASSUME SerialsStay, MarksStay, NEW k \in pins, ctl'.me = ctl.me, ctl'.prev = ctl.prev,
             ctl'.place = ctl.place, ctl.pc \in {"pin", "install", "respond", "commit"},
             Requesting'
      PROVE  Held(k)' \/ InHand(k)'
  <2>1. CASE Held(k)
    BY <1>m, <2>1, HeldStays
  <2>2. CASE InHand(k)
    <3>1. StillReserved => StillReserved'
      BY <1>m, <1>t DEF StillReserved, SerialsStay
    <3>q. QED
      BY <1>m, <2>2, <3>1 DEF InHand
  <2>q. QED
    BY <2>1, <2>2 DEF OwnerOK
<1>1. ASSUME NEW p \in Peers, Ask(p) PROVE OwnerOK'
  BY <1>1, OwnersByTable, RemarkedSerials DEF Ask, CtlFree, MarksStay
<1>2. ASSUME PinRead PROVE OwnerOK'
  <2>1. ctl'.me = ctl.me /\ ctl'.prev = ctl.prev /\ ctl'.place = ctl.place
    BY <1>2, <1>t DEF PinRead, CtlRecords
  <2>2. ctl.pc = "pin" => ctl'.pc \in {"respond", "install", "undo"}
    BY <1>2, <1>t DEF PinRead, CtlRecords, Pinned, NotPinned
  <2>3. SerialsStay /\ MarksStay /\ UNCHANGED pins
    BY <1>2, RemarkedSerials DEF PinRead, MarksStay
  <2>4. CASE ctl.pc = "pin"
    BY <1>m, <2>1, <2>2, <2>3, <2>4 DEF OwnerOK, Requesting
  <2>5. CASE ctl.pc = "repin"
    BY <2>3, <2>5, OwnersByTable
  <2>q. QED
    BY <1>2, <2>4, <2>5 DEF PinRead, Pinning
<1>3. ASSUME PinInstall PROVE OwnerOK'
  <2>1. PICK to : to \in {Pinned, NotPinned(ctl.pc)} /\ ctl' = [ctl EXCEPT !.pc = to]
    BY <1>3 DEF PinInstall
  <2>2. /\ ctl'.pc = to /\ ctl'.me = ctl.me /\ ctl'.prev = ctl.prev /\ ctl'.place = ctl.place
        /\ ctl.pc = "install" => to \in {"respond", "undo"}
    BY <1>t, <2>1 DEF CtlRecords, Pinned, NotPinned
  <2>3. MarksStay /\ ctl.pc \in {"install", "reinstall"}
    BY <1>3 DEF PinInstall, MarksStay
  <2>4. SerialsStay /\ \A k \in pins' : k \in pins \/ Current(k.serial) # {}
    <3>1. ASSUME NEW i \in Unexpired(Current(ctl.me.serial)),
                 attempts' = [attempts EXCEPT ![i].rev = ctl.rev],
                 pins' = (pins \ OwnPins(attempts[i])) \cup
                         {[serial |-> ctl.me.serial, peer |-> ctl.me.peer,
                           nonce |-> ctl.me.nonce, gen |-> ctl.me.gen, rev |-> ctl.rev]}
          PROVE  SerialsStay /\ \A k \in pins' : k \in pins \/ Current(k.serial) # {}
      <4>1. i \in Current(ctl.me.serial)
        BY DEF Unexpired
      <4>2. \A j \in Places : attempts'[j].serial = attempts[j].serial
        BY <3>1 DEF TypeInv, AttemptsOK, AttemptRecords
      <4>q. QED
        BY <3>1, <4>1, <4>2 DEF SerialsStay
    <3>2. CASE UNCHANGED <<attempts, pins>>
      BY <3>2 DEF SerialsStay
    <3>q. QED
      BY <1>3, <3>1, <3>2 DEF PinInstall
  <2>5. ASSUME NEW k \in pins', Current(k.serial) # {} PROVE Held(k)'
    BY <2>3, <2>4, <2>5, HeldStays DEF Held
  <2>6. ASSUME NEW k \in pins PROVE Held(k)' \/ InHand(k)'
    <3>1. CASE ctl.pc = "install"
      BY <1>m, <2>2, <2>3, <2>4, <3>1 DEF Requesting
    <3>2. CASE ctl.pc = "reinstall"
      <4>1. Held(k)
        BY <3>2 DEF OwnerOK, InHand, Requesting
      <4>q. QED
        BY <2>3, <2>4, <4>1, HeldStays
    <3>q. QED
      BY <2>3, <3>1, <3>2
  <2>q. QED
    BY <2>4, <2>5, <2>6 DEF OwnerOK
<1>4. ASSUME Respond PROVE OwnerOK'
  <2>1. ctl'.me = ctl.me /\ ctl'.prev = ctl.prev /\ ctl'.place = ctl.place
        /\ ctl'.pc \in {"commit", "undo"}
    BY <1>4, <1>t DEF Respond, CtlRecords
  <2>2. SerialsStay /\ MarksStay /\ UNCHANGED pins
    BY <1>4, RemarkedSerials DEF Respond, MarksStay
  <2>q. QED
    BY <1>4, <1>m, <2>1, <2>2 DEF Respond, OwnerOK, Requesting
<1>5. ASSUME CommitCheck PROVE OwnerOK'
  <2>1. ctl'.me = ctl.me /\ ctl'.prev = ctl.prev
        /\ ctl'.pc = IF StillReserved THEN "dropprev" ELSE "lost"
    BY <1>5, <1>t DEF CommitCheck, CtlRecords
  <2>2. SerialsStay /\ MarksStay /\ UNCHANGED pins
    BY <1>5, RemarkedSerials DEF CommitCheck, MarksStay
  <2>3. SUFFICES ASSUME NEW k \in pins PROVE Held(k)' \/ InHand(k)'
    BY <2>2 DEF OwnerOK
  <2>4. CASE Held(k)
    BY <2>2, <2>4, HeldStays
  <2>5. CASE InHand(k)
    BY <1>5, <2>1, <2>5 DEF InHand, CommitCheck
  <2>q. QED
    BY <2>4, <2>5 DEF OwnerOK
<1>6. ASSUME CommitLost PROVE OwnerOK'
  <2>1. UNCHANGED <<lose, clear, attempts>> /\ pins' \subseteq pins
    BY <1>6 DEF CommitLost, WithoutSerials
  <2>2. history'.forgotten = IF ctl.prev.peer \in {0, ctl.me.peer} THEN history.forgotten
                             ELSE history.forgotten \cup {ctl.prev.serial}
    BY <1>6, <1>t DEF CommitLost, Histories
  <2>3. SUFFICES ASSUME NEW k \in pins PROVE Held(k)'
    BY <2>1 DEF OwnerOK
  <2>4. CASE Held(k)
    BY <2>1, <2>2, <2>4 DEF Held, Current, Live
  <2>5. CASE InHand(k)
    <3>1. k.serial = ctl.prev.serial /\ ctl.prev.peer # ctl.me.peer /\ k.serial # 0
      BY <1>6, <2>5 DEF InHand, CommitLost, HoldInv, PinsOK, Requesting
    <3>2. ctl.prev.peer # 0
      BY <3>1, Defaults DEF TypeInv, CtlOK
    <3>q. QED
      BY <2>2, <3>1, <3>2 DEF Held
  <2>q. QED
    BY <2>4, <2>5 DEF OwnerOK
<1>7. ASSUME DropPrevPin PROVE OwnerOK'
  <2>1. SerialsStay /\ MarksStay
    BY <1>7, RemarkedSerials DEF DropPrevPin, MarksStay
  <2>2. SUFFICES ASSUME NEW k \in pins' PROVE Held(k)'
    BY DEF OwnerOK
  <2>3. Held(k)
    BY <1>7 DEF DropPrevPin, WithoutSerials, OwnerOK, InHand, Requesting
  <2>q. QED
    BY <2>1, <2>3, HeldStays
<1>8. ASSUME DropOldSlots PROVE OwnerOK'
  BY <1>8, OwnersByTable, RemarkedSerials DEF DropOldSlots, MarksStay
<1>9. ASSUME UndoPins PROVE OwnerOK'
  <2>1. SerialsStay /\ MarksStay
    BY <1>9, RemarkedSerials DEF UndoPins, MarksStay
  <2>2. SUFFICES ASSUME NEW k \in pins' PROVE Held(k)'
    BY DEF OwnerOK
  <2>3. Held(k)
    BY <1>9 DEF UndoPins, WithoutSerials, OwnerOK, InHand, Requesting
  <2>q. QED
    BY <2>1, <2>3, HeldStays
<1>q. QED
  BY <1>1, <1>2, <1>3, <1>4, <1>5, <1>6, <1>7, <1>8, <1>9, ReserveOwner, UndoOwner
     DEF RequestStep, CommitStep, RollbackStep

\* Deliveries, expiries, the status and the payloads.
LEMMA UpkeepOwner ==
    /\ TypeInv /\ TypeInv' /\ TableInv /\ HoldInv /\ OwnerOK
    /\ DeliverStep \/ ExpireStep \/ StatusStep \/ PayloadStep
    => OwnerOK'
<1> SUFFICES ASSUME TypeInv, TypeInv', TableInv, HoldInv, OwnerOK,
                    DeliverStep \/ ExpireStep \/ StatusStep \/ PayloadStep
             PROVE  OwnerOK'
  OBVIOUS
<1>t. history \in Histories /\ HistoryOK /\ attempts \in [Places -> AttemptRecords]
  BY DEF TypeInv, HistoryOK, AttemptsOK
\* Not the control thread.
<1>n. ASSUME UNCHANGED <<ctl, pins>>, MarksStay, SerialsStay PROVE OwnerOK'
  BY <1>n, OwnersStay
<1>1. ASSUME Deliver PROVE OwnerOK'
  BY <1>1, OwnersByTable, RemarkedSerials DEF Deliver, MarksStay
<1>2. ASSUME NEW i \in Places, Redeliver(i) PROVE OwnerOK'
  BY <1>2, OwnersByTable, RemarkedSerials DEF Redeliver, CtlFree, MarksStay
<1>3. ASSUME CopyPinned PROVE OwnerOK'
  <2>1. history'.forgotten = history.forgotten
    BY <1>3, <1>t DEF CopyPinned, Histories
  <2>q. QED
    BY <1>3, <2>1, OwnersByTable, RemarkedSerials DEF CopyPinned, MarksStay
<1>4. ASSUME ExpireAttempts PROVE OwnerOK'
  <2>1. PICK late \in SUBSET AttemptRecords :
          late = {attempts[i] : i \in {j \in Live : attempts[j].expired}}
    BY <1>t DEF Live
  <2>2. /\ ctl'.pc = "xpins" /\ ctl'.late = late /\ history' = Over(late)
        /\ attempts' = [i \in Places |-> IF attempts[i] \in late THEN NoAttempt
                                         ELSE attempts[i]]
        /\ UNCHANGED <<pins, lose, clear>>
    BY <1>4, <2>1 DEF ExpireAttempts, CtlIdle
  <2>3. history'.forgotten = history.forgotten
    BY <1>t, <2>2, OverFacts
  <2>4. SUFFICES ASSUME NEW k \in pins PROVE Held(k)' \/ InHand(k)'
    BY <2>2 DEF OwnerOK
  <2>5. Held(k)
    BY <1>4 DEF OwnerOK, InHand, Requesting, ExpireAttempts, CtlFree
  <2>6. ASSUME NEW j \in Current(k.serial) PROVE Held(k)' \/ InHand(k)'
    <3>1. CASE attempts[j] \in late
      BY <2>2, <2>6, <3>1 DEF InHand, Current
    <3>2. CASE attempts[j] \notin late
      <4>1. j \in Places /\ attempts'[j] = attempts[j]
        BY <2>2, <2>6, <3>2 DEF Current, Live
      <4>2. j \in Current(k.serial)'
        BY <2>6, <4>1 DEF Current, Live
      <4>q. QED
        BY <4>2 DEF Held
    <3>q. QED
      BY <3>1, <3>2
  <2>q. QED
    BY <2>2, <2>3, <2>5, <2>6 DEF Held
<1>5. ASSUME ExpirePins PROVE OwnerOK'
  <2>1. SerialsStay /\ MarksStay
    BY <1>5, RemarkedSerials DEF ExpirePins, MarksStay
  <2>2. SUFFICES ASSUME NEW k \in pins' PROVE Held(k)'
    BY DEF OwnerOK
  <2>3. Held(k)
    BY <1>5 DEF ExpirePins, WithoutSerials, OwnerOK, InHand, Requesting
  <2>q. QED
    BY <2>1, <2>3, HeldStays
<1>6. ASSUME ExpireSlots PROVE OwnerOK'
  BY <1>6, OwnersByTable, RemarkedSerials DEF ExpireSlots, MarksStay
<1>7. ASSUME NEW p \in Peers, StatusArrives(p) PROVE OwnerOK'
  BY <1>7, OwnersByTable, RemarkedSerials DEF StatusArrives, CtlFree, MarksStay
<1>8. ASSUME NEW p \in Peers, Consume(p) PROVE OwnerOK'
  BY <1>8, <1>n, RemarkedSerials DEF Consume, MarksStay
<1>9. ASSUME StoreStatus PROVE OwnerOK'
  BY <1>9, OwnersByTable, RemarkedSerials DEF StoreStatus, MarksStay
<1>10. ASSUME TakeSlot PROVE OwnerOK'
  <2>1. history'.forgotten = history.forgotten
    BY <1>10, <1>t DEF TakeSlot, Histories
  <2>q. QED
    BY <1>10, <1>n, <2>1, RemarkedSerials DEF TakeSlot, MarksStay
<1>11. ASSUME MarkStatus PROVE OwnerOK'
  BY <1>11, <1>n, MarkRemarks, RemarkedSerials DEF MarkStatus, MarksStay
<1>12. ASSUME NEW t \in Senders, NEW event \in Events, Capture(t, event) PROVE OwnerOK'
  BY <1>12, <1>n, RemarkedSerials DEF Capture, MarksStay
<1>13. ASSUME NEW t \in Senders,
              StorePayload(t) \/ Spread(t) \/ Look(t) \/ CopyCache(t) \/ Refresh(t) \/ Sent(t)
       PROVE  OwnerOK'
  <2>1. UNCHANGED <<attempts, pins, ctl, lose, clear, history>>
    BY <1>13 DEF StorePayload, Spread, Look, CopyCache, Refresh, Sent
  <2>q. QED
    BY <2>1, <1>n, RemarkedSerials DEF MarksStay
<1>14. ASSUME NEW t \in Senders, Send(t) PROVE OwnerOK'
  <2>1. history'.forgotten = history.forgotten
    BY <1>14, <1>t DEF Send, Histories
  <2>2. UNCHANGED <<ctl, pins, lose, clear>>
    BY <1>14 DEF Send
  <2>q. QED
    BY <1>14, <1>n, <2>1, <2>2, SendRemarks, RemarkedSerials DEF MarksStay
<1>q. QED
  BY <1>1, <1>2, <1>3, <1>4, <1>5, <1>6, <1>7, <1>8, <1>9, <1>10, <1>11, <1>12, <1>13, <1>14
     DEF DeliverStep, ExpireStep, StatusStep, PayloadStep

\* The loss of a peer marks the pins it will reset before it resets them: those
\* of the peer's attempt in the table, and of the one a request would put back.
LEMMA LosingOwner ==
    ASSUME TypeInv, TypeInv', TableInv, HoldInv, OwnerOK, NEW p, lose.pc = "idle", Losing(p)
    PROVE  OwnerOK'
<1>t. history \in Histories /\ attempts \in [Places -> AttemptRecords] /\ ctl.place \in Places
  BY DEF TypeInv, HistoryOK, AttemptsOK, CtlOK, CtlRecords
<1>1. /\ \A i \in Places : attempts'[i] = IF i \in Mine(p) THEN NoAttempt ELSE attempts[i]
      /\ UNCHANGED <<ctl, pins, clear>> /\ lose'.pc = "slots" /\ lose'.peer = p
      /\ history'.forgotten = history.forgotten
  BY <1>t DEF Losing, Histories
<1>2. SUFFICES ASSUME NEW k \in pins, k.peer # p PROVE Held(k)' \/ InHand(k)'
  BY <1>1 DEF OwnerOK, Held
<1>3. ASSUME NEW j \in Current(k.serial) PROVE Held(k)'
  <2>1. j \in Live /\ attempts[j].serial = k.serial
    BY <1>3 DEF Current
  <2>2. attempts[j].peer = k.peer
    BY <2>1 DEF HoldInv, PinsOK, Tuple
  <2>3. attempts'[j] = attempts[j]
    BY <1>1, <1>2, <2>1, <2>2 DEF Mine, Live
  <2>4. j \in Current(k.serial)'
    BY <2>1, <2>3 DEF Current, Live
  <2>q. QED
    BY <2>4 DEF Held
<1>4. CASE Held(k)
  BY <1>1, <1>3, <1>4 DEF Held
<1>5. CASE InHand(k)
  <2>1. Undone' = Undone
    BY <1>1 DEF Undone
  <2>2. CASE Requesting /\ k.serial = ctl.prev.serial
    <3>1. ctl.prev.peer = k.peer
      BY <2>2 DEF HoldInv, PinsOK, Tuple
    <3>2. ASSUME StillReserved, ctl.prev.peer = ctl.me.peer PROVE StillReserved'
      <4>1. ctl.me.serial # 0 /\ ctl.place \in Live
        BY <1>t, <2>2, <3>2, RequestingCarries DEF TableInv, CarriedOK, StillReserved, Live
      <4>2. attempts[ctl.place].peer = ctl.me.peer
        BY <3>2, <4>1 DEF StillReserved, TableInv, CarriedOK, Tuple
      <4>3. attempts'[ctl.place] = attempts[ctl.place]
        BY <1>1, <1>2, <1>t, <3>1, <3>2, <4>2 DEF Mine
      <4>q. QED
        BY <1>1, <3>2, <4>3 DEF StillReserved
    <3>q. QED
      BY <1>1, <1>5, <2>2, <3>2 DEF InHand, Requesting
  <2>3. CASE ~(Requesting /\ k.serial = ctl.prev.serial)
    BY <1>1, <1>5, <2>1, <2>3 DEF InHand
  <2>q. QED
    BY <2>2, <2>3
<1>q. QED
  BY <1>4, <1>5 DEF OwnerOK

\* Clears, peer losses, time and members.
LEMMA OtherOwner ==
    /\ TypeInv /\ TypeInv' /\ TableInv /\ HoldInv /\ OwnerOK
    /\ ClearStep \/ LoseStep \/ WorldStep
    => OwnerOK'
<1> SUFFICES ASSUME TypeInv, TypeInv', TableInv, HoldInv, OwnerOK,
                    ClearStep \/ LoseStep \/ WorldStep
             PROVE  OwnerOK'
  OBVIOUS
<1>n. ASSUME UNCHANGED <<attempts, ctl, pins, lose, clear, history>> PROVE OwnerOK'
  BY <1>n, OwnersStay, RemarkedSerials DEF MarksStay
<1>c. clear \in [Threads -> ClearSteps]
  BY DEF TypeInv, ThreadsOK
\* A thread is on its way through the tables.
<1>d. ASSUME NEW t \in Threads, clear'[t] # "none" PROVE OwnerOK'
  BY <1>d DEF OwnerOK, Held
<1>1. ASSUME CommitAuthority \/ RetireAuthority \/ ResetPeers PROVE OwnerOK'
  <2>1. PICK t \in Threads : clear' = [clear EXCEPT ![t] = "attempts"]
    BY <1>1 DEF CommitAuthority, RetireAuthority, ResetPeers, Threads
  <2>2. clear'[t] = "attempts"
    BY <1>c, <2>1
  <2>q. QED
    BY <1>d, <2>2
<1>2. ASSUME NEW t \in Threads, ClearAttempts(t) \/ ClearSlots(t) \/ ClearCache(t)
      PROVE  OwnerOK'
  <2>1. PICK to \in {"slots", "cache", "pins"} : clear' = [clear EXCEPT ![t] = to]
    BY <1>2 DEF ClearAttempts, ClearSlots, ClearCache
  <2>2. clear'[t] # "none"
    BY <1>c, <2>1
  <2>q. QED
    BY <1>d, <2>2
<1>3. ASSUME NEW t \in Threads, ClearPins(t) PROVE OwnerOK'
  BY <1>3 DEF ClearPins, OwnerOK
<1>4. ASSUME LosePeerSlots PROVE OwnerOK'
  <2>1. UNCHANGED <<attempts, ctl, pins, clear, history>> /\ lose'.pc = "pins"
        /\ lose'.peer = lose.peer
    BY <1>4 DEF LosePeerSlots, TypeInv, ThreadsOK, LoseRecords
  <2>2. SUFFICES ASSUME NEW k \in pins PROVE Held(k)' \/ InHand(k)'
    BY <2>1 DEF OwnerOK
  <2>3. CASE Held(k)
    BY <2>1, <2>3 DEF Held, Current, Live
  <2>4. CASE InHand(k)
    BY <2>1, <2>4 DEF InHand, Requesting, StillReserved, Undone
  <2>q. QED
    BY <2>3, <2>4 DEF OwnerOK
<1>5. ASSUME LosePeerPins PROVE OwnerOK'
  <2>1. UNCHANGED <<attempts, ctl, clear, history>>
        /\ pins' = {k \in pins : k.peer # lose.peer}
    BY <1>5 DEF LosePeerPins
  <2>2. SUFFICES ASSUME NEW k \in pins, k.peer # lose.peer PROVE Held(k)' \/ InHand(k)'
    BY <2>1 DEF OwnerOK
  <2>3. CASE Held(k)
    BY <2>1, <2>2, <2>3 DEF Held, Current, Live
  <2>4. CASE InHand(k)
    BY <2>1, <2>4 DEF InHand, Requesting, StillReserved, Undone
  <2>q. QED
    BY <2>2, <2>3, <2>4 DEF OwnerOK
<1>6. ASSUME NEW s \in 1..MaxSerial, Elapse(s) PROVE OwnerOK'
  <2>1. UNCHANGED <<pins, lose, clear, history>>
    BY <1>6 DEF Elapse
  <2>q. QED
    BY <1>6, <2>1, ElapseRemarks, RemarkedSerials, OwnersStay DEF MarksStay
<1>7. ASSUME NEW p \in Peers, FreshNonce(p) \/ Publish(p) PROVE OwnerOK'
  <2>1. UNCHANGED <<attempts, ctl, pins, lose, clear, history>>
    BY <1>7 DEF FreshNonce, Publish
  <2>q. QED
    BY <1>n, <2>1
<1>8. ASSUME WorldChanges PROVE OwnerOK'
  BY <1>8, <1>n DEF WorldChanges
<1>9. ASSUME NEW p \in Peers, LosePeer(p) PROVE OwnerOK'
  BY <1>9, LosingOwner DEF LosePeer, NrscFree, LoseIdle
<1>10. ASSUME LoseNext PROVE OwnerOK'
  BY <1>10, LosingOwner DEF LoseNext
<1>11. ClearStep => OwnerOK'
  BY <1>1, <1>2, <1>3 DEF ClearStep
<1>12. LoseStep => OwnerOK'
  BY <1>4, <1>5, <1>9, <1>10 DEF LoseStep
<1>13. WorldStep => OwnerOK'
  BY <1>6, <1>7, <1>8 DEF WorldStep
<1>q. QED
  BY <1>11, <1>12, <1>13

LEMMA OwnerNext ==
    TypeInv /\ TypeInv' /\ TableInv /\ HoldInv /\ OwnerOK /\ [Next]_vars => OwnerOK'
<1> SUFFICES ASSUME TypeInv, TypeInv', TableInv, HoldInv, OwnerOK, [Next]_vars PROVE OwnerOK'
  OBVIOUS
<1>1. CASE UNCHANGED vars
  BY <1>1, OwnersStay, RemarkedSerials DEF vars, MarksStay
<1>q. QED
  BY <1>1, RequestOwner, UpkeepOwner, OtherOwner DEF Next

\* A pinned snapshot is always somebody's: of an attempt in the table, of one a
\* request, a rollback or an expiry has in hand, or about to go with its peer or
\* with the whole state; only a commit that lost its place to another peer may
\* leave one behind.
THEOREM HostPinHasOwner == Spec => []PinHasOwner
<1>1. Init => OwnerOK
  BY DEF Init, OwnerOK
<1>2. Spec => []OwnerOK
  BY <1>1, TypeInit, TypeNext, TableInit, TableNext, HoldInit, HoldNext, OwnerNext, PTL DEF Spec
<1>3. OwnerOK => PinHasOwner
  BY DEF OwnerOK, Held, InHand, Undone, PinHasOwner
<1>q. QED
  BY <1>2, <1>3, PTL

-----------------------------------------------------------------------------
(* One authorization attempt is delivered one revision. *)

\* The reservation that a snapshot was delivered for has not been lost.
NotLost(d) == d.serial > history.lost[d.peer]

\* The tuple of a delivery will not be asked for again, and is not being asked
\* for now.
Passed(d) == /\ d.nonce < client[d.peer].nonce \/ d.gen < authority.last
             /\ ~(ctl.pc = "reserve" /\ Tuple(ctl.me) = Tuple(d))

DeliveredOK == \A d \in history.delivered :
    d.serial # 0 /\ d.serial <= counter /\ d.peer \in Peers /\ d.rev # 0 /\ Timely(d)

\* A delivered tuple that has not been lost is either over, or some attempt of
\* the table still has it with the delivered revision; a request that replaces
\* that attempt carries the revision on, and a rollback would put it back.
StandingOK == \A d \in history.delivered : NotLost(d) =>
    /\ \A i \in Live : Tuple(attempts[i]) = Tuple(d) =>
         attempts[i].rev = d.rev /\ d.serial <= attempts[i].serial
    /\ Requesting /\ Tuple(ctl.prev) = Tuple(d) =>
         ctl.prev.rev = d.rev /\ d.serial <= ctl.prev.serial
    /\ Requesting /\ Tuple(ctl.me) = Tuple(d) => Tuple(ctl.prev) = Tuple(d)
    /\ (\E i \in Live : Tuple(attempts[i]) = Tuple(d)) \/ Passed(d)
    /\ ctl.pc = "reserve" /\ d.peer = ctl.me.peer =>
         d.nonce <= ctl.me.nonce /\ d.gen <= ctl.me.gen

\* What is about to be delivered is the revision of its attempt.
ReadyOK == ctl.pc = "copy" /\ ctl.me.serial > history.lost[ctl.me.peer] =>
    \E i \in Live : attempts[i].serial = ctl.me.serial /\ attempts[i].rev = ctl.rev

RevisionInv == DeliveredOK /\ StandingOK /\ ReadyOK /\ OneRevisionPerAttempt

\* Losses grow, and an attempt that leaves the table is lost.
Losses == /\ \A p \in Peers : history'.lost[p] >= history.lost[p]
          /\ \A i \in Live : i \in Live' \/ history'.lost[attempts[i].peer] >= attempts[i].serial

\* The control thread asks for nothing new, and carries what it carried.
CtlStands ==
    /\ ctl'.pc = "reserve" => ctl.pc = "reserve" /\ ctl'.me = ctl.me
    /\ Requesting' => /\ Requesting /\ Tuple(ctl'.me) = Tuple(ctl.me)
                      /\ Tuple(ctl'.prev) = Tuple(ctl.prev) /\ ctl'.prev.rev = ctl.prev.rev
                      /\ ctl'.prev.serial = ctl.prev.serial

\* Deliveries are made of naturals.
LEMMA DeliveredNumbers ==
    ASSUME TypeInv, NEW d \in history.delivered
    PROVE  d.serial \in Nat /\ d.nonce \in Nat /\ d.gen \in Nat
BY DEF TypeInv, HistoryOK, Histories, PinRecords, Serials, Nonces, Gens

\* Losses that grow leave no delivery behind that was lost.
LEMMA NotLostBefore ==
    ASSUME TypeInv, TypeInv', NEW d \in history.delivered, d.peer \in Peers,
           history'.lost[d.peer] >= history.lost[d.peer], NotLost(d)'
    PROVE  NotLost(d)
<1>1. history'.lost[d.peer] \in Nat /\ history.lost[d.peer] \in Nat /\ d.serial \in Nat
  BY DeliveredNumbers DEF TypeInv, HistoryOK, Histories, Serials
<1>q. QED
  BY <1>1 DEF NotLost

\* The clocks only go on: what has passed has passed.
LEMMA PassedStays ==
    ASSUME TypeInv, TypeInv', HoldInv, ClocksOnward, NEW d \in history.delivered,
           d.peer \in Peers, Passed(d),
           ctl'.pc = "reserve" => ctl.pc = "reserve" /\ ctl'.me = ctl.me
    PROVE  Passed(d)'
<1>1. /\ client[d.peer].nonce \in Nat /\ client'[d.peer].nonce \in Nat
      /\ authority.last \in Nat /\ authority'.last \in Nat
      /\ d.nonce \in Nat /\ d.gen \in Nat
  BY DeliveredNumbers DEF TypeInv, SharedOK, ClientRecords, AuthorityRecords, Nonces, Gens
<1>2. client'[d.peer].nonce >= client[d.peer].nonce /\ authority'.last >= authority.last
  BY <1>1 DEF ClocksOnward, ClientOnward
<1>q. QED
  BY <1>1, <1>2 DEF Passed

LEMMA RevisionKept ==
    ASSUME TypeInv, TypeInv', TableInv, HoldInv, RevisionInv, ClocksOnward,
           history'.delivered = history.delivered, counter' >= counter, Losses,
           TableHolds, CtlStands, ReadyOK'
    PROVE  RevisionInv'
<1>1. DeliveredOK'
  <2>1. SUFFICES ASSUME NEW d \in history.delivered
                 PROVE  /\ d.serial # 0 /\ d.serial <= counter' /\ d.peer \in Peers
                        /\ d.rev # 0 /\ TimelyNext(d)
    BY DEF DeliveredOK, Timely, TimelyNext
  <2>2. /\ d.serial # 0 /\ d.serial <= counter /\ d.peer \in Peers /\ d.rev # 0 /\ Timely(d)
    BY DEF RevisionInv, DeliveredOK
  <2>3. d.serial \in Nat /\ counter \in Nat /\ counter' \in Nat
    BY DeliveredNumbers DEF TypeInv, HistoryOK, Serials
  <2>q. QED
    BY <2>2, <2>3, DeliveredNumbers, TimelyStays
<1>2. StandingOK'
  <2>1. SUFFICES ASSUME NEW d \in history.delivered, NotLost(d)'
                 PROVE  /\ \A i \in Live' : Tuple(attempts'[i]) = Tuple(d) =>
                             attempts'[i].rev = d.rev /\ d.serial <= attempts'[i].serial
                        /\ Requesting' /\ Tuple(ctl'.prev) = Tuple(d) =>
                             ctl'.prev.rev = d.rev /\ d.serial <= ctl'.prev.serial
                        /\ Requesting' /\ Tuple(ctl'.me) = Tuple(d) =>
                             Tuple(ctl'.prev) = Tuple(d)
                        /\ (\E i \in Live' : Tuple(attempts'[i]) = Tuple(d)) \/ Passed(d)'
                        /\ ctl'.pc = "reserve" /\ d.peer = ctl'.me.peer =>
                             d.nonce <= ctl'.me.nonce /\ d.gen <= ctl'.me.gen
    BY DEF StandingOK
  <2>2. d.peer \in Peers
    BY DEF RevisionInv, DeliveredOK
  <2>3. NotLost(d)
    BY <2>1, <2>2, NotLostBefore DEF Losses
  <2>4. \A i \in Live' : Tuple(attempts'[i]) = Tuple(d) =>
          attempts'[i].rev = d.rev /\ d.serial <= attempts'[i].serial
    BY <2>3 DEF TableHolds, RevisionInv, StandingOK
  <2>5. /\ Requesting' /\ Tuple(ctl'.prev) = Tuple(d) =>
             ctl'.prev.rev = d.rev /\ d.serial <= ctl'.prev.serial
        /\ Requesting' /\ Tuple(ctl'.me) = Tuple(d) => Tuple(ctl'.prev) = Tuple(d)
        /\ ctl'.pc = "reserve" /\ d.peer = ctl'.me.peer =>
             d.nonce <= ctl'.me.nonce /\ d.gen <= ctl'.me.gen
    BY <2>3 DEF CtlStands, RevisionInv, StandingOK
  <2>6. CASE Passed(d)
    BY <2>2, <2>4, <2>5, <2>6, PassedStays DEF CtlStands
  <2>7. ASSUME NEW i \in Live, Tuple(attempts[i]) = Tuple(d)
        PROVE  \E j \in Live' : Tuple(attempts'[j]) = Tuple(d)
    <3>1. d.serial <= attempts[i].serial /\ attempts[i].peer = d.peer
      BY <2>3, <2>7 DEF RevisionInv, StandingOK, Tuple
    <3>2. attempts[i].serial \in Nat /\ d.serial \in Nat /\ history'.lost[d.peer] \in Nat
      BY <2>2, Numbers, DeliveredNumbers DEF TypeInv, HistoryOK, Histories, Serials
    <3>3. i \in Live'
      BY <2>1, <3>1, <3>2 DEF Losses, NotLost
    <3>q. QED
      BY <2>7, <3>3 DEF TableHolds
  <2>q. QED
    BY <2>3, <2>4, <2>5, <2>6, <2>7 DEF RevisionInv, StandingOK
<1>3. OneRevisionPerAttempt'
  <2>1. SUFFICES ASSUME NEW d \in history.delivered, NEW e \in history.delivered,
                        Tuple(d) = Tuple(e), NotLost(d)', NotLost(e)'
                 PROVE  d.rev = e.rev
    BY DEF OneRevisionPerAttempt, NotLost
  <2>2. d.peer \in Peers /\ e.peer \in Peers
    BY DEF RevisionInv, DeliveredOK
  <2>3. NotLost(d) /\ NotLost(e)
    BY <2>1, <2>2, NotLostBefore DEF Losses
  <2>q. QED
    BY <2>1, <2>3 DEF RevisionInv, OneRevisionPerAttempt, NotLost
<1>q. QED
  BY <1>1, <1>2, <1>3 DEF RevisionInv

\* Nothing is lost where neither the table nor the losses change.
LEMMA NoLoss ==
    ASSUME TypeInv, Live' = Live, history'.lost = history.lost
    PROVE  Losses
BY Numbers DEF Losses

LEMMA NotCopying == ctl'.pc # "copy" => ReadyOK'
BY DEF ReadyOK

LEMMA CtlIdleStands == ctl' = CtlIdle => CtlStands /\ ReadyOK'
BY DEF CtlIdle, CtlStands, ReadyOK, Requesting

LEMMA SameCtlStands ==
    ASSUME ctl'.pc = ctl.pc, ctl'.me = ctl.me, Tuple(ctl'.prev) = Tuple(ctl.prev),
           ctl'.prev.rev = ctl.prev.rev, ctl'.prev.serial = ctl.prev.serial
    PROVE  CtlStands
BY DEF CtlStands, Requesting

\* Another thread's step leaves the attempt that is about to be delivered.
LEMMA ReadyStays ==
    ASSUME RevisionInv, ctl'.pc = ctl.pc, ctl'.me = ctl.me, ctl'.rev = ctl.rev, Remarked,
           history'.lost = history.lost
    PROVE  ReadyOK'
BY DEF RevisionInv, ReadyOK, Remarked, Live

\* A member asks under its newest nonce and the current generation: what it asks
\* for is in the table, or nothing was delivered for it.
LEMMA AskRevision ==
    ASSUME TypeInv, TypeInv', TableInv, HoldInv, RevisionInv, NEW p \in Peers, Ask(p)
    PROVE  RevisionInv'
<1>1. PICK a : a = [NoAttempt EXCEPT !.peer = p, !.nonce = client[p].nonce,
                                     !.gen = authority.gen]
  OBVIOUS
<1>2. a.peer = p /\ a.nonce = client[p].nonce /\ a.gen = authority.gen
      /\ Tuple(a) = [peer |-> p, nonce |-> client[p].nonce, gen |-> authority.gen]
  BY <1>1 DEF NoAttempt, Tuple
<1>3. ctl'.pc = "reserve" /\ ctl'.me = a
  BY <1>1 DEF Ask, CtlIdle
<1>4. UNCHANGED <<attempts, authority, client, counter, history>> /\ authority.gen = authority.last
  BY DEF Ask, HoldInv, ClocksOK
<1>5. DeliveredOK' /\ OneRevisionPerAttempt'
  BY <1>4 DEF RevisionInv, DeliveredOK, OneRevisionPerAttempt, Timely
<1>6. ReadyOK' /\ ~Requesting'
  BY <1>3 DEF ReadyOK, Requesting
<1>7. StandingOK'
  <2>1. SUFFICES ASSUME NEW d \in history.delivered, NotLost(d)
                 PROVE  /\ \A i \in Live : Tuple(attempts[i]) = Tuple(d) =>
                             attempts[i].rev = d.rev /\ d.serial <= attempts[i].serial
                        /\ (\E i \in Live : Tuple(attempts[i]) = Tuple(d)) \/ Passed(d)'
                        /\ d.peer = p => d.nonce <= a.nonce /\ d.gen <= a.gen
    BY <1>2, <1>3, <1>4, <1>6 DEF StandingOK, NotLost, Live
  <2>2. \A i \in Live : Tuple(attempts[i]) = Tuple(d) =>
          attempts[i].rev = d.rev /\ d.serial <= attempts[i].serial
    BY <2>1 DEF RevisionInv, StandingOK
  <2>3. d.nonce <= client[d.peer].nonce /\ d.gen <= authority.last
    BY DEF RevisionInv, DeliveredOK, Timely
  <2>4. d.peer = p => d.nonce <= a.nonce /\ d.gen <= a.gen
    BY <1>2, <1>4, <2>3
  <2>5. ASSUME Passed(d) PROVE Passed(d)'
    <3>1. Tuple(a) # Tuple(d)
      <4>1. SUFFICES ASSUME Tuple(a) = Tuple(d) PROVE FALSE
        OBVIOUS
      <4>2. d.peer = p /\ d.nonce = client[p].nonce /\ d.gen = authority.last
        BY <1>2, <1>4, <4>1 DEF Tuple
      <4>q. QED
        BY <2>5, <4>2, DeliveredNumbers DEF Passed
    <3>q. QED
      BY <1>3, <1>4, <2>5, <3>1 DEF Passed
  <2>q. QED
    BY <2>1, <2>2, <2>4, <2>5 DEF RevisionInv, StandingOK
<1>q. QED
  BY <1>5, <1>6, <1>7 DEF RevisionInv

\* A retry inherits the revision of its attempt; an attempt that is replaced by
\* one of another tuple has passed, or is lost with its expiry.
LEMMA ReserveRevision ==
    ASSUME TypeInv, TypeInv', TableInv, HoldInv, RevisionInv, Reserve
    PROVE  RevisionInv'
<1>t. /\ attempts \in [Places -> AttemptRecords] /\ counter \in Nat
      /\ ctl.me.peer \in Peers /\ ctl.me \in AttemptRecords /\ AttemptsOK /\ HistoryOK
      /\ UNCHANGED <<authority, client>> /\ ctl.pc = "reserve"
  BY Numbers DEF TypeInv, AttemptsOK, CtlOK, Reserve
<1>o. ClocksOnward
  BY <1>t, SameClocks
<1>1. CASE Mine(ctl.me.peer) \cup Usable = {}
  <2>1. ctl' = CtlIdle /\ UNCHANGED <<attempts, counter, history>>
    BY <1>1 DEF Reserve
  <2>2. Losses /\ counter' >= counter
    BY <1>t, <2>1, NoLoss DEF Live
  <2>q. QED
    BY <1>o, <2>1, <2>2, RevisionKept, SameTableHolds, CtlIdleStands
<1>2. CASE Mine(ctl.me.peer) \cup Usable # {}
  <2>1. PICK p \in Peers, i \in Places, new \in AttemptRecords :
          /\ p = ctl.me.peer /\ i = PlaceFor(p)
          /\ new = [ctl.me EXCEPT !.serial = counter + 1]
    <3>1. PlaceFor(ctl.me.peer) \in Places
      BY <1>t, <1>2, PlaceFacts
    <3>2. counter + 1 \in Serials
      BY <1>t, BoundsAssumption DEF Reserve, TypeInv, CtlOK, Serials
    <3>3. [ctl.me EXCEPT !.serial = counter + 1] \in AttemptRecords
      BY <1>t, <3>2 DEF AttemptRecords
    <3>q. QED
      BY <1>t, <3>1, <3>3
  <2>2. Mine(p) # {} => i \in Mine(p)
    BY <1>t, <1>2, <2>1, PlaceFacts
  <2>3. PICK next : next = Inherit(attempts[i], new)
    OBVIOUS
  <2>4. attempts[i] \in AttemptRecords
    BY <1>t
  <2>5. PICK ended \in SUBSET AttemptRecords :
          ended = {attempts[i]} \ {attempts[j] : j \in Mine(p)}
    BY <2>4
  <2>6. /\ attempts' = [attempts EXCEPT ![i] = next] /\ counter' = counter + 1
        /\ ctl'.me = next /\ ctl'.prev = attempts[i] /\ ctl'.pc = "pin"
        /\ history' = Over(ended)
    BY <1>2, <2>1, <2>3, <2>5 DEF Reserve, CtlIdle
  <2>7. \A j \in Places : attempts'[j] = IF j = i THEN next ELSE attempts[j]
    BY <1>t, <2>6
  <2>8. /\ history'.delivered = history.delivered
        /\ \A q \in Peers : history'.lost[q] >= history.lost[q]
        /\ \A b \in ended : b.peer \in Peers => history'.lost[b.peer] >= b.serial
    BY <1>t, <2>6, OverFacts
  <2>9. /\ Tuple(next) = Tuple(ctl.me) /\ next.serial = counter + 1 /\ next.peer = p
        /\ Tuple(new) = Tuple(ctl.me)
        /\ SameTuple(attempts[i], new) => next.rev = attempts[i].rev
    BY <2>1, <2>3, <2>4, InheritFacts DEF AttemptRecords, Tuple
  <2>10. ASSUME NEW d \in history.delivered, NotLost(d), Tuple(ctl.me) = Tuple(d)
         PROVE  i \in Live /\ Tuple(attempts[i]) = Tuple(d) /\ next.rev = d.rev
                /\ d.serial <= counter + 1
    <3>1. PICK j \in Live : Tuple(attempts[j]) = Tuple(d)
      BY <1>t, <2>10 DEF RevisionInv, StandingOK, Passed
    <3>2. j \in Mine(p)
      BY <2>1, <2>10, <3>1 DEF Mine, Tuple
    <3>3. i = j
      BY <2>2, <3>2 DEF Mine, TableInv, TableOK, OneAttemptPerPeer
    <3>4. SameTuple(attempts[i], new)
      BY <2>9, <2>10, <3>1, <3>3 DEF SameTuple, Live
    <3>5. attempts[i].rev = d.rev
      BY <2>10, <3>1, <3>3 DEF RevisionInv, StandingOK
    <3>6. d.serial <= counter + 1
      BY <1>t, DeliveredNumbers DEF RevisionInv, DeliveredOK
    <3>q. QED
      BY <2>9, <3>1, <3>3, <3>4, <3>5, <3>6
  <2>11. Requesting' /\ ctl'.pc # "reserve" /\ ReadyOK'
    BY <2>6 DEF Requesting, ReadyOK
  <2>12. StandingOK'
    <3>1. SUFFICES ASSUME NEW d \in history.delivered, NotLost(d)'
                   PROVE  /\ \A j \in Live' : Tuple(attempts'[j]) = Tuple(d) =>
                               attempts'[j].rev = d.rev /\ d.serial <= attempts'[j].serial
                          /\ Tuple(attempts[i]) = Tuple(d) =>
                               attempts[i].rev = d.rev /\ d.serial <= attempts[i].serial
                          /\ Tuple(next) = Tuple(d) => Tuple(attempts[i]) = Tuple(d)
                          /\ (\E j \in Live' : Tuple(attempts'[j]) = Tuple(d)) \/ Passed(d)'
      BY <2>6, <2>8, <2>11 DEF StandingOK
    <3>2. d.peer \in Peers /\ d.serial \in Nat
      BY DeliveredNumbers DEF RevisionInv, DeliveredOK
    <3>3. NotLost(d)
      BY <2>8, <3>1, <3>2, NotLostBefore
    <3>4. \A j \in Live' : Tuple(attempts'[j]) = Tuple(d) =>
            attempts'[j].rev = d.rev /\ d.serial <= attempts'[j].serial
      <4>1. SUFFICES ASSUME NEW j \in Live', Tuple(attempts'[j]) = Tuple(d)
                     PROVE  attempts'[j].rev = d.rev /\ d.serial <= attempts'[j].serial
        OBVIOUS
      <4>2. CASE j = i
        <5>1. attempts'[j] = next
          BY <2>7, <4>2
        <5>q. QED
          BY <2>9, <2>10, <3>3, <4>1, <5>1
      <4>3. CASE j # i
        <5>1. j \in Live /\ attempts'[j] = attempts[j]
          BY <2>7, <4>1, <4>3 DEF Live
        <5>q. QED
          BY <3>3, <4>1, <5>1 DEF RevisionInv, StandingOK
      <4>q. QED
        BY <4>2, <4>3
    <3>5. Tuple(attempts[i]) = Tuple(d) =>
            i \in Live /\ attempts[i].rev = d.rev /\ d.serial <= attempts[i].serial
      <4>1. SUFFICES ASSUME Tuple(attempts[i]) = Tuple(d)
                     PROVE  i \in Live /\ attempts[i].rev = d.rev
                            /\ d.serial <= attempts[i].serial
        OBVIOUS
      <4>2. attempts[i].peer \in Peers
        BY <3>2, <4>1 DEF Tuple
      <4>3. i \in Live
        BY <4>2, Defaults DEF Live, TableInv, TableOK
      <4>q. QED
        BY <3>3, <4>1, <4>3 DEF RevisionInv, StandingOK
    <3>6. Tuple(next) = Tuple(d) => Tuple(attempts[i]) = Tuple(d)
      BY <2>9, <2>10, <3>3
    <3>7. (\E j \in Live' : Tuple(attempts'[j]) = Tuple(d)) \/ Passed(d)'
      <4>1. CASE Passed(d)
        BY <1>o, <2>11, <3>2, <4>1, PassedStays
      <4>2. ASSUME NEW j \in Live, Tuple(attempts[j]) = Tuple(d), j # i
            PROVE  j \in Live' /\ Tuple(attempts'[j]) = Tuple(d)
        BY <2>7, <4>2 DEF Live
      <4>3. ASSUME i \in Live, Tuple(attempts[i]) = Tuple(d)
            PROVE  (\E j \in Live' : Tuple(attempts'[j]) = Tuple(d)) \/ Passed(d)'
        <5>1. attempts[i].peer = d.peer
          BY <4>3 DEF Tuple
        <5>2. CASE Tuple(next) = Tuple(d)
          <6>1. i \in Live' /\ attempts'[i] = next
            BY <1>t, <2>7, <2>9 DEF Live
          <6>q. QED
            BY <5>2, <6>1
        <5>3. CASE Tuple(next) # Tuple(d) /\ d.peer = p
          <6>1. d.nonce <= ctl.me.nonce /\ d.gen <= ctl.me.gen
            BY <1>t, <2>1, <3>3, <5>3 DEF RevisionInv, StandingOK
          <6>2. d.nonce # ctl.me.nonce \/ d.gen # ctl.me.gen
            BY <2>1, <2>9, <5>3 DEF Tuple
          <6>3. ctl.me.nonce <= client[p].nonce /\ ctl.me.gen <= authority.last
            BY <1>t, <2>1 DEF HoldInv, ClocksOK, Timely
          <6>4. client[p].nonce \in Nat /\ authority.last \in Nat
                /\ ctl.me.nonce \in Nat /\ ctl.me.gen \in Nat /\ d.nonce \in Nat /\ d.gen \in Nat
            BY Numbers, DeliveredNumbers
          <6>5. d.nonce < client[p].nonce \/ d.gen < authority.last
            BY <6>1, <6>2, <6>3, <6>4
          <6>q. QED
            BY <1>t, <2>11, <5>3, <6>5 DEF Passed
        <5>4. CASE d.peer # p
          <6>1. attempts[i] \in ended
            BY <2>5, <5>1, <5>4 DEF Mine
          <6>2. history'.lost[d.peer] >= attempts[i].serial
            BY <2>8, <3>2, <5>1, <6>1
          <6>3. history'.lost[d.peer] \in Nat /\ attempts[i].serial \in Nat
            BY <3>2, <4>3, Numbers DEF TypeInv, HistoryOK, Histories, Serials
          <6>q. QED
            BY <3>1, <3>2, <3>5, <4>3, <6>2, <6>3 DEF NotLost
        <5>q. QED
          BY <5>2, <5>3, <5>4
      <4>q. QED
        BY <3>3, <4>1, <4>2, <4>3 DEF RevisionInv, StandingOK
    <3>q. QED
      BY <3>4, <3>5, <3>6, <3>7
  <2>13. DeliveredOK'
    <3>1. SUFFICES ASSUME NEW d \in history.delivered
                   PROVE  /\ d.serial # 0 /\ d.serial <= counter' /\ d.peer \in Peers
                          /\ d.rev # 0 /\ TimelyNext(d)
      BY <2>8 DEF DeliveredOK, Timely, TimelyNext
    <3>2. /\ d.serial # 0 /\ d.serial <= counter /\ d.peer \in Peers /\ d.rev # 0 /\ Timely(d)
      BY DEF RevisionInv, DeliveredOK
    <3>q. QED
      BY <1>t, <2>6, <3>2, DeliveredNumbers DEF Timely, TimelyNext
  <2>14. OneRevisionPerAttempt'
    <3>1. SUFFICES ASSUME NEW d \in history.delivered, NEW e \in history.delivered,
                          Tuple(d) = Tuple(e), NotLost(d)', NotLost(e)'
                   PROVE  d.rev = e.rev
      BY <2>8 DEF OneRevisionPerAttempt, NotLost
    <3>2. d.peer \in Peers /\ e.peer \in Peers
      BY DEF RevisionInv, DeliveredOK
    <3>3. NotLost(d) /\ NotLost(e)
      BY <2>8, <3>1, <3>2, NotLostBefore
    <3>q. QED
      BY <3>1, <3>3 DEF RevisionInv, OneRevisionPerAttempt, NotLost
  <2>q. QED
    BY <2>11, <2>12, <2>13, <2>14 DEF RevisionInv
<1>q. QED
  BY <1>1, <1>2

\* A rollback puts the delivered attempt back, or it is lost with its expiry.
LEMMA UndoRevision ==
    ASSUME TypeInv, TypeInv', TableInv, HoldInv, RevisionInv, Undo
    PROVE  RevisionInv'
<1>t. /\ attempts \in [Places -> AttemptRecords] /\ ctl \in CtlRecords /\ HistoryOK
      /\ ctl.place \in Places /\ Requesting /\ ctl.prev \in AttemptRecords
      /\ UNCHANGED <<authority, client, counter>>
  BY DEF TypeInv, AttemptsOK, CtlOK, CtlRecords, Undo, Requesting
<1>1. PICK back \in AttemptRecords, ended \in SUBSET AttemptRecords :
        back = Restored(ctl.prev) /\ ended = {ctl.prev} \ {back}
  BY <1>t, Defaults DEF Restored
<1>2. /\ attempts' = IF StillReserved THEN [attempts EXCEPT ![ctl.place] = back]
                     ELSE attempts
      /\ ctl'.pc = "undopins" /\ history' = Over(ended)
  BY <1>1, <1>t DEF Undo, CtlRecords
<1>3. /\ history'.delivered = history.delivered
      /\ \A q \in Peers : history'.lost[q] >= history.lost[q]
      /\ \A b \in ended : b.peer \in Peers => history'.lost[b.peer] >= b.serial
  BY <1>t, <1>2, OverFacts
<1>o. ClocksOnward
  BY <1>t, SameClocks
<1>4. back.serial # 0 => back = ctl.prev
  BY <1>1, Defaults DEF Restored
<1>5. \A j \in Live' : \/ j \in Live /\ attempts'[j] = attempts[j]
                       \/ attempts'[j] = ctl.prev
  <2>1. CASE StillReserved
    <3>1. \A j \in Places : attempts'[j] = IF j = ctl.place THEN back ELSE attempts[j]
      BY <1>t, <1>2, <2>1
    <3>q. QED
      BY <1>4, <3>1 DEF Live
  <2>2. CASE ~StillReserved
    BY <1>2, <2>2 DEF Live
  <2>q. QED
    BY <2>1, <2>2
<1>6. ~Requesting' /\ ReadyOK' /\ ctl'.pc # "reserve"
  BY <1>2 DEF Requesting, ReadyOK
<1>7. DeliveredOK'
  BY <1>t, <1>3 DEF RevisionInv, DeliveredOK, Timely
<1>8. OneRevisionPerAttempt'
  <2>1. SUFFICES ASSUME NEW d \in history.delivered, NEW e \in history.delivered,
                        Tuple(d) = Tuple(e), NotLost(d)', NotLost(e)'
                 PROVE  d.rev = e.rev
    BY <1>3 DEF OneRevisionPerAttempt, NotLost
  <2>2. d.peer \in Peers /\ e.peer \in Peers
    BY DEF RevisionInv, DeliveredOK
  <2>3. NotLost(d) /\ NotLost(e)
    BY <1>3, <2>1, <2>2, NotLostBefore
  <2>q. QED
    BY <2>1, <2>3 DEF RevisionInv, OneRevisionPerAttempt, NotLost
<1>9. StandingOK'
  <2>1. SUFFICES ASSUME NEW d \in history.delivered, NotLost(d)'
                 PROVE  /\ \A j \in Live' : Tuple(attempts'[j]) = Tuple(d) =>
                             attempts'[j].rev = d.rev /\ d.serial <= attempts'[j].serial
                        /\ (\E j \in Live' : Tuple(attempts'[j]) = Tuple(d)) \/ Passed(d)'
    BY <1>3, <1>6 DEF StandingOK
  <2>2. d.peer \in Peers
    BY DEF RevisionInv, DeliveredOK
  <2>3. NotLost(d)
    BY <1>3, <2>1, <2>2, NotLostBefore
  <2>4. \A j \in Live' : Tuple(attempts'[j]) = Tuple(d) =>
          attempts'[j].rev = d.rev /\ d.serial <= attempts'[j].serial
    BY <1>5, <1>t, <2>3 DEF RevisionInv, StandingOK
  <2>5. CASE Passed(d)
    BY <1>o, <1>6, <2>2, <2>4, <2>5, PassedStays
  <2>6. ASSUME NEW j \in Live, Tuple(attempts[j]) = Tuple(d)
        PROVE  \E m \in Live' : Tuple(attempts'[m]) = Tuple(d)
    <3>1. CASE StillReserved /\ j = ctl.place
      <4>1. Tuple(ctl.me) = Tuple(d)
        BY <2>6, <3>1 DEF StillReserved, TableInv, CarriedOK
      <4>2. Tuple(ctl.prev) = Tuple(d) /\ d.serial <= ctl.prev.serial
        BY <1>t, <2>3, <4>1 DEF RevisionInv, StandingOK
      <4>3. ctl.prev.peer = d.peer
        BY <4>2 DEF Tuple
      <4>4. ctl.prev.serial # 0
        BY <1>t, <2>2, <4>3, Defaults DEF TableInv, RequestOK
      <4>5. CASE back = ctl.prev
        <5>1. attempts'[ctl.place] = ctl.prev
          BY <1>t, <1>2, <3>1, <4>5
        <5>2. ctl.place \in Live'
          BY <1>t, <4>4, <5>1 DEF Live
        <5>q. QED
          BY <4>2, <5>1, <5>2
      <4>6. CASE back # ctl.prev
        <5>1. history'.lost[d.peer] >= ctl.prev.serial
          BY <1>1, <1>3, <2>2, <4>3, <4>6
        <5>2. /\ history'.lost[d.peer] \in Nat /\ ctl.prev.serial \in Nat /\ d.serial \in Nat
          BY <2>2, Numbers, DeliveredNumbers DEF TypeInv, HistoryOK, Histories, Serials
        <5>q. QED
          BY <2>1, <4>2, <5>1, <5>2 DEF NotLost
      <4>q. QED
        BY <4>5, <4>6
    <3>2. CASE ~(StillReserved /\ j = ctl.place)
      <4>1. attempts'[j] = attempts[j] /\ j \in Places
        BY <1>2, <1>t, <3>2 DEF Live
      <4>2. j \in Live'
        BY <4>1 DEF Live
      <4>q. QED
        BY <2>6, <4>1, <4>2
    <3>q. QED
      BY <3>1, <3>2
  <2>q. QED
    BY <2>3, <2>4, <2>5, <2>6 DEF RevisionInv, StandingOK
<1>q. QED
  BY <1>6, <1>7, <1>8, <1>9 DEF RevisionInv

\* A pin gives its attempt a revision only where the attempt had none, or that
\* one; nothing was delivered for an attempt without a revision.
LEMMA InstallRevision ==
    ASSUME TypeInv, TypeInv', TableInv, HoldInv, RevisionInv, PinInstall
    PROVE  RevisionInv'
<1>t. /\ attempts \in [Places -> AttemptRecords] /\ ctl \in CtlRecords
      /\ UNCHANGED <<client, authority, counter, history>>
  BY DEF TypeInv, AttemptsOK, CtlOK, PinInstall
<1>o. ClocksOnward
  BY <1>t, SameClocks
<1>1. PICK to : to \in {Pinned, NotPinned(ctl.pc)} /\ ctl' = [ctl EXCEPT !.pc = to]
  BY DEF PinInstall
<1>2. /\ ctl'.pc = to /\ ctl'.me = ctl.me /\ ctl'.prev = ctl.prev /\ ctl'.rev = ctl.rev
      /\ ctl.pc = "install" => to \in {"respond", "undo"}
      /\ ctl.pc = "reinstall" => to \in {"copy", "idle"}
  BY <1>t, <1>1 DEF CtlRecords, Pinned, NotPinned
<1>3. CtlStands
  BY <1>2 DEF PinInstall, CtlStands, Requesting
<1>c. counter' >= counter
  BY <1>t, Numbers
<1>4. CASE UNCHANGED <<attempts, pins>> /\ ctl' = [ctl EXCEPT !.pc = NotPinned(@)]
  <2>1. ReadyOK'
    BY <1>4, <1>t, NotCopying DEF NotPinned, CtlRecords
  <2>2. Losses
    BY <1>4, <1>t, NoLoss DEF Live
  <2>q. QED
    BY <1>3, <1>4, <1>c, <1>o, <1>t, <2>1, <2>2, RevisionKept, SameTableHolds
<1>5. ASSUME NEW i \in Unexpired(Current(ctl.me.serial)), attempts[i].rev \in {0, ctl.rev},
             attempts' = [attempts EXCEPT ![i].rev = ctl.rev]
      PROVE  RevisionInv'
  <2>1. i \in Live /\ i \in Places /\ attempts[i].serial = ctl.me.serial
    BY DEF Unexpired, Current, Live
  <2>2. \A j \in Places :
          /\ attempts'[j].serial = attempts[j].serial /\ Tuple(attempts'[j]) = Tuple(attempts[j])
          /\ attempts'[j].rev = IF j = i THEN ctl.rev ELSE attempts[j].rev
    BY <1>5, <1>t, <2>1 DEF AttemptRecords, Tuple
  <2>3. Live' = Live
    BY <2>2 DEF Live
  <2>4. ReadyOK'
    BY <1>2, <2>1, <2>2, <2>3 DEF ReadyOK
  <2>5. DeliveredOK' /\ OneRevisionPerAttempt'
    BY <1>t DEF RevisionInv, DeliveredOK, OneRevisionPerAttempt, Timely
  <2>6. StandingOK'
    <3>1. SUFFICES ASSUME NEW d \in history.delivered, NotLost(d)
                   PROVE  /\ \A j \in Live : Tuple(attempts[j]) = Tuple(d) =>
                               attempts'[j].rev = d.rev
                          /\ Passed(d) => Passed(d)'
      BY <1>t, <1>2, <1>3, <2>2, <2>3 DEF StandingOK, NotLost, RevisionInv, CtlStands, Live
    <3>2. d.peer \in Peers /\ d.rev # 0
      BY DEF RevisionInv, DeliveredOK
    <3>3. Passed(d) => Passed(d)'
      BY <1>3, <1>o, <3>2, PassedStays DEF CtlStands
    <3>4. \A j \in Live : Tuple(attempts[j]) = Tuple(d) => attempts[j].rev = d.rev
      BY <3>1 DEF RevisionInv, StandingOK
    <3>q. QED
      BY <1>5, <2>2, <3>2, <3>3, <3>4 DEF Live
  <2>q. QED
    BY <2>4, <2>5, <2>6 DEF RevisionInv
<1>q. QED
  BY <1>4, <1>5 DEF PinInstall

\* What is delivered is the revision that the attempt in the table has.
LEMMA CopyRevision ==
    ASSUME TypeInv, TypeInv', TableInv, HoldInv, RevisionInv, CopyPinned
    PROVE  RevisionInv'
<1>t. /\ history \in Histories /\ ctl.me \in AttemptRecords /\ ctl' = CtlIdle
      /\ UNCHANGED <<attempts, pins, client, authority, counter>> /\ ctl.rev # 0
      /\ ctl.me.peer \in Peers
  BY DEF TypeInv, HistoryOK, CtlOK, CtlRecords, CopyPinned, HoldInv, CopyOK, TableInv,
     CarriedOK, Carrying
<1>o. ClocksOnward /\ counter' >= counter
  BY <1>t, SameClocks, Numbers
<1>1. CASE UNCHANGED history
  <2>1. Losses
    BY <1>1, <1>t, NoLoss DEF Live
  <2>q. QED
    BY <1>1, <1>o, <1>t, <2>1, RevisionKept, SameTableHolds, CtlIdleStands
<1>2. ASSUME NEW k \in OwnPins([ctl.me EXCEPT !.rev = ctl.rev]),
             history' = [history EXCEPT !.delivered = @ \cup {k}]
      PROVE  RevisionInv'
  <2>1. PICK a : a = [ctl.me EXCEPT !.rev = ctl.rev]
    OBVIOUS
  <2>2. a.serial = ctl.me.serial /\ Tuple(a) = Tuple(ctl.me) /\ a.rev = ctl.rev
    BY <1>t, <2>1 DEF AttemptRecords, Tuple
  <2>3. k \in pins /\ k.serial = ctl.me.serial /\ Tuple(k) = Tuple(ctl.me) /\ k.rev = ctl.rev
    BY <1>2, <1>t, <2>1, <2>2 DEF OwnPins
  <2>4. history'.delivered = history.delivered \cup {k} /\ history'.lost = history.lost
    BY <1>2, <1>t DEF Histories
  <2>5. k.serial # 0 /\ k.serial <= counter /\ k.peer \in Peers /\ k.rev # 0 /\ Timely(k)
    BY <2>3 DEF HoldInv, PinsOK
  <2>6. k.peer = ctl.me.peer
    BY <2>3 DEF Tuple
  <2>7. DeliveredOK'
    BY <1>t, <2>4, <2>5 DEF RevisionInv, DeliveredOK, Timely
  \* The attempt it is delivered to is the one of its tuple.
  <2>8. ASSUME NotLost(k)
        PROVE  \E i \in Live : /\ attempts[i].serial = k.serial /\ attempts[i].rev = k.rev
                               /\ Tuple(attempts[i]) = Tuple(k)
                               /\ \A j \in Live : Tuple(attempts[j]) = Tuple(k) => j = i
    <3>1. PICK i \in Live : attempts[i].serial = ctl.me.serial /\ attempts[i].rev = ctl.rev
      BY <2>3, <2>6, <2>8 DEF RevisionInv, ReadyOK, NotLost, CopyPinned
    <3>2. Tuple(attempts[i]) = Tuple(k)
      BY <2>3, <3>1 DEF TableInv, CarriedOK
    <3>3. \A j \in Live : Tuple(attempts[j]) = Tuple(k) => attempts[j].peer = attempts[i].peer
      BY <3>2 DEF Tuple
    <3>q. QED
      BY <2>3, <3>1, <3>2, <3>3 DEF TableInv, TableOK, OneAttemptPerPeer
  <2>9. ~Requesting' /\ ctl'.pc # "reserve" /\ ReadyOK'
    BY <1>t DEF Requesting, CtlIdle, ReadyOK
  <2>10. StandingOK'
    <3>1. SUFFICES ASSUME NEW d \in history'.delivered, NotLost(d)
                   PROVE  /\ \A j \in Live : Tuple(attempts[j]) = Tuple(d) =>
                               attempts[j].rev = d.rev /\ d.serial <= attempts[j].serial
                          /\ (\E j \in Live : Tuple(attempts[j]) = Tuple(d)) \/ Passed(d)'
      BY <1>t, <2>4, <2>9 DEF StandingOK, NotLost, Live
    <3>2. CASE d = k
      <4>1. PICK i \in Live : /\ attempts[i].serial = k.serial /\ attempts[i].rev = k.rev
                              /\ Tuple(attempts[i]) = Tuple(k)
                              /\ \A j \in Live : Tuple(attempts[j]) = Tuple(k) => j = i
        BY <2>8, <3>1, <3>2
      <4>2. k.serial <= k.serial
        BY <2>3, Numbers
      <4>q. QED
        BY <3>2, <4>1, <4>2
    <3>3. CASE d \in history.delivered
      <4>1. d.peer \in Peers
        BY <3>3 DEF RevisionInv, DeliveredOK
      <4>2. Passed(d) => Passed(d)'
        BY <1>o, <2>9, <3>3, <4>1, PassedStays
      <4>q. QED
        BY <3>1, <3>3, <4>2 DEF RevisionInv, StandingOK
    <3>q. QED
      BY <2>4, <3>2, <3>3
  \* Whatever was delivered for its tuple before had that revision.
  <2>11. ASSUME NEW d \in history.delivered, Tuple(d) = Tuple(k), NotLost(d), NotLost(k)
         PROVE  d.rev = k.rev
    BY <2>8, <2>11 DEF RevisionInv, StandingOK
  <2>12. OneRevisionPerAttempt'
    <3>1. SUFFICES ASSUME NEW d \in history'.delivered, NEW e \in history'.delivered,
                          Tuple(d) = Tuple(e), NotLost(d), NotLost(e)
                   PROVE  d.rev = e.rev
      BY <2>4 DEF OneRevisionPerAttempt, NotLost
    <3>2. CASE d \in history.delivered /\ e \in history.delivered
      BY <3>1, <3>2 DEF RevisionInv, OneRevisionPerAttempt, NotLost
    <3>q. QED
      BY <2>4, <2>11, <3>1, <3>2
  <2>q. QED
    BY <2>7, <2>9, <2>10, <2>12 DEF RevisionInv
<1>q. QED
  BY <1>1, <1>2 DEF CopyPinned

\* The other steps of the control thread.
LEMMA ControlRevision ==
    /\ TypeInv /\ TypeInv' /\ TableInv /\ HoldInv /\ RevisionInv
    /\ RequestStep \/ CommitStep \/ RollbackStep \/ DeliverStep \/ ExpireStep
    => RevisionInv'
<1> SUFFICES ASSUME TypeInv, TypeInv', TableInv, HoldInv, RevisionInv,
                    RequestStep \/ CommitStep \/ RollbackStep \/ DeliverStep \/ ExpireStep
             PROVE  RevisionInv'
  OBVIOUS
<1>t. ctl \in CtlRecords /\ history \in Histories /\ attempts \in [Places -> AttemptRecords]
      /\ HistoryOK
  BY DEF TypeInv, CtlOK, HistoryOK, AttemptsOK
\* The table, the clocks and the history stay.
<1>m. ASSUME UNCHANGED <<attempts, counter>>, history'.lost = history.lost,
             history'.delivered = history.delivered, ClocksOnward, CtlStands, ReadyOK'
      PROVE  RevisionInv'
  <2>1. Losses
    BY <1>m, NoLoss DEF Live
  <2>2. counter' >= counter
    BY <1>m, Numbers
  <2>q. QED
    BY <1>m, <2>1, <2>2, RevisionKept, SameTableHolds
<1>1. ASSUME PinRead PROVE RevisionInv'
  <2>1. ctl'.me = ctl.me /\ ctl'.prev = ctl.prev
    BY <1>1, <1>t DEF PinRead, CtlRecords
  <2>2. ctl.pc = "pin" => ctl'.pc \in {"respond", "install", "undo"}
    BY <1>1, <1>t DEF PinRead, CtlRecords, Pinned, NotPinned
  <2>3. ctl.pc = "repin" => ctl'.pc \in {"copy", "reinstall", "idle"}
    BY <1>1, <1>t DEF PinRead, CtlRecords, Pinned, NotPinned
  <2>4. CtlStands
    BY <1>1, <2>1, <2>2, <2>3 DEF PinRead, Pinning, CtlStands, Requesting
  <2>5. ReadyOK'
    <3>1. ASSUME NEW i \in Unexpired(Current(ctl.me.serial)), NEW k \in OwnPins(attempts[i]),
                 ctl' = [ctl EXCEPT !.pc = Pinned, !.rev = k.rev]
          PROVE  ReadyOK'
      <4>1. /\ i \in Live /\ attempts[i].serial = ctl.me.serial
            /\ k \in pins /\ k.serial = attempts[i].serial
        BY DEF Unexpired, Current, OwnPins
      <4>2. ctl'.rev = k.rev
        BY <1>t, <3>1 DEF CtlRecords
      <4>3. attempts[i].rev = k.rev
        BY <4>1 DEF HoldInv, PinsOK
      <4>q. QED
        BY <1>1, <2>1, <4>1, <4>2, <4>3 DEF ReadyOK, PinRead, Live
    <3>2. CASE ctl'.pc # "copy"
      BY <3>2, NotCopying
    <3>3. ASSUME NEW r, ctl' = [ctl EXCEPT !.rev = r,
                              !.pc = IF @ = "pin" THEN "install" ELSE "reinstall"]
          PROVE  ctl'.pc # "copy"
      BY <1>t, <3>3 DEF CtlRecords
    <3>4. ASSUME ctl' = [ctl EXCEPT !.pc = NotPinned(@)] PROVE ctl'.pc # "copy"
      BY <1>t, <3>4 DEF NotPinned, CtlRecords
    <3>q. QED
      BY <1>1, <3>1, <3>2, <3>3, <3>4 DEF PinRead
  <2>q. QED
    BY <1>1, <1>m, <2>4, <2>5, SameClocks DEF PinRead
<1>2. ASSUME Respond PROVE RevisionInv'
  <2>1. ctl'.me = ctl.me /\ ctl'.prev = ctl.prev /\ ctl'.pc \in {"commit", "undo"}
    BY <1>2, <1>t DEF Respond, CtlRecords
  <2>2. CtlStands /\ ReadyOK'
    BY <1>2, <2>1 DEF Respond, Requesting, CtlStands, ReadyOK
  <2>3. \A p \in Peers : client'[p].nonce = client[p].nonce /\ client'[p].sent = client[p].sent
    BY <1>2 DEF Respond, TypeInv, SharedOK, ClientRecords
  <2>4. ClocksOnward
    <3>1. authority'.gen \in {0, authority'.last} /\ authority'.last >= authority.last
      BY <1>2, Numbers DEF Respond, HoldInv, ClocksOK
    <3>q. QED
      BY <2>3, <3>1 DEF ClocksOnward, ClientOnward
  <2>q. QED
    BY <1>2, <1>m, <2>2, <2>4 DEF Respond
\* A step that is neither open nor a delivery.
<1>e. ASSUME ctl'.pc \notin {"pin", "install", "respond", "commit", "undo", "reserve", "copy"}
      PROVE  CtlStands /\ ReadyOK'
  BY <1>e DEF CtlStands, Requesting, ReadyOK
<1>3. ASSUME CommitCheck \/ DropPrevPin \/ DropOldSlots \/ Deliver \/ ExpirePins
      PROVE  RevisionInv'
  <2>1. ctl'.pc \in {"dropprev", "lost", "dropslots", "deliver", "repin", "xslots"}
    BY <1>3, <1>t DEF CommitCheck, DropPrevPin, DropOldSlots, Deliver, ExpirePins, CtlRecords
  <2>2. UNCHANGED <<attempts, counter, client, authority, history>>
    BY <1>3 DEF CommitCheck, DropPrevPin, DropOldSlots, Deliver, ExpirePins
  <2>3. CtlStands /\ ReadyOK'
    BY <1>e, <2>1
  <2>q. QED
    BY <1>m, <2>2, <2>3, SameClocks
<1>4. ASSUME CommitLost \/ UndoPins \/ ExpireSlots PROVE RevisionInv'
  <2>1. ctl' = CtlIdle /\ UNCHANGED <<attempts, counter, client, authority>>
    BY <1>4 DEF CommitLost, UndoPins, ExpireSlots
  <2>2. history'.lost = history.lost /\ history'.delivered = history.delivered
    BY <1>4, <1>t DEF CommitLost, UndoPins, ExpireSlots, Histories
  <2>q. QED
    BY <1>m, <2>1, <2>2, CtlIdleStands, SameClocks
<1>5. ASSUME NEW i \in Places, Redeliver(i) PROVE RevisionInv'
  <2>1. ctl'.pc = "repin"
    BY <1>5 DEF Redeliver, CtlIdle
  <2>2. CtlStands /\ ReadyOK'
    BY <1>e, <2>1
  <2>q. QED
    BY <1>5, <1>m, <2>2, SameClocks DEF Redeliver
<1>6. ASSUME ExpireAttempts PROVE RevisionInv'
  <2>1. PICK late \in SUBSET AttemptRecords :
          late = {attempts[i] : i \in {j \in Live : attempts[j].expired}}
    BY <1>t DEF Live
  <2>2. /\ ctl'.pc = "xpins" /\ history' = Over(late)
        /\ attempts' = [i \in Places |-> IF attempts[i] \in late THEN NoAttempt
                                         ELSE attempts[i]]
        /\ UNCHANGED <<client, authority, counter>>
    BY <1>6, <2>1 DEF ExpireAttempts, CtlIdle
  <2>3. /\ history'.delivered = history.delivered
        /\ \A q \in Peers : history'.lost[q] >= history.lost[q]
        /\ \A b \in late : b.peer \in Peers => history'.lost[b.peer] >= b.serial
    BY <1>t, <2>2, OverFacts
  <2>4. TableHolds
    BY <2>2, Defaults DEF TableHolds, Live
  <2>5. Losses
    BY <2>2, <2>3, Numbers DEF Losses, Live
  <2>6. CtlStands /\ ReadyOK'
    BY <1>e, <2>2
  <2>7. counter' >= counter /\ ClocksOnward
    BY <2>2, Numbers, SameClocks
  <2>q. QED
    BY <2>3, <2>4, <2>5, <2>6, <2>7, RevisionKept
<1>q. QED
  BY <1>1, <1>2, <1>3, <1>4, <1>5, <1>6, AskRevision, ReserveRevision, InstallRevision,
     UndoRevision, CopyRevision
     DEF RequestStep, CommitStep, RollbackStep, DeliverStep, ExpireStep

\* The status and the payloads.
LEMMA StatusRevision ==
    /\ TypeInv /\ TypeInv' /\ TableInv /\ HoldInv /\ RevisionInv
    /\ StatusStep \/ PayloadStep
    => RevisionInv'
<1> SUFFICES ASSUME TypeInv, TypeInv', TableInv, HoldInv, RevisionInv,
                    StatusStep \/ PayloadStep
             PROVE  RevisionInv'
  OBVIOUS
<1>t. ctl \in CtlRecords /\ history \in Histories
  BY DEF TypeInv, CtlOK, HistoryOK
\* Not the control thread.
<1>n. ASSUME UNCHANGED <<ctl, counter, authority, client>>, Remarked,
             history'.lost = history.lost, history'.delivered = history.delivered
      PROVE  RevisionInv'
  <2>1. Losses
    BY <1>n, NoLoss DEF Remarked
  <2>2. CtlStands /\ ReadyOK'
    BY <1>n, SameCtlStands, ReadyStays
  <2>3. counter' >= counter
    BY <1>n, Numbers
  <2>q. QED
    BY <1>n, <2>1, <2>2, <2>3, SameClocks, RemarkedHolds, RevisionKept
<1>1. ASSUME NEW p \in Peers, StatusArrives(p) PROVE RevisionInv'
  <2>1. UNCHANGED <<attempts, counter, authority, history>>
        /\ client' = [client EXCEPT ![p].sent = TRUE]
    BY <1>1 DEF StatusArrives
  <2>2. ClocksOnward
    <3>1. \A q \in Peers : /\ client'[q].nonce = client[q].nonce
                           /\ client[q].sent => client'[q].sent
      BY <2>1 DEF TypeInv, SharedOK, ClientRecords
    <3>2. authority'.gen \in {0, authority'.last} /\ authority'.last >= authority.last
      BY <2>1, Numbers DEF HoldInv, ClocksOK
    <3>q. QED
      BY <3>1, <3>2 DEF ClocksOnward, ClientOnward
  <2>3. ctl'.pc \in {"idle", "store"}
    BY <1>1 DEF StatusArrives, CtlFree, CtlIdle
  <2>4. CtlStands /\ ReadyOK'
    BY <2>3 DEF CtlStands, Requesting, ReadyOK
  <2>5. Losses /\ counter' >= counter
    BY <2>1, NoLoss, Numbers DEF Live
  <2>q. QED
    BY <2>1, <2>2, <2>4, <2>5, RevisionKept, SameTableHolds
<1>2. ASSUME NEW p \in Peers, Consume(p) PROVE RevisionInv'
  BY <1>2, <1>n, SameRemarked DEF Consume
<1>3. ASSUME StoreStatus PROVE RevisionInv'
  <2>1. ctl' = CtlIdle /\ UNCHANGED <<attempts, counter, client, authority, history>>
    BY <1>3 DEF StoreStatus
  <2>2. Losses /\ counter' >= counter /\ ClocksOnward
    BY <2>1, NoLoss, Numbers, SameClocks DEF Live
  <2>q. QED
    BY <2>1, <2>2, CtlIdleStands, RevisionKept, SameTableHolds
<1>4. ASSUME TakeSlot PROVE RevisionInv'
  <2>1. history'.lost = history.lost /\ history'.delivered = history.delivered
    BY <1>4, <1>t DEF TakeSlot, Histories
  <2>q. QED
    BY <1>4, <1>n, <2>1, SameRemarked DEF TakeSlot
<1>5. ASSUME MarkStatus PROVE RevisionInv'
  BY <1>5, <1>n, MarkRemarks DEF MarkStatus
<1>6. ASSUME NEW t \in Senders, NEW event \in Events, Capture(t, event) PROVE RevisionInv'
  BY <1>6, <1>n, SameRemarked DEF Capture
<1>7. ASSUME NEW t \in Senders,
             StorePayload(t) \/ Spread(t) \/ Look(t) \/ CopyCache(t) \/ Refresh(t) \/ Sent(t)
      PROVE  RevisionInv'
  <2>1. UNCHANGED <<attempts, ctl, counter, authority, client, history>>
    BY <1>7 DEF StorePayload, Spread, Look, CopyCache, Refresh, Sent
  <2>q. QED
    BY <2>1, <1>n, SameRemarked
<1>8. ASSUME NEW t \in Senders, Send(t) PROVE RevisionInv'
  <2>1. history'.lost = history.lost /\ history'.delivered = history.delivered
    BY <1>8, <1>t DEF Send, Histories
  <2>2. UNCHANGED <<ctl, counter, authority, client>>
    BY <1>8 DEF Send
  <2>q. QED
    BY <1>8, <1>n, <2>1, <2>2, SendRemarks
<1>q. QED
  BY <1>1, <1>2, <1>3, <1>4, <1>5, <1>6, <1>7, <1>8 DEF StatusStep, PayloadStep

\* Clears, peer losses, time and members.
LEMMA OtherRevision ==
    /\ TypeInv /\ TypeInv' /\ TableInv /\ HoldInv /\ HoldInv' /\ RevisionInv
    /\ ClearStep \/ LoseStep \/ WorldStep
    => RevisionInv'
<1> SUFFICES ASSUME TypeInv, TypeInv', TableInv, HoldInv, HoldInv', RevisionInv,
                    ClearStep \/ LoseStep \/ WorldStep
             PROVE  RevisionInv'
  OBVIOUS
<1>t. /\ ctl \in CtlRecords /\ history \in Histories /\ counter \in Nat
      /\ authority \in AuthorityRecords
      /\ ctl.me.serial \in Nat /\ ctl.me.serial <= counter
      /\ (ctl.pc = "copy" => ctl.me.peer \in Peers)
  BY Numbers DEF TypeInv, CtlOK, HistoryOK, SharedOK, TableInv, CarriedOK, Carrying
\* Neither the table nor the control thread.
<1>n. ASSUME UNCHANGED <<attempts, ctl, counter, history>>, ClocksOnward
      PROVE  RevisionInv'
  <2>1. Losses /\ counter' >= counter /\ CtlStands /\ ReadyOK'
    BY <1>n, <1>t, NoLoss, SameCtlStands, ReadyStays, SameRemarked DEF Live
  <2>q. QED
    BY <1>n, <2>1, RevisionKept, SameTableHolds
<1>a. authority'.gen \in {0, authority'.last}
  BY DEF HoldInv, ClocksOK
<1>1. ASSUME CommitAuthority \/ RetireAuthority \/ ResetPeers \/ WorldChanges
      PROVE  RevisionInv'
  <2>1. UNCHANGED <<attempts, ctl, counter, history, client>>
    BY <1>1 DEF CommitAuthority, RetireAuthority, ResetPeers, WorldChanges
  <2>2. authority'.last >= authority.last
    <3>1. authority.last \in Nat
      BY Numbers
    <3>2. authority'.last \in {authority.last, authority.last + 1}
      <4>1. CASE CommitAuthority
        BY <4>1 DEF CommitAuthority
      <4>2. CASE RetireAuthority
        <5>1. authority' = [authority EXCEPT !.gen = 0, !.running = FALSE]
          BY <4>2 DEF RetireAuthority
        <5>q. QED
          BY <1>t, <5>1 DEF AuthorityRecords
      <4>3. CASE ResetPeers
        BY <4>3 DEF ResetPeers
      <4>4. CASE WorldChanges
        BY <1>t, <4>4 DEF WorldChanges, AuthorityRecords
      <4>q. QED
        BY <1>1, <4>1, <4>2, <4>3, <4>4
    <3>q. QED
      BY <3>1, <3>2
  <2>3. ClocksOnward
    BY <1>a, <2>1, <2>2, ClientSame DEF ClocksOnward
  <2>q. QED
    BY <1>n, <2>1, <2>3
<1>2. ASSUME NEW t \in Threads, ClearAttempts(t) PROVE RevisionInv'
  <2>1. /\ history'.lost = [p \in Peers |-> counter] /\ history'.delivered = history.delivered
        /\ UNCHANGED <<ctl, counter, client, authority>>
        /\ attempts' = [i \in Places |-> NoAttempt]
    BY <1>2, <1>t DEF ClearAttempts, Histories
  <2>2. Losses
    BY <2>1, Numbers DEF Losses, TableInv, TableOK
  <2>3. TableHolds
    BY <2>1, Defaults DEF TableHolds, Live
  <2>4. ReadyOK'
    BY <1>t, <2>1 DEF ReadyOK
  <2>q. QED
    BY <1>t, <2>1, <2>2, <2>3, <2>4, SameClocks, SameCtlStands, RevisionKept
<1>3. ASSUME NEW t \in Threads, ClearSlots(t) \/ ClearCache(t) \/ ClearPins(t)
      PROVE  RevisionInv'
  <2>1. UNCHANGED <<attempts, ctl, counter, history, client, authority>>
    BY <1>3 DEF ClearSlots, ClearCache, ClearPins
  <2>q. QED
    BY <1>n, <2>1, SameClocks
<1>4. ASSUME NEW p, Losing(p) PROVE RevisionInv'
  <2>1. /\ \A i \in Places : attempts'[i] = IF i \in Mine(p) THEN NoAttempt ELSE attempts[i]
        /\ UNCHANGED <<ctl, counter, client, authority>>
        /\ history' = [history EXCEPT !.lost[p] = counter]
    BY <1>4 DEF Losing
  <2>2. /\ \A q \in Peers : history'.lost[q] = IF q = p THEN counter ELSE history.lost[q]
        /\ history'.delivered = history.delivered
    BY <2>1, <1>t DEF Histories
  <2>3. TableHolds
    BY <2>1, Defaults DEF TableHolds, Live
  <2>4. Losses
    <3>1. \A q \in Peers : history'.lost[q] >= history.lost[q]
      BY <1>t, <2>2, Numbers DEF TableInv, TableOK
    <3>2. ASSUME NEW i \in Live, i \notin Live'
          PROVE  history'.lost[attempts[i].peer] >= attempts[i].serial
      <4>1. attempts[i].peer = p
        BY <2>1, <3>2 DEF Live, Mine
      <4>q. QED
        BY <1>t, <2>2, <4>1, Numbers DEF TableInv, TableOK
    <3>q. QED
      BY <3>1, <3>2 DEF Losses
  <2>5. ReadyOK'
    <3>1. SUFFICES ASSUME ctl.pc = "copy", ctl.me.serial > history'.lost[ctl.me.peer]
                   PROVE  \E i \in Live' : /\ attempts'[i].serial = ctl.me.serial
                                           /\ attempts'[i].rev = ctl.rev
      BY <2>1 DEF ReadyOK
    <3>2. ctl.me.peer # p /\ ctl.me.serial > history.lost[ctl.me.peer]
      BY <1>t, <2>2, <3>1
    <3>3. PICK i \in Live : attempts[i].serial = ctl.me.serial /\ attempts[i].rev = ctl.rev
      BY <3>1, <3>2 DEF RevisionInv, ReadyOK
    <3>4. attempts[i].peer = ctl.me.peer
      BY <3>3 DEF TableInv, CarriedOK, Tuple
    <3>5. attempts'[i] = attempts[i] /\ i \in Live'
      BY <2>1, <3>2, <3>4 DEF Live, Mine
    <3>q. QED
      BY <3>3, <3>5
  <2>q. QED
    BY <1>t, <2>1, <2>2, <2>3, <2>4, <2>5, SameClocks, SameCtlStands, RevisionKept
<1>5. ASSUME LosePeerSlots \/ LosePeerPins PROVE RevisionInv'
  <2>1. UNCHANGED <<attempts, ctl, counter, history, client, authority>>
    BY <1>5 DEF LosePeerSlots, LosePeerPins
  <2>q. QED
    BY <1>n, <2>1, SameClocks
<1>6. ASSUME NEW s \in 1..MaxSerial, Elapse(s) PROVE RevisionInv'
  <2>1. UNCHANGED <<counter, client, authority, history>>
    BY <1>6 DEF Elapse
  <2>2. CtlStands /\ ReadyOK' /\ TableHolds
    BY <1>6, <2>1, ElapseRemarks, SameCtlStands, ReadyStays, RemarkedHolds
  <2>3. Losses
    BY <1>6, <2>1, ElapseRemarks, NoLoss DEF Remarked
  <2>q. QED
    BY <1>t, <2>1, <2>2, <2>3, SameClocks, RevisionKept
<1>7. ASSUME NEW p \in Peers, FreshNonce(p) PROVE RevisionInv'
  <2>1. ClientOnward
    <3>1. client'[p].nonce = client[p].nonce + 1
          /\ \A q \in Peers : q # p => client'[q] = client[q]
      BY <1>7 DEF FreshNonce, TypeInv, SharedOK
    <3>q. QED
      BY <3>1, Numbers DEF ClientOnward
  <2>2. ClocksOnward
    BY <1>7, <1>a, <2>1, Numbers DEF FreshNonce, ClocksOnward
  <2>q. QED
    BY <1>7, <1>n, <2>2 DEF FreshNonce
<1>8. ASSUME NEW p \in Peers, Publish(p) PROVE RevisionInv'
  BY <1>8, <1>n, SameClocks DEF Publish
<1>9. ClearStep => RevisionInv'
  BY <1>1, <1>2, <1>3 DEF ClearStep
<1>10. LoseStep => RevisionInv'
  BY <1>4, <1>5 DEF LoseStep, LosePeer, LoseNext
<1>11. WorldStep => RevisionInv'
  BY <1>1, <1>6, <1>7, <1>8 DEF WorldStep
<1>q. QED
  BY <1>9, <1>10, <1>11

LEMMA RevisionInit == Init => RevisionInv
<1> SUFFICES ASSUME Init PROVE RevisionInv
  OBVIOUS
<1>1. history.delivered = {} /\ ctl.pc = "idle"
  BY DEF Init, CtlIdle
<1>q. QED
  BY <1>1 DEF RevisionInv, DeliveredOK, StandingOK, ReadyOK, OneRevisionPerAttempt

LEMMA RevisionNext ==
    TypeInv /\ TypeInv' /\ TableInv /\ HoldInv /\ HoldInv' /\ RevisionInv /\ [Next]_vars
    => RevisionInv'
<1> SUFFICES ASSUME TypeInv, TypeInv', TableInv, HoldInv, HoldInv', RevisionInv, [Next]_vars
             PROVE  RevisionInv'
  OBVIOUS
<1>1. CASE UNCHANGED vars
  <2>1. UNCHANGED <<attempts, ctl, counter, client, authority, history>>
    BY <1>1 DEF vars
  <2>2. Losses /\ counter' >= counter /\ CtlStands /\ ReadyOK'
    BY <2>1, Numbers, NoLoss, SameCtlStands, ReadyStays, SameRemarked DEF Live
  <2>q. QED
    BY <2>1, <2>2, RevisionKept, SameClocks, SameTableHolds
<1>q. QED
  BY <1>1, ControlRevision, StatusRevision, OtherRevision DEF Next

\* One authorization attempt is delivered one revision, also when the member
\* publishes again, asks again, its request is rolled back or its pin is made
\* again.
THEOREM HostOneRevisionPerAttempt == Spec => []OneRevisionPerAttempt
<1>1. Spec => []RevisionInv
  BY TypeInit, TypeNext, TableInit, TableNext, HoldInit, HoldNext, RevisionInit, RevisionNext,
     PTL DEF Spec
<1>2. RevisionInv => OneRevisionPerAttempt
  BY DEF RevisionInv
<1>q. QED
  BY <1>1, <1>2, PTL

-----------------------------------------------------------------------------
(* The release: what is due to an attempt is offered, or on its way. *)

\* What may disturb a release, and is excluded here: the table is cleared for a
\* new generation while the game thread has copies of attempts of the old one,
\* and a replay that still has something to send finds its attempt expired when
\* it looks it up again.
CalmStep ==
    /\ clear["ctl"] = "attempts" /\ clear'["ctl"] # "attempts" => work["game"].to = {}
    /\ \A t \in Senders :
         work[t].pc = "refresh" /\ work'[t].pc = "send" /\ work[t].load # {} =>
           \A i \in Mine(work[t].peer) : ~attempts[i].expired

\* The generation of all attempts and copies: the last one, once the table has
\* been cleared for it.
Era == IF clear["ctl"] = "attempts" THEN authority.last - 1 ELSE authority.last

EraOK ==
    /\ clear["ctl"] = "attempts" => authority.last # 0
    /\ \A a \in Carried : a.gen = Era
    /\ \A t \in Senders : \A b \in work[t].to : b.gen = Era

\* The member has been offered the event under that nonce and generation.
Offered(a, event) == [peer |-> a.peer, nonce |-> a.nonce, gen |-> a.gen, event |-> event]
                       \in history.offered

\* An attempt or a copy on which an event is marked as sent has been offered it.
SentOK ==
    /\ \A a \in Carried : \A event \in a.sent : Offered(a, event)
    /\ \A t \in Senders : \A b \in work[t].to : \A event \in b.sent : Offered(b, event)

\* A spread carries one event; a replay has copies of one attempt of its peer.
ShapeOK(w) ==
    /\ w.pc \in {"idle", "capture", "spread", "look"} => w.to = {}
    /\ w.pc \in {"cache", "refresh"} => w.peer # 0
    /\ w.pc \in {"capture", "spread"} => w.peer = 0
    /\ w.peer # 0 => \A b, c \in w.to : b = c /\ b.peer = w.peer
    /\ w.peer = 0 => \A m, n \in w.load : m = n

ShapesOK == \A t \in Senders : ShapeOK(work[t])

\* A thread that is in the middle of something else does not send.
ApartOK ==
    /\ game.pc # "idle" => work["game"].pc = "idle"
    /\ ctl.pc \notin {"idle", "deliver"} => work["ctl"].pc = "idle"
    /\ clear["ctl"] # "none" => ctl.pc = "idle" /\ work["ctl"].pc = "idle"

\* A request is made under the latest nonce, and the attempt it has reserved
\* has what the attempt it would put back has.
RetryOK ==
    /\ ctl.pc = "reserve" => \A i \in Mine(ctl.me.peer) : attempts[i].nonce <= ctl.me.nonce
    /\ Requesting /\ ctl.prev.serial # 0 /\ ctl.prev.peer = ctl.me.peer =>
         /\ ctl.prev.nonce <= ctl.me.nonce
         /\ StillReserved /\ ctl.prev.nonce = ctl.me.nonce /\ ctl.prev.status =>
              attempts[ctl.place].status

\* A reservation until the replay that follows its commit.
Reserving == Requesting \/ ctl.pc \in {"dropprev", "dropslots"}

Unsettled == {i \in Live : Reserving /\ i = ctl.place /\ StillReserved}

\* The attempts that events are due to: those of the table that are not just
\* being reserved, and the one a rollback would put back.
Owed == {attempts[i] : i \in Live \ Unsettled}
        \cup {a \in {ctl.prev} : Requesting /\ StillReserved /\ a.serial # 0 /\ ~a.expired}

\* The event is due to the attempt.
Due(a, m) == /\ a.gen = m.gen /\ a.nonce = client[a.peer].nonce
             /\ m.event = "ready" => a.status

\* One of the thread's copies is of the attempt, and has the status it needs.
Reaches(w, a, m) == \E c \in w.to : Tuple(c) = Tuple(a) /\ (m.event = "ready" => c.status)

\* The thread is about to offer the event to the attempt.
Brings(w, a, m) ==
    \/ w.pc = "spread" /\ m \in w.load
    \/ w.pc = "look" /\ w.peer = a.peer
    \/ w.pc = "cache" /\ Reaches(w, a, m)
    \/ w.pc \in {"send", "refresh"} /\ m \in w.load /\ Reaches(w, a, m)

\* An event that is stored and due to an attempt has been offered to it, or a
\* thread brings it.
ReleaseOK == \A a \in Owed, m \in cache :
    Due(a, m) => Offered(a, m.event) \/ \E t \in Senders : Brings(work[t], a, m)

ReleaseInv == EraOK /\ SentOK /\ ShapesOK /\ ApartOK /\ RetryOK /\ ReleaseOK

\* Nothing new is carried, and nothing new is marked as sent.
CarriedThins == \A b \in Carried' : \E a \in Carried : Tuple(b) = Tuple(a) /\ b.sent \subseteq a.sent

\* Events are due to no other attempts than before, unless a thread is about to
\* look them up.
OwedThins == \A b \in Owed' :
    \/ \E a \in Owed : Tuple(b) = Tuple(a) /\ (b.status => a.status)
    \/ \E t \in Senders : work'[t].pc = "look" /\ work'[t].peer = b.peer

\* No thread goes on with what it sends; one that was idle may begin a replay.
WorkRests == \A t \in Senders :
    \/ work'[t] = work[t]
    \/ work[t].pc = "idle" /\ work'[t].pc = "look" /\ work'[t].to = {} /\ work'[t].load = {}

\* The generation of the attempts stays, and nobody is offered anything.
EraRests ==
    /\ authority'.last = authority.last
    /\ clear'["ctl"] = "attempts" <=> clear["ctl"] = "attempts"
    /\ cache' \subseteq cache /\ history'.offered = history.offered

\* The table keeps attempts with their marks, or loses them.
TableThins == \A i \in Live' :
    /\ i \in Live /\ attempts'[i].serial = attempts[i].serial
    /\ Tuple(attempts'[i]) = Tuple(attempts[i]) /\ attempts'[i].status = attempts[i].status
    /\ attempts'[i].sent = attempts[i].sent

\* The control thread goes on with its request, or gives it up; a reservation
\* that is in the table stays its own until it is settled.
CtlThins ==
    /\ ctl'.pc = "reserve" => ctl.pc = "reserve" /\ ctl'.me = ctl.me
    /\ Reserving /\ StillReserved => Reserving'
    /\ Reserving' => Reserving /\ ctl'.me = ctl.me /\ ctl'.place = ctl.place
    /\ Requesting' => /\ Requesting /\ ctl'.prev.serial = ctl.prev.serial
                      /\ Tuple(ctl'.prev) = Tuple(ctl.prev)
                      /\ ctl'.prev.status = ctl.prev.status /\ ctl'.prev.sent = ctl.prev.sent
                      /\ (ctl.prev.expired => ctl'.prev.expired)

LEMMA BringsAlike ==
    ASSUME NEW a, NEW b, Tuple(a) = Tuple(b)
    PROVE  /\ a.peer = b.peer /\ a.nonce = b.nonce /\ a.gen = b.gen
           /\ \A event : Offered(a, event) <=> Offered(b, event)
           /\ \A w, m : Brings(w, a, m) <=> Brings(w, b, m)
<1>1. a.peer = b.peer /\ a.nonce = b.nonce /\ a.gen = b.gen
  BY DEF Tuple
<1>q. QED
  BY <1>1 DEF Offered, Brings, Reaches

\* What is owed is a member's, has numbers, and is not ahead of its member.
LEMMA OwedFacts ==
    ASSUME TypeInv, HoldInv, NEW a \in Owed
    PROVE  a.peer \in Peers /\ a.nonce \in Nat /\ a.gen \in Nat /\ Timely(a)
<1>1. ASSUME NEW i \in Live, a = attempts[i]
      PROVE  a.peer \in Peers /\ a.nonce \in Nat /\ a.gen \in Nat /\ Timely(a)
  BY <1>1, Numbers DEF HoldInv, ClocksOK
<1>2. ASSUME a = ctl.prev, a.serial # 0
      PROVE  a.peer \in Peers /\ a.nonce \in Nat /\ a.gen \in Nat /\ Timely(a)
  BY <1>2, Numbers DEF HoldInv, ClocksOK, TypeInv, CtlOK
<1>q. QED
  BY <1>1, <1>2 DEF Owed

\* A nonce that is current was current before.
LEMMA DueBefore ==
    ASSUME TypeInv, TypeInv', HoldInv, ClientOnward, NEW a \in Owed, NEW b, NEW m,
           Tuple(b) = Tuple(a), b.status => a.status,
           b.gen = m.gen, b.nonce = client'[b.peer].nonce, m.event = "ready" => b.status
    PROVE  Due(a, m)
<1>1. a.peer \in Peers /\ a.nonce \in Nat /\ Timely(a)
  BY OwedFacts
<1>2. b.peer = a.peer /\ b.nonce = a.nonce /\ b.gen = a.gen
  BY BringsAlike
<1>3. client[a.peer].nonce \in Nat /\ client'[a.peer].nonce \in Nat
  BY <1>1, Numbers DEF TypeInv, SharedOK, ClientRecords, Nonces
<1>4. client'[a.peer].nonce >= client[a.peer].nonce
  BY <1>1, <1>3 DEF ClientOnward
<1>5. a.nonce = client[a.peer].nonce
  BY <1>1, <1>2, <1>3, <1>4 DEF Timely
<1>q. QED
  BY <1>2, <1>5 DEF Due

LEMMA ReleaseRests ==
    ASSUME TypeInv, TypeInv', TableInv, HoldInv, ReleaseInv,
           CarriedThins, OwedThins, WorkRests, EraRests, ClientOnward, ApartOK', RetryOK'
    PROVE  ReleaseInv'
<1>1. Era' = Era /\ (clear'["ctl"] = "attempts" => authority'.last # 0)
  BY DEF Era, EraRests, ReleaseInv, EraOK
<1>2. \A t \in Senders : work'[t].to \subseteq work[t].to
  BY DEF WorkRests
<1>3. EraOK'
  <2>1. ASSUME NEW b \in Carried' PROVE b.gen = Era
    <3>1. PICK a \in Carried : Tuple(b) = Tuple(a)
      BY DEF CarriedThins
    <3>q. QED
      BY <3>1, BringsAlike DEF ReleaseInv, EraOK
  <2>2. \A t \in Senders : \A b \in work'[t].to : b.gen = Era
    BY <1>2 DEF ReleaseInv, EraOK
  <2>q. QED
    BY <1>1, <2>1, <2>2 DEF EraOK
<1>4. SentOK'
  <2>o. \A a, event : Offered(a, event)' <=> Offered(a, event)
    BY DEF Offered, EraRests
  <2>1. ASSUME NEW b \in Carried', NEW event \in b.sent PROVE Offered(b, event)
    <3>1. PICK a \in Carried : Tuple(b) = Tuple(a) /\ b.sent \subseteq a.sent
      BY DEF CarriedThins
    <3>q. QED
      BY <3>1, BringsAlike DEF ReleaseInv, SentOK
  <2>2. \A t \in Senders : \A b \in work'[t].to : \A event \in b.sent : Offered(b, event)
    BY <1>2 DEF ReleaseInv, SentOK
  <2>q. QED
    BY <2>o, <2>1, <2>2 DEF SentOK
<1>5. ShapesOK'
  BY DEF WorkRests, ReleaseInv, ShapesOK, ShapeOK
<1>6. ReleaseOK'
  <2>1. SUFFICES ASSUME NEW b \in Owed', NEW m \in cache', Due(b, m)'
                 PROVE  Offered(b, m.event)' \/ \E t \in Senders : Brings(work'[t], b, m)
    BY DEF ReleaseOK
  <2>2. m \in cache /\ b.gen = m.gen /\ b.nonce = client'[b.peer].nonce
        /\ (m.event = "ready" => b.status)
    BY <2>1 DEF EraRests, Due
  <2>3. ASSUME NEW t \in Senders, work'[t].pc = "look", work'[t].peer = b.peer
        PROVE  Brings(work'[t], b, m)
    BY <2>3 DEF Brings
  <2>4. ASSUME NEW a \in Owed, Tuple(b) = Tuple(a), b.status => a.status
        PROVE  Offered(b, m.event)' \/ \E t \in Senders : Brings(work'[t], b, m)
    <3>1. Due(a, m)
      BY <2>2, <2>4, DueBefore
    <3>2. Offered(a, m.event) \/ \E t \in Senders : Brings(work[t], a, m)
      BY <2>2, <3>1 DEF ReleaseInv, ReleaseOK
    <3>3. CASE Offered(a, m.event)
      BY <2>4, <3>3, BringsAlike DEF Offered, EraRests
    <3>4. ASSUME NEW t \in Senders, Brings(work[t], a, m) PROVE Brings(work'[t], b, m)
      <4>1. work[t].pc # "idle"
        BY <3>4 DEF Brings
      <4>2. work'[t] = work[t]
        BY <4>1 DEF WorkRests
      <4>q. QED
        BY <2>4, <3>4, <4>2, BringsAlike
    <3>q. QED
      BY <3>2, <3>3, <3>4
  <2>q. QED
    BY <2>3, <2>4 DEF OwedThins
<1>q. QED
  BY <1>3, <1>4, <1>5, <1>6 DEF ReleaseInv
\* A step that only thins the table and what the control thread carries.
LEMMA ThinRelease ==
    ASSUME TypeInv, TypeInv', TableInv, HoldInv, ReleaseInv, TableThins, CtlThins,
           UNCHANGED work, EraRests, ClientOnward, ApartOK'
    PROVE  ReleaseInv'
<1>1. CarriedThins
  <2>1. SUFFICES ASSUME NEW b \in Carried'
                 PROVE  \E a \in Carried : Tuple(b) = Tuple(a) /\ b.sent \subseteq a.sent
    BY DEF CarriedThins
  <2>2. ASSUME NEW i \in Live', b = attempts'[i]
        PROVE  \E a \in Carried : Tuple(b) = Tuple(a) /\ b.sent \subseteq a.sent
    BY <2>2 DEF TableThins, Carried
  <2>3. ASSUME Requesting', b = ctl'.prev, b.serial # 0
        PROVE  \E a \in Carried : Tuple(b) = Tuple(a) /\ b.sent \subseteq a.sent
    BY <2>3 DEF CtlThins, Carried
  <2>4. ASSUME ctl'.pc = "reserve", b = ctl'.me
        PROVE  \E a \in Carried : Tuple(b) = Tuple(a) /\ b.sent \subseteq a.sent
    BY <2>4 DEF CtlThins, Carried
  <2>q. QED
    BY <2>1, <2>2, <2>3, <2>4 DEF Carried
<1>2. Reserving' /\ StillReserved' => StillReserved /\ ctl.place \in Live'
  <2>1. SUFFICES ASSUME Reserving', StillReserved' PROVE StillReserved /\ ctl.place \in Live'
    OBVIOUS
  <2>2. Reserving /\ ctl'.me = ctl.me /\ ctl'.place = ctl.place
    BY <2>1 DEF CtlThins
  <2>3. ctl.me.serial # 0 /\ ctl.place \in Places
    BY <2>2 DEF Reserving, Requesting, Carrying, TableInv, CarriedOK, TypeInv, CtlOK, CtlRecords
  <2>4. ctl.place \in Live' /\ attempts'[ctl.place].serial = ctl.me.serial
    BY <2>1, <2>2, <2>3 DEF StillReserved, Live
  <2>q. QED
    BY <2>4 DEF TableThins, StillReserved
<1>3. OwedThins
  <2>1. SUFFICES ASSUME NEW b \in Owed'
                 PROVE  \E a \in Owed : Tuple(b) = Tuple(a) /\ (b.status => a.status)
    BY DEF OwedThins
  <2>2. ASSUME NEW i \in Live' \ Unsettled', b = attempts'[i]
        PROVE  \E a \in Owed : Tuple(b) = Tuple(a) /\ (b.status => a.status)
    <3>1. i \in Live /\ attempts'[i].serial = attempts[i].serial
          /\ Tuple(b) = Tuple(attempts[i]) /\ b.status = attempts[i].status
      BY <2>2 DEF TableThins
    <3>2. i \notin Unsettled
      <4>1. SUFFICES ASSUME i \in Unsettled PROVE FALSE
        OBVIOUS
      <4>2. Reserving /\ i = ctl.place /\ StillReserved
        BY <4>1 DEF Unsettled
      <4>3. Reserving' /\ ctl'.me = ctl.me /\ ctl'.place = ctl.place
        BY <4>2 DEF CtlThins
      <4>4. StillReserved'
        BY <3>1, <4>2, <4>3 DEF StillReserved
      <4>q. QED
        BY <2>2, <4>2, <4>3, <4>4 DEF Unsettled
    <3>q. QED
      BY <3>1, <3>2 DEF Owed
  <2>3. ASSUME Requesting', StillReserved', b = ctl'.prev, b.serial # 0, ~b.expired
        PROVE  \E a \in Owed : Tuple(b) = Tuple(a) /\ (b.status => a.status)
    <3>1. /\ Requesting /\ ctl'.prev.serial = ctl.prev.serial /\ Tuple(b) = Tuple(ctl.prev)
          /\ b.status = ctl.prev.status /\ ~ctl.prev.expired
      BY <2>3 DEF CtlThins
    <3>2. StillReserved
      BY <1>2, <2>3 DEF Reserving
    <3>q. QED
      BY <2>3, <3>1, <3>2 DEF Owed
  <2>q. QED
    BY <2>1, <2>2, <2>3 DEF Owed
<1>4. RetryOK'
  <2>1. ASSUME ctl'.pc = "reserve"
        PROVE  \A i \in Live' : attempts'[i].peer = ctl'.me.peer => attempts'[i].nonce <= ctl'.me.nonce
    <3>1. ctl.pc = "reserve" /\ ctl'.me = ctl.me
      BY <2>1 DEF CtlThins
    <3>2. SUFFICES ASSUME NEW i \in Live', attempts'[i].peer = ctl.me.peer
                   PROVE  attempts'[i].nonce <= ctl.me.nonce
      BY <3>1
    <3>3. i \in Live /\ attempts[i].peer = ctl.me.peer /\ attempts'[i].nonce = attempts[i].nonce
      BY <3>2 DEF TableThins, Tuple
    <3>q. QED
      BY <3>1, <3>3 DEF ReleaseInv, RetryOK, Mine
  <2>2. ASSUME Requesting', ctl'.prev.serial # 0, ctl'.prev.peer = ctl'.me.peer
        PROVE  /\ ctl'.prev.nonce <= ctl'.me.nonce
               /\ StillReserved' /\ ctl'.prev.nonce = ctl'.me.nonce /\ ctl'.prev.status =>
                    attempts'[ctl'.place].status
    <3>1. /\ Requesting /\ ctl'.prev.serial = ctl.prev.serial
          /\ ctl'.prev.peer = ctl.prev.peer /\ ctl'.prev.nonce = ctl.prev.nonce
          /\ ctl'.prev.status = ctl.prev.status /\ ctl'.me = ctl.me /\ ctl'.place = ctl.place
      BY <2>2 DEF CtlThins, Tuple, Reserving
    <3>2. StillReserved' => StillReserved /\ attempts'[ctl.place].status = attempts[ctl.place].status
      BY <1>2, <2>2 DEF Reserving, TableThins
    <3>q. QED
      BY <2>2, <3>1, <3>2 DEF ReleaseInv, RetryOK
  <2>q. QED
    BY <2>1, <2>2 DEF RetryOK, Mine
<1>5. WorkRests
  BY DEF WorkRests
<1>q. QED
  BY <1>1, <1>3, <1>4, <1>5, ReleaseRests

LEMMA SameTableThins == UNCHANGED attempts => TableThins
BY DEF TableThins, Live

LEMMA SameCtlThins == UNCHANGED ctl => CtlThins
BY DEF CtlThins, Reserving, Requesting

\* A step of the control thread that does not send.
LEMMA ControlRelease ==
    ASSUME TypeInv, TypeInv', TableInv, HoldInv, ReleaseInv, TableThins, CtlThins,
           ctl.pc # "idle" \/ CtlFree, ctl'.pc \in {"idle", "deliver"} \/ work["ctl"].pc = "idle",
           UNCHANGED <<authority, clear, game, work, cache>>, ClientOnward,
           history'.offered = history.offered
    PROVE  ReleaseInv'
<1>1. clear["ctl"] = "none"
  BY DEF CtlFree, ReleaseInv, ApartOK
<1>2. ApartOK'
  BY <1>1 DEF ReleaseInv, ApartOK
<1>3. EraRests
  BY DEF EraRests
<1>q. QED
  BY <1>2, <1>3, ThinRelease

\* A step of another thread, of a clear, of the members or of time.
LEMMA OtherRelease ==
    ASSUME TypeInv, TypeInv', TableInv, HoldInv, ReleaseInv, TableThins,
           UNCHANGED <<ctl, work>>, UNCHANGED game \/ game'.pc = "idle" \/ GameFree \/ game.pc # "idle",
           authority'.last = authority.last,
           clear'["ctl"] = clear["ctl"]
             \/ (clear["ctl"] \notin {"none", "attempts"} /\ clear'["ctl"] # "attempts"),
           cache' \subseteq cache, history'.offered = history.offered, ClientOnward
    PROVE  ReleaseInv'
<1>1. ApartOK'
  BY DEF GameFree, ReleaseInv, ApartOK
<1>2. EraRests
  BY DEF EraRests
<1>q. QED
  BY <1>1, <1>2, SameCtlThins, ThinRelease
\* The control thread has no reservation to settle, and takes up none.
LEMMA CtlDone ==
    ASSUME ~(Reserving /\ StillReserved),
           ctl'.pc \notin {"reserve", "pin", "install", "respond", "commit", "undo",
                           "dropprev", "dropslots"}
    PROVE  CtlThins
BY DEF CtlThins, Reserving, Requesting

\* It goes on with its reservation.
LEMMA CtlSettles ==
    ASSUME ctl'.me = ctl.me, ctl'.place = ctl.place, ctl'.prev = ctl.prev,
           Reserving, Reserving', Requesting' => Requesting
    PROVE  CtlThins
BY DEF CtlThins, Reserving, Requesting

\* A request asks under the member's nonce and the authority's generation, and
\* has been offered nothing.
LEMMA AskRelease ==
    ASSUME TypeInv, TypeInv', TableInv, HoldInv, ReleaseInv, NEW p \in Peers, Ask(p)
    PROVE  ReleaseInv'
<1>1. /\ ctl'.pc = "reserve" /\ ctl'.me.peer = p /\ ctl'.me.nonce = client[p].nonce
      /\ ctl'.me.gen = authority.gen /\ ctl'.me.sent = {}
      /\ authority.gen # 0 /\ CtlFree
      /\ UNCHANGED <<attempts, clear, authority, cache, game, work, client, history>>
  BY DEF Ask, CtlIdle, NoAttempt
<1>2. authority.gen = Era
  BY <1>1 DEF CtlFree, Era, HoldInv, ClocksOK
<1>3. Era' = Era
  BY <1>1 DEF Era
<1>4. \A b \in Carried' : b \in Carried \/ b = ctl'.me
  BY <1>1 DEF Carried, Requesting, Live
<1>5. EraOK'
  BY <1>1, <1>2, <1>3, <1>4 DEF EraOK, ReleaseInv
<1>6. SentOK'
  BY <1>1, <1>4 DEF SentOK, ReleaseInv, Offered
<1>7. ShapesOK' /\ ApartOK'
  BY <1>1 DEF ShapesOK, ApartOK, ReleaseInv, CtlFree
<1>8. RetryOK'
  <2>1. \A i \in Mine(p) : attempts[i].nonce <= client[p].nonce
    BY DEF Mine, HoldInv, ClocksOK, Timely
  <2>2. ~Requesting'
    BY <1>1 DEF Requesting
  <2>q. QED
    BY <1>1, <2>1, <2>2 DEF RetryOK, Mine, Live
<1>9. Owed' = Owed
  BY <1>1 DEF Owed, Unsettled, Reserving, Requesting, Live, CtlFree
<1>10. ReleaseOK'
  BY <1>1, <1>9 DEF ReleaseOK, ReleaseInv, Due, Offered
<1>q. QED
  BY <1>5, <1>6, <1>7, <1>8, <1>10 DEF ReleaseInv

\* The other steps of a request but its reservation.
LEMMA RequestRelease ==
    ASSUME TypeInv, TypeInv', TableInv, HoldInv, ReleaseInv,
           PinRead \/ PinInstall \/ Respond \/ CommitCheck \/ CommitLost \/ DropPrevPin
           \/ UndoPins
    PROVE  ReleaseInv'
<1>t. /\ ctl \in CtlRecords /\ attempts \in [Places -> AttemptRecords] /\ history \in Histories
      /\ client \in [Peers -> ClientRecords]
  BY DEF TypeInv, CtlOK, AttemptsOK, HistoryOK, SharedOK
<1>a. ctl.pc \notin {"idle", "deliver"} => work["ctl"].pc = "idle"
  BY DEF ReleaseInv, ApartOK
<1>1. ASSUME PinRead PROVE ReleaseInv'
  <2>1. /\ ctl'.me = ctl.me /\ ctl'.prev = ctl.prev /\ ctl'.place = ctl.place
        /\ ctl.pc = "pin" => ctl'.pc \in {"respond", "install", "undo"}
        /\ ctl.pc = "repin" => ctl'.pc \in {"copy", "reinstall", "idle"}
        /\ ctl.pc \in {"pin", "repin"}
    BY <1>1, <1>t DEF PinRead, CtlRecords, Pinned, NotPinned, Pinning
  <2>2. CASE ctl.pc = "pin"
    <3>1. Reserving /\ Requesting /\ Reserving'
      BY <2>1, <2>2 DEF Reserving, Requesting
    <3>q. QED
      BY <1>1, <1>a, <2>1, <2>2, <3>1, CtlSettles, SameTableThins, ClientSame, ControlRelease
         DEF PinRead
  <2>3. CASE ctl.pc = "repin"
    <3>1. CtlThins
      BY <2>1, <2>3, CtlDone DEF Reserving, Requesting
    <3>q. QED
      BY <1>1, <1>a, <2>3, <3>1, SameTableThins, ClientSame, ControlRelease DEF PinRead
  <2>q. QED
    BY <2>1, <2>2, <2>3
<1>2. ASSUME PinInstall PROVE ReleaseInv'
  <2>1. PICK to : to \in {Pinned, NotPinned(ctl.pc)} /\ ctl' = [ctl EXCEPT !.pc = to]
    BY <1>2 DEF PinInstall
  <2>2. /\ ctl.pc = "install" => to \in {"respond", "undo"}
        /\ ctl.pc = "reinstall" => to \in {"copy", "idle"}
        /\ ctl.pc \in {"install", "reinstall"}
    BY <1>2, <2>1 DEF PinInstall, Pinned, NotPinned
  <2>3. ctl'.pc = to /\ ctl'.me = ctl.me /\ ctl'.prev = ctl.prev /\ ctl'.place = ctl.place
    BY <1>t, <2>1 DEF CtlRecords
  <2>4. TableThins
    <3>1. CASE UNCHANGED attempts
      BY <3>1, SameTableThins
    <3>2. ASSUME NEW i \in Unexpired(Current(ctl.me.serial)),
                 attempts' = [attempts EXCEPT ![i].rev = ctl.rev]
          PROVE  TableThins
      <4>1. i \in Live /\ i \in Places /\ attempts[i] \in AttemptRecords
        BY <1>t DEF Unexpired, Current, Live
      <4>2. PICK a : a = [attempts[i] EXCEPT !.rev = ctl.rev]
        OBVIOUS
      <4>3. Tuple(a) = Tuple(attempts[i]) /\ a.status = attempts[i].status
            /\ a.sent = attempts[i].sent /\ a.serial = attempts[i].serial
        BY <4>1, <4>2 DEF AttemptRecords, Tuple
      <4>4. \A j \in Places : attempts'[j] = IF j = i THEN a ELSE attempts[j]
        BY <3>2, <1>t, <4>1, <4>2
      <4>q. QED
        BY <4>1, <4>3, <4>4 DEF TableThins, Live
    <3>q. QED
      BY <1>2, <3>1, <3>2 DEF PinInstall
  <2>5. CtlThins
    <3>1. CASE ctl.pc = "install"
      <4>1. Reserving /\ Requesting /\ Reserving'
        BY <2>2, <2>3, <3>1 DEF Reserving, Requesting
      <4>q. QED
        BY <2>3, <4>1, CtlSettles
    <3>2. CASE ctl.pc = "reinstall"
      BY <2>2, <2>3, <3>2, CtlDone DEF Reserving, Requesting
    <3>q. QED
      BY <2>2, <3>1, <3>2
  <2>q. QED
    BY <1>2, <1>a, <2>2, <2>4, <2>5, ClientSame, ControlRelease DEF PinInstall
<1>3. ASSUME Respond PROVE ReleaseInv'
  <2>1. /\ ctl.pc = "respond" /\ ctl'.pc \in {"commit", "undo"}
        /\ ctl'.me = ctl.me /\ ctl'.prev = ctl.prev /\ ctl'.place = ctl.place
    BY <1>3, <1>t DEF Respond, CtlRecords
  <2>2. CtlThins
    <3>1. Reserving /\ Requesting /\ Reserving'
      BY <2>1 DEF Reserving, Requesting
    <3>q. QED
      BY <2>1, <3>1, CtlSettles
  <2>3. ClientOnward
    BY <1>3, <1>t DEF Respond, ClientOnward, ClientRecords
  <2>q. QED
    BY <1>3, <1>a, <2>1, <2>2, <2>3, SameTableThins, ControlRelease DEF Respond
<1>4. ASSUME CommitCheck PROVE ReleaseInv'
  <2>1. /\ ctl.pc = "commit" /\ ctl'.pc = (IF StillReserved THEN "dropprev" ELSE "lost")
        /\ ctl'.me = ctl.me /\ ctl'.prev = ctl.prev /\ ctl'.place = ctl.place
    BY <1>4, <1>t DEF CommitCheck, CtlRecords
  <2>2. CtlThins
    <3>1. CASE StillReserved
      <4>1. Reserving /\ Requesting /\ Reserving'
        BY <2>1, <3>1 DEF Reserving, Requesting
      <4>q. QED
        BY <2>1, <4>1, CtlSettles
    <3>2. CASE ~StillReserved
      BY <2>1, <3>2, CtlDone
    <3>q. QED
      BY <3>1, <3>2
  <2>q. QED
    BY <1>4, <1>a, <2>1, <2>2, SameTableThins, ClientSame, ControlRelease DEF CommitCheck
<1>5. ASSUME CommitLost PROVE ReleaseInv'
  <2>1. ctl.pc = "lost" /\ ctl'.pc = "idle" /\ history'.offered = history.offered
    BY <1>5, <1>t DEF CommitLost, CtlIdle, Histories
  <2>2. CtlThins
    BY <2>1, CtlDone DEF Reserving, Requesting
  <2>q. QED
    BY <1>5, <2>1, <2>2, SameTableThins, ClientSame, ControlRelease DEF CommitLost
<1>6. ASSUME DropPrevPin PROVE ReleaseInv'
  <2>1. /\ ctl.pc = "dropprev" /\ ctl'.pc = "dropslots"
        /\ ctl'.me = ctl.me /\ ctl'.prev = ctl.prev /\ ctl'.place = ctl.place
    BY <1>6, <1>t DEF DropPrevPin, CtlRecords
  <2>2. CtlThins
    <3>1. Reserving /\ ~Requesting' /\ Reserving'
      BY <2>1 DEF Reserving, Requesting
    <3>q. QED
      BY <2>1, <3>1, CtlSettles
  <2>q. QED
    BY <1>6, <1>a, <2>1, <2>2, SameTableThins, ClientSame, ControlRelease DEF DropPrevPin
<1>7. ASSUME UndoPins PROVE ReleaseInv'
  <2>1. ctl.pc = "undopins" /\ ctl'.pc = "idle"
    BY <1>7 DEF UndoPins, CtlIdle
  <2>2. CtlThins
    BY <2>1, CtlDone DEF Reserving, Requesting
  <2>q. QED
    BY <1>7, <2>1, <2>2, SameTableThins, ClientSame, ControlRelease DEF UndoPins
<1>q. QED
  BY <1>1, <1>2, <1>3, <1>4, <1>5, <1>6, <1>7

\* Deliveries, expiries, and the status up to the mark.
LEMMA UpkeepRelease ==
    ASSUME TypeInv, TypeInv', TableInv, HoldInv, ReleaseInv,
           \/ DeliverStep \/ ExpireStep \/ StoreStatus \/ TakeSlot
           \/ \E p \in Peers : StatusArrives(p) \/ Consume(p)
    PROVE  ReleaseInv'
<1>t. /\ ctl \in CtlRecords /\ attempts \in [Places -> AttemptRecords] /\ history \in Histories
      /\ client \in [Peers -> ClientRecords]
  BY DEF TypeInv, CtlOK, AttemptsOK, HistoryOK, SharedOK
<1>a. ctl.pc \notin {"idle", "deliver"} => work["ctl"].pc = "idle"
  BY DEF ReleaseInv, ApartOK
<1>f. CtlFree => ~Reserving /\ work["ctl"].pc = "idle"
  BY DEF CtlFree, Reserving, Requesting
<1>1. ASSUME Deliver PROVE ReleaseInv'
  <2>1. ctl.pc = "deliver" /\ ctl'.pc = "repin" /\ work["ctl"].pc = "idle"
    BY <1>1, <1>t DEF Deliver, CtlRecords
  <2>2. CtlThins
    BY <2>1, CtlDone DEF Reserving, Requesting
  <2>q. QED
    BY <1>1, <2>1, <2>2, SameTableThins, ClientSame, ControlRelease DEF Deliver
<1>2. ASSUME NEW i \in Places, Redeliver(i) PROVE ReleaseInv'
  <2>1. CtlFree /\ ctl'.pc = "repin"
    BY <1>2 DEF Redeliver, CtlIdle
  <2>2. CtlThins
    BY <1>f, <2>1, CtlDone
  <2>q. QED
    BY <1>2, <1>f, <2>1, <2>2, SameTableThins, ClientSame, ControlRelease DEF Redeliver
<1>3. ASSUME CopyPinned PROVE ReleaseInv'
  <2>1. ctl.pc = "copy" /\ ctl'.pc = "idle" /\ history'.offered = history.offered
    BY <1>3, <1>t DEF CopyPinned, CtlIdle, Histories
  <2>2. CtlThins
    BY <2>1, CtlDone DEF Reserving, Requesting
  <2>q. QED
    BY <1>3, <2>1, <2>2, SameTableThins, ClientSame, ControlRelease DEF CopyPinned
<1>4. ASSUME ExpireAttempts PROVE ReleaseInv'
  <2>1. PICK late \in SUBSET AttemptRecords :
          late = {attempts[i] : i \in {j \in Live : attempts[j].expired}}
    BY <1>t DEF Live
  <2>2. /\ CtlFree /\ ctl'.pc = "xpins"
        /\ attempts' = [i \in Places |-> IF attempts[i] \in late THEN NoAttempt
                                         ELSE attempts[i]]
        /\ history' = Over(late)
    BY <1>4, <2>1 DEF ExpireAttempts, CtlIdle
  <2>3. TableThins
    BY <2>2, Defaults DEF TableThins, Live
  <2>4. history'.offered = history.offered
    BY <2>2, OverFacts DEF TypeInv
  <2>5. CtlThins
    BY <1>f, <2>2, CtlDone
  <2>q. QED
    BY <1>4, <1>f, <2>2, <2>3, <2>4, <2>5, ClientSame, ControlRelease DEF ExpireAttempts
<1>5. ASSUME ExpirePins PROVE ReleaseInv'
  <2>1. ctl.pc = "xpins" /\ ctl'.pc = "xslots"
    BY <1>5, <1>t DEF ExpirePins, CtlRecords
  <2>2. CtlThins
    BY <2>1, CtlDone DEF Reserving, Requesting
  <2>q. QED
    BY <1>5, <1>a, <2>1, <2>2, SameTableThins, ClientSame, ControlRelease DEF ExpirePins
<1>6. ASSUME ExpireSlots PROVE ReleaseInv'
  <2>1. ctl.pc = "xslots" /\ ctl'.pc = "idle"
    BY <1>6 DEF ExpireSlots, CtlIdle
  <2>2. CtlThins
    BY <2>1, CtlDone DEF Reserving, Requesting
  <2>q. QED
    BY <1>6, <2>1, <2>2, SameTableThins, ClientSame, ControlRelease DEF ExpireSlots
<1>7. ASSUME NEW p \in Peers, StatusArrives(p) PROVE ReleaseInv'
  <2>1. CtlFree /\ ctl'.pc \in {"idle", "store"}
    BY <1>7 DEF StatusArrives, CtlIdle, CtlFree
  <2>2. CtlThins
    BY <1>f, <2>1, CtlDone
  <2>3. ClientOnward
    BY <1>7, <1>t DEF StatusArrives, ClientOnward, ClientRecords
  <2>q. QED
    BY <1>7, <1>f, <2>1, <2>2, <2>3, SameTableThins, ControlRelease DEF StatusArrives
<1>8. ASSUME StoreStatus PROVE ReleaseInv'
  <2>1. ctl.pc = "store" /\ ctl'.pc = "idle"
    BY <1>8 DEF StoreStatus, CtlIdle
  <2>2. CtlThins
    BY <2>1, CtlDone DEF Reserving, Requesting
  <2>q. QED
    BY <1>8, <2>1, <2>2, SameTableThins, ClientSame, ControlRelease DEF StoreStatus
<1>9. ASSUME NEW p \in Peers, Consume(p) PROVE ReleaseInv'
  BY <1>9, SameTableThins, ClientSame, OtherRelease DEF Consume
<1>10. ASSUME TakeSlot PROVE ReleaseInv'
  <2>1. history'.offered = history.offered /\ game.pc # "idle"
    BY <1>10, <1>t DEF TakeSlot, Histories
  <2>q. QED
    BY <1>10, <2>1, SameTableThins, ClientSame, OtherRelease DEF TakeSlot
<1>q. QED
  BY <1>1, <1>2, <1>3, <1>4, <1>5, <1>6, <1>7, <1>8, <1>9, <1>10 DEF DeliverStep, ExpireStep
\* A new generation: the attempts and copies of the old one stay, until the
\* table is cleared for it.
LEMMA CommitRelease ==
    ASSUME TypeInv, TypeInv', TableInv, HoldInv, ReleaseInv, CommitAuthority
    PROVE  ReleaseInv'
<1>1. /\ CtlFree /\ authority'.last = authority.last + 1
      /\ UNCHANGED <<attempts, cache, ctl, game, work, client, history>>
      /\ clear'["ctl"] = "attempts"
  BY DEF CommitAuthority, TypeInv, ThreadsOK, Threads
<1>2. authority.last \in Nat /\ clear["ctl"] = "none"
  BY <1>1, Numbers DEF CtlFree
<1>3. Era' = Era /\ authority'.last # 0
  BY <1>1, <1>2 DEF Era
<1>4. Carried' = Carried /\ Owed' = Owed
  BY <1>1 DEF Carried, Owed, Unsettled, Live, Requesting, Reserving, StillReserved
<1>5. EraOK'
  BY <1>1, <1>3, <1>4 DEF EraOK, ReleaseInv
<1>6. SentOK' /\ ShapesOK'
  BY <1>1, <1>4 DEF SentOK, ShapesOK, ReleaseInv, Offered
<1>7. ApartOK'
  BY <1>1 DEF ApartOK, ReleaseInv, CtlFree
<1>8. RetryOK'
  BY <1>1 DEF RetryOK, ReleaseInv, Mine, Live, Requesting, StillReserved
<1>9. ReleaseOK'
  BY <1>1, <1>4 DEF ReleaseOK, ReleaseInv, Due, Offered
<1>q. QED
  BY <1>5, <1>6, <1>7, <1>8, <1>9 DEF ReleaseInv

\* The table is cleared for it, and no thread has copies of the old one.
LEMMA EraRelease ==
    ASSUME TypeInv, TypeInv', TableInv, HoldInv, ReleaseInv, ClearAttempts("ctl"), CalmStep
    PROVE  ReleaseInv'
<1>1. /\ clear["ctl"] = "attempts" /\ clear'["ctl"] = "slots"
      /\ \A i \in Places : attempts'[i] = NoAttempt
      /\ UNCHANGED <<cache, ctl, game, work, client>>
  BY DEF ClearAttempts, TypeInv, ThreadsOK, Threads
<1>2. ctl.pc = "idle" /\ work["ctl"].pc = "idle" /\ work["game"].to = {}
  BY <1>1 DEF ReleaseInv, ApartOK, CalmStep
<1>3. \A t \in Senders : work[t].to = {}
  BY <1>2 DEF ReleaseInv, ShapesOK, ShapeOK, Senders
<1>4. Live' = {}
  BY <1>1, Defaults DEF Live
<1>5. Carried' = {} /\ Owed' = {}
  BY <1>1, <1>2, <1>4 DEF Carried, Owed, Requesting
<1>6. EraOK' /\ SentOK'
  BY <1>1, <1>3, <1>5 DEF EraOK, SentOK
<1>7. ShapesOK' /\ ApartOK'
  BY <1>1, <1>2 DEF ShapesOK, ApartOK, ReleaseInv
<1>8. RetryOK'
  BY <1>1, <1>2 DEF RetryOK, Requesting
<1>9. ReleaseOK'
  BY <1>5 DEF ReleaseOK
<1>q. QED
  BY <1>6, <1>7, <1>8, <1>9 DEF ReleaseInv

\* The other clears, peer losses, time and members.
LEMMA WorldRelease ==
    ASSUME TypeInv, TypeInv', TableInv, HoldInv, ReleaseInv, CalmStep,
           ClearStep \/ LoseStep \/ WorldStep
    PROVE  ReleaseInv'
<1>t. /\ ctl \in CtlRecords /\ attempts \in [Places -> AttemptRecords] /\ history \in Histories
      /\ client \in [Peers -> ClientRecords] /\ clear \in [Threads -> ClearSteps]
      /\ authority \in AuthorityRecords
  BY DEF TypeInv, CtlOK, AttemptsOK, HistoryOK, SharedOK, ThreadsOK
<1>1. ASSUME RetireAuthority PROVE ReleaseInv'
  <2>1. authority'.last = authority.last /\ clear'["ctl"] = clear["ctl"]
    BY <1>1, <1>t DEF RetireAuthority, AuthorityRecords
  <2>q. QED
    BY <1>1, <2>1, SameTableThins, ClientSame, OtherRelease DEF RetireAuthority
<1>2. ASSUME ResetPeers PROVE ReleaseInv'
  <2>1. clear'["ctl"] = clear["ctl"]
    BY <1>2, <1>t DEF ResetPeers
  <2>q. QED
    BY <1>2, <2>1, SameTableThins, ClientSame, OtherRelease DEF ResetPeers
<1>3. ASSUME NEW t \in Threads, ClearAttempts(t), t # "ctl" PROVE ReleaseInv'
  <2>1. TableThins
    BY <1>3, Defaults DEF ClearAttempts, TableThins, Live
  <2>2. history'.offered = history.offered /\ clear'["ctl"] = clear["ctl"]
    BY <1>3, <1>t DEF ClearAttempts, Histories
  <2>q. QED
    BY <1>3, <2>1, <2>2, ClientSame, OtherRelease DEF ClearAttempts
<1>4. ASSUME NEW t \in Threads, ClearSlots(t) \/ ClearCache(t) \/ ClearPins(t)
      PROVE  ReleaseInv'
  <2>1. /\ clear[t] \in {"slots", "cache", "pins"} /\ clear'[t] \in {"cache", "pins", "none"}
        /\ t # "ctl" => clear'["ctl"] = clear["ctl"]
    BY <1>4, <1>t DEF ClearSlots, ClearCache, ClearPins, Threads
  <2>2. \/ clear'["ctl"] = clear["ctl"]
        \/ clear["ctl"] \notin {"none", "attempts"} /\ clear'["ctl"] # "attempts"
    BY <2>1
  <2>3. /\ UNCHANGED <<attempts, ctl, work, game, authority, client, history>>
        /\ cache' \subseteq cache
    BY <1>4 DEF ClearSlots, ClearCache, ClearPins
  <2>q. QED
    BY <2>2, <2>3, SameTableThins, ClientSame, OtherRelease
<1>5. ASSUME NEW p, Losing(p) PROVE ReleaseInv'
  <2>1. TableThins
    BY <1>5, Defaults DEF Losing, TableThins, Live
  <2>2. history'.offered = history.offered
    BY <1>5, <1>t DEF Losing, Histories
  <2>q. QED
    BY <1>5, <2>1, <2>2, ClientSame, OtherRelease DEF Losing
<1>6. ASSUME LosePeerSlots \/ LosePeerPins PROVE ReleaseInv'
  BY <1>6, SameTableThins, ClientSame, OtherRelease DEF LosePeerSlots, LosePeerPins
<1>7. ASSUME NEW s \in 1..MaxSerial, Elapse(s) PROVE ReleaseInv'
  <2>1. TableThins
    <3> DEFINE f(i) == [attempts[i] EXCEPT !.expired = TRUE]
    <3>1. \A i \in Places : Tuple(f(i)) = Tuple(attempts[i]) /\ f(i).serial = attempts[i].serial
                            /\ f(i).status = attempts[i].status /\ f(i).sent = attempts[i].sent
      BY <1>t DEF AttemptRecords, Tuple
    <3>2. \A i \in Places : attempts'[i] \in {f(i), attempts[i]}
      BY <1>7 DEF Elapse
    <3> HIDE DEF f
    <3>q. QED
      BY <3>1, <3>2 DEF TableThins, Live
  <2>2. PICK b : b = [ctl.prev EXCEPT !.expired = TRUE]
    OBVIOUS
  <2>3. b.serial = ctl.prev.serial /\ Tuple(b) = Tuple(ctl.prev) /\ b.status = ctl.prev.status
        /\ b.sent = ctl.prev.sent /\ b.expired
    BY <1>t, <2>2 DEF CtlRecords, AttemptRecords, Tuple
  <2>4. ctl' = ctl \/ ctl' = [ctl EXCEPT !.prev = b]
    BY <1>7, <1>t, <2>2 DEF Elapse, CtlRecords
  <2>5. ctl'.pc = ctl.pc /\ ctl'.me = ctl.me /\ ctl'.place = ctl.place
        /\ (ctl'.prev = b \/ ctl'.prev = ctl.prev)
    BY <1>t, <2>4 DEF CtlRecords
  <2>6. CtlThins
    BY <2>3, <2>5 DEF CtlThins, Reserving, Requesting
  <2>7. ApartOK'
    BY <1>7, <2>5 DEF Elapse, ReleaseInv, ApartOK
  <2>8. EraRests
    BY <1>7 DEF Elapse, EraRests
  <2>q. QED
    BY <1>7, <2>1, <2>6, <2>7, <2>8, ClientSame, ThinRelease DEF Elapse
<1>8. ASSUME NEW p \in Peers, FreshNonce(p) PROVE ReleaseInv'
  <2>1. ClientOnward
    <3>1. client'[p].nonce = client[p].nonce + 1
          /\ \A q \in Peers : q # p => client'[q] = client[q]
      BY <1>8, <1>t DEF FreshNonce
    <3>q. QED
      BY <3>1, Numbers DEF ClientOnward
  <2>q. QED
    BY <1>8, <2>1, SameTableThins, OtherRelease DEF FreshNonce
<1>9. ASSUME NEW p \in Peers, Publish(p) PROVE ReleaseInv'
  BY <1>9, SameTableThins, ClientSame, OtherRelease DEF Publish
<1>10. ASSUME WorldChanges PROVE ReleaseInv'
  <2>1. authority'.last = authority.last
    BY <1>10, <1>t DEF WorldChanges, AuthorityRecords
  <2>q. QED
    BY <1>10, <2>1, SameTableThins, ClientSame, OtherRelease DEF WorldChanges
<1>11. ClearStep => ReleaseInv'
  BY <1>1, <1>2, <1>3, <1>4, CommitRelease, EraRelease DEF ClearStep
<1>12. LoseStep => ReleaseInv'
  BY <1>5, <1>6 DEF LoseStep, LosePeer, LoseNext
<1>13. WorldStep => ReleaseInv'
  BY <1>7, <1>8, <1>9, <1>10 DEF WorldStep
<1>q. QED
  BY <1>11, <1>12, <1>13
\* A reservation keeps what its attempt has been offered, and what it replaces
\* is still owed what it was owed.
LEMMA ReserveRelease ==
    ASSUME TypeInv, TypeInv', TableInv, HoldInv, ReleaseInv, Reserve
    PROVE  ReleaseInv'
<1>t. /\ AttemptsOK /\ CtlOK /\ HistoryOK /\ attempts \in [Places -> AttemptRecords]
      /\ ctl.me.peer \in Peers /\ ctl.me \in AttemptRecords
      /\ ctl.pc = "reserve" /\ UNCHANGED <<client, cache, authority, clear, game, work>>
  BY DEF TypeInv, AttemptsOK, CtlOK, CtlRecords, Reserve
<1>w. work["ctl"].pc = "idle" /\ clear["ctl"] = "none"
  BY <1>t DEF ReleaseInv, ApartOK
<1>1. CASE Mine(ctl.me.peer) \cup Usable = {}
  <2>1. ctl' = CtlIdle /\ UNCHANGED <<attempts, history>> /\ ctl'.pc = "idle"
    BY <1>1 DEF Reserve, CtlIdle
  <2>2. CtlThins
    BY <1>t, <2>1, CtlDone DEF Reserving, Requesting
  <2>q. QED
    BY <1>t, <2>1, <2>2, SameTableThins, ClientSame, ControlRelease
<1>2. CASE Mine(ctl.me.peer) \cup Usable # {}
  <2>1. PICK i \in Places, new \in AttemptRecords :
          i = PlaceFor(ctl.me.peer) /\ new = [ctl.me EXCEPT !.serial = counter + 1]
    <3>1. PlaceFor(ctl.me.peer) \in Places
      BY <1>t, <1>2, PlaceFacts
    <3>2. counter + 1 \in Serials
      BY <1>t, BoundsAssumption DEF CtlOK, HistoryOK, Serials
    <3>3. [ctl.me EXCEPT !.serial = counter + 1] \in AttemptRecords
      BY <1>t, <3>2 DEF AttemptRecords
    <3>q. QED
      BY <3>1, <3>3
  <2>2. PICK next : next = Inherit(attempts[i], new)
    OBVIOUS
  <2>3. attempts[i] \in AttemptRecords
    BY <1>t, <2>1
  <2>4. Tuple(new) = Tuple(ctl.me) /\ new.sent = ctl.me.sent
    BY <1>t, <2>1 DEF AttemptRecords, Tuple
  <2>5. Tuple(next) = Tuple(ctl.me)
    BY <2>1, <2>2, <2>3, <2>4, InheritFacts
  <2>6. \/ next.sent = ctl.me.sent
        \/ /\ attempts[i].serial # 0 /\ Tuple(attempts[i]) = Tuple(next)
           /\ next.sent = attempts[i].sent
    <3>1. CASE SameTuple(attempts[i], new)
      <4>1. PICK r : r = [new EXCEPT !.status = attempts[i].status, !.sent = attempts[i].sent,
                                     !.rev = attempts[i].rev]
        OBVIOUS
      <4>2. next = r
        BY <2>2, <3>1, <4>1 DEF Inherit
      <4>3. next.sent = attempts[i].sent
        BY <2>1, <4>1, <4>2 DEF AttemptRecords
      <4>q. QED
        BY <2>4, <2>5, <3>1, <4>3 DEF SameTuple
    <3>2. CASE ~SameTuple(attempts[i], new)
      <4>1. next = new
        BY <2>1, <2>2, <2>3, <3>2, InheritFacts
      <4>q. QED
        BY <2>4, <4>1
    <3>q. QED
      BY <3>1, <3>2
  <2>7. PICK ended \in SUBSET AttemptRecords :
          ended = {attempts[i]} \ {attempts[j] : j \in Mine(ctl.me.peer)}
    BY <2>3
  <2>8. /\ attempts' = [attempts EXCEPT ![i] = next]
        /\ ctl' = [CtlIdle EXCEPT !.pc = "pin", !.place = i, !.me = next,
                                  !.prev = attempts[i]]
        /\ history' = Over(ended)
    BY <1>2, <2>1, <2>2, <2>7 DEF Reserve
  <2>9. ctl'.pc = "pin" /\ ctl'.prev = attempts[i] /\ ctl'.me = next /\ ctl'.place = i
    BY <2>8 DEF CtlIdle
  <2>10. \A j \in Places : attempts'[j] = IF j = i THEN next ELSE attempts[j]
    BY <1>t, <2>8
  <2>11. attempts[i].serial # 0 => i \in Live /\ attempts[i] \in Carried
    BY <2>1 DEF Carried, Live
  <2>12. CarriedThins
    <3>1. SUFFICES ASSUME NEW b \in Carried'
                   PROVE  \E a \in Carried : Tuple(b) = Tuple(a) /\ b.sent \subseteq a.sent
      BY DEF CarriedThins
    <3>2. \/ \E j \in Live' : b = attempts'[j]
          \/ b = attempts[i] /\ b.serial # 0
      BY <2>9 DEF Carried
    <3>3. ctl.me \in Carried
      BY <1>t DEF Carried
    <3>4. ASSUME NEW j \in Live', b = attempts'[j], j # i
          PROVE  b \in Carried
      BY <2>10, <3>4 DEF Carried, Live
    <3>5. CASE b = next
      BY <2>5, <2>6, <2>11, <3>3, <3>5
    <3>6. ASSUME NEW j \in Live', b = attempts'[j], j = i
          PROVE  b = next
      BY <2>10, <3>6 DEF Live
    <3>q. QED
      BY <2>11, <3>2, <3>4, <3>5, <3>6
  <2>13. OwedThins
    <3>1. SUFFICES ASSUME NEW b \in Owed' PROVE b \in Owed
      BY DEF OwedThins
    <3>2. Unsettled = {}
      BY <1>t DEF Unsettled, Reserving, Requesting
    <3>3. ASSUME NEW j \in Live' \ Unsettled', b = attempts'[j] PROVE b \in Owed
      <4>1. j # i
        <5>1. SUFFICES ASSUME j = i PROVE FALSE
          OBVIOUS
        <5>2. Reserving' /\ StillReserved'
          BY <2>1, <2>9, <2>10 DEF Reserving, Requesting, StillReserved
        <5>q. QED
          BY <2>9, <3>3, <5>1, <5>2 DEF Unsettled
      <4>2. j \in Live /\ b = attempts[j]
        BY <2>10, <3>3, <4>1 DEF Live
      <4>q. QED
        BY <3>2, <4>2 DEF Owed
    <3>4. ASSUME b = attempts[i], b.serial # 0 PROVE b \in Owed
      BY <2>11, <3>2, <3>4 DEF Owed
    <3>q. QED
      BY <2>9, <3>1, <3>3, <3>4 DEF Owed
  <2>14. RetryOK'
    <3>1. ASSUME attempts[i].serial # 0, attempts[i].peer = next.peer
          PROVE  /\ attempts[i].nonce <= next.nonce
                 /\ attempts[i].nonce = next.nonce /\ attempts[i].status => next.status
      <4>1. next.peer = ctl.me.peer /\ next.nonce = ctl.me.nonce
            /\ new.peer = ctl.me.peer /\ new.nonce = ctl.me.nonce /\ new.gen = ctl.me.gen
        BY <2>4, <2>5 DEF Tuple
      <4>2. i \in Mine(ctl.me.peer)
        BY <2>11, <3>1, <4>1 DEF Mine
      <4>3. attempts[i].nonce <= next.nonce
        BY <1>t, <4>1, <4>2 DEF ReleaseInv, RetryOK
      <4>4. ASSUME attempts[i].nonce = next.nonce, attempts[i].status PROVE next.status
        <5>1. attempts[i].gen = Era /\ ctl.me.gen = Era
          BY <1>t, <2>11, <3>1 DEF ReleaseInv, EraOK, Carried
        <5>2. SameTuple(attempts[i], new)
          BY <3>1, <4>1, <4>4, <5>1 DEF SameTuple, Tuple
        <5>q. QED
          BY <2>1, <2>2, <2>3, <4>4, <5>2, InheritFacts
      <4>q. QED
        BY <4>3, <4>4
    <3>2. attempts'[i] = next
      BY <2>1, <2>10
    <3>q. QED
      BY <2>9, <3>1, <3>2 DEF RetryOK
  <2>15. history'.offered = history.offered
    BY <1>t, <2>8, OverFacts
  <2>16. WorkRests /\ EraRests /\ ApartOK'
    BY <1>t, <1>w, <2>15 DEF WorkRests, EraRests, ReleaseInv, ApartOK
  <2>q. QED
    BY <1>t, <2>12, <2>13, <2>14, <2>16, ClientSame, ReleaseRests
<1>q. QED
  BY <1>1, <1>2

\* A rollback puts back what was owed all along.
LEMMA UndoRelease ==
    ASSUME TypeInv, TypeInv', TableInv, HoldInv, ReleaseInv, Undo
    PROVE  ReleaseInv'
<1>t. /\ ctl \in CtlRecords /\ attempts \in [Places -> AttemptRecords] /\ HistoryOK
      /\ ctl.pc = "undo" /\ UNCHANGED <<client, cache, authority, clear, game, work>>
  BY DEF TypeInv, CtlOK, AttemptsOK, Undo
<1>w. work["ctl"].pc = "idle" /\ clear["ctl"] = "none"
  BY <1>t DEF ReleaseInv, ApartOK
<1>1. PICK back \in AttemptRecords, ended \in SUBSET AttemptRecords :
        back = Restored(ctl.prev) /\ ended = {ctl.prev} \ {back}
  BY <1>t, Defaults DEF Restored, CtlRecords
<1>2. back.serial # 0 => back = ctl.prev /\ ~ctl.prev.expired
  BY <1>1, Defaults DEF Restored
<1>3. history'.offered = history.offered
  <2>1. history' = Over(ended)
    BY <1>1 DEF Undo
  <2>q. QED
    BY <1>t, <1>1, <2>1, OverFacts
<1>4. ctl'.pc = "undopins" /\ Requesting
  BY <1>t DEF Undo, CtlRecords, Requesting
<1>5. ~Requesting' /\ ~Reserving'
  BY <1>4 DEF Requesting, Reserving
<1>6. \A j \in Live' :
        \/ j \in Live /\ attempts'[j] = attempts[j] /\ j \notin Unsettled
        \/ attempts'[j] = ctl.prev /\ ctl.prev.serial # 0 /\ ~ctl.prev.expired /\ StillReserved
  <2>1. CASE StillReserved
    <3>1. attempts' = [attempts EXCEPT ![ctl.place] = back]
      BY <1>1, <2>1 DEF Undo
    <3>2. \A j \in Places : attempts'[j] = IF j = ctl.place THEN back ELSE attempts[j]
      BY <1>t, <3>1
    <3>q. QED
      BY <1>2, <2>1, <3>2 DEF Live, Unsettled
  <2>2. CASE ~StillReserved
    BY <2>2 DEF Undo, Live, Unsettled
  <2>q. QED
    BY <2>1, <2>2
<1>7. CarriedThins
  <2>1. Carried' \subseteq Carried
    BY <1>4, <1>5, <1>6 DEF Carried
  <2>q. QED
    BY <2>1 DEF CarriedThins
<1>8. OwedThins
  <2>1. Owed' \subseteq Owed
    BY <1>4, <1>5, <1>6 DEF Owed
  <2>q. QED
    BY <2>1 DEF OwedThins
<1>9. RetryOK'
  BY <1>4, <1>5 DEF RetryOK
<1>10. WorkRests /\ EraRests /\ ApartOK'
  BY <1>t, <1>w, <1>3 DEF WorkRests, EraRests, ReleaseInv, ApartOK
<1>q. QED
  BY <1>t, <1>7, <1>8, <1>9, <1>10, ClientSame, ReleaseRests

\* A settled reservation is about to be looked up by the replay that follows.
LEMMA SettleRelease ==
    ASSUME TypeInv, TypeInv', TableInv, HoldInv, ReleaseInv, DropOldSlots
    PROVE  ReleaseInv'
<1>t. /\ ctl \in CtlRecords /\ work \in [Senders -> WorkRecords] /\ ctl.pc = "dropslots"
      /\ UNCHANGED <<attempts, client, cache, authority, clear, game, history>>
      /\ work' = [work EXCEPT !["ctl"] = Replay(ctl.me.peer)]
  BY DEF TypeInv, CtlOK, ThreadsOK, DropOldSlots
<1>w. work["ctl"].pc = "idle" /\ clear["ctl"] = "none"
  BY <1>t DEF ReleaseInv, ApartOK
<1>1. ctl'.pc = "deliver" /\ ctl'.me = ctl.me
  BY <1>t DEF DropOldSlots, CtlRecords
<1>2. ~Requesting /\ ~Requesting' /\ ~Reserving'
  BY <1>t, <1>1 DEF Requesting, Reserving
<1>3. /\ work'["ctl"].pc = "look" /\ work'["ctl"].peer = ctl.me.peer /\ work'["ctl"].to = {}
      /\ work'["ctl"].load = {} /\ \A t \in Senders : t # "ctl" => work'[t] = work[t]
  BY <1>t DEF Replay, WorkIdle, Senders
<1>4. WorkRests
  BY <1>w, <1>3 DEF WorkRests
<1>5. CarriedThins
  BY <1>t, <1>1, <1>2 DEF CarriedThins, Carried, Live
<1>6. OwedThins
  <2>1. SUFFICES ASSUME NEW b \in Owed'
                 PROVE  b \in Owed \/ work'["ctl"].peer = b.peer
    BY <1>3 DEF OwedThins, Senders
  <2>2. PICK i \in Live : b = attempts[i]
    BY <1>t, <1>2 DEF Owed, Live
  <2>3. CASE i \in Unsettled
    <3>1. attempts[i].serial = ctl.me.serial
      BY <2>3 DEF Unsettled, StillReserved
    <3>2. Tuple(attempts[i]) = Tuple(ctl.me)
      BY <3>1 DEF TableInv, CarriedOK
    <3>q. QED
      BY <1>3, <2>2, <3>2 DEF Tuple
  <2>4. CASE i \notin Unsettled
    BY <2>2, <2>4 DEF Owed
  <2>q. QED
    BY <2>3, <2>4
<1>7. RetryOK'
  BY <1>1, <1>2 DEF RetryOK
<1>8. EraRests /\ ApartOK'
  BY <1>t, <1>w, <1>1, <1>3 DEF EraRests, ReleaseInv, ApartOK, Senders
<1>q. QED
  BY <1>t, <1>4, <1>5, <1>6, <1>7, <1>8, ClientSame, ReleaseRests

\* A status that is marked is followed by a replay for its member.
LEMMA MarkRelease ==
    ASSUME TypeInv, TypeInv', TableInv, HoldInv, ReleaseInv, MarkStatus
    PROVE  ReleaseInv'
<1>t. /\ work \in [Senders -> WorkRecords] /\ game.pc = "mark"
      /\ UNCHANGED <<ctl, client, cache, authority, clear, history>>
      /\ work' = [work EXCEPT !["game"] = Replay(game.peer)]
      /\ attempts \in [Places -> AttemptRecords]
  BY DEF TypeInv, AttemptsOK, ThreadsOK, MarkStatus
<1>w. work["game"].pc = "idle"
  BY <1>t DEF ReleaseInv, ApartOK
<1>g. game'.pc = "idle"
  BY DEF MarkStatus, GameIdle
<1>3. /\ work'["game"].pc = "look" /\ work'["game"].peer = game.peer /\ work'["game"].to = {}
      /\ work'["game"].load = {} /\ \A t \in Senders : t # "game" => work'[t] = work[t]
  BY <1>t DEF Replay, WorkIdle, Senders
<1>4. WorkRests
  BY <1>w, <1>3 DEF WorkRests
<1> DEFINE f(i) == [attempts[i] EXCEPT !.status = TRUE, !.expired = FALSE]
<1>5. \A i \in Places : /\ Tuple(f(i)) = Tuple(attempts[i]) /\ f(i).serial = attempts[i].serial
                        /\ f(i).sent = attempts[i].sent /\ f(i).status = TRUE
  BY <1>t DEF AttemptRecords, Tuple
<1>6. \A i \in Places : attempts'[i] = IF i \in Marked(game.peer, game.nonce) THEN f(i)
                                       ELSE attempts[i]
  BY DEF MarkStatus
<1> HIDE DEF f
<1>7. \A i \in Places : /\ Tuple(attempts'[i]) = Tuple(attempts[i])
                        /\ attempts'[i].serial = attempts[i].serial
                        /\ attempts'[i].sent = attempts[i].sent
                        /\ attempts[i].status => attempts'[i].status
                        /\ attempts[i].peer # game.peer => attempts'[i] = attempts[i]
  BY <1>5, <1>6 DEF Marked, Mine
<1>8. Live' = Live
  BY <1>7 DEF Live
<1>9. CarriedThins
  <2>1. SUFFICES ASSUME NEW b \in Carried'
                 PROVE  \E a \in Carried : Tuple(b) = Tuple(a) /\ b.sent \subseteq a.sent
    BY DEF CarriedThins
  <2>2. ASSUME NEW i \in Live, b = attempts'[i]
        PROVE  \E a \in Carried : Tuple(b) = Tuple(a) /\ b.sent \subseteq a.sent
    BY <1>7, <2>2 DEF Carried, Live
  <2>3. b \in Carried \/ \E i \in Live : b = attempts'[i]
    BY <1>t, <1>8 DEF Carried, Requesting
  <2>q. QED
    BY <2>1, <2>2, <2>3
<1>10. StillReserved' = StillReserved
  <2>1. ctl.place \in Places
    BY DEF TypeInv, CtlOK, CtlRecords
  <2>q. QED
    BY <1>t, <1>7, <2>1 DEF StillReserved
<1>11. OwedThins
  <2>1. SUFFICES ASSUME NEW b \in Owed'
                 PROVE  b \in Owed \/ work'["game"].peer = b.peer
    BY <1>3 DEF OwedThins, Senders
  <2>2. ASSUME NEW i \in Live \ Unsettled, b = attempts'[i]
        PROVE  b \in Owed \/ work'["game"].peer = b.peer
    <3>1. i \in Places /\ b.peer = attempts[i].peer
      BY <1>7, <2>2 DEF Live, Tuple
    <3>q. QED
      BY <1>3, <1>7, <2>2, <3>1 DEF Owed
  <2>3. Unsettled' = Unsettled
    BY <1>t, <1>8, <1>10 DEF Unsettled, Reserving, Requesting
  <2>4. b \in Owed \/ \E i \in Live \ Unsettled : b = attempts'[i]
    BY <1>t, <1>8, <1>10, <2>3 DEF Owed, Requesting
  <2>q. QED
    BY <2>2, <2>4
<1>12. RetryOK'
  <2>1. ctl.pc = "reserve" => \A i \in Live' : attempts'[i].peer = ctl.me.peer =>
                                attempts'[i].nonce <= ctl.me.nonce
    BY <1>7, <1>8 DEF ReleaseInv, RetryOK, Mine, Live, Tuple
  <2>2. ctl.place \in Places
    BY DEF TypeInv, CtlOK, CtlRecords
  <2>q. QED
    BY <1>t, <1>7, <1>10, <2>1, <2>2 DEF ReleaseInv, RetryOK, Mine, Requesting
<1>13. EraRests /\ ApartOK'
  BY <1>t, <1>g, <1>3 DEF EraRests, ReleaseInv, ApartOK, Senders
<1>q. QED
  BY <1>t, <1>4, <1>9, <1>11, <1>12, <1>13, ClientSame, ReleaseRests
\* What is owed to a member's current nonce is in the table, if only as the
\* retry that has replaced it.
LEMMA Present ==
    ASSUME TypeInv, TableInv, HoldInv, ReleaseInv, NEW a \in Owed,
           a.nonce = client[a.peer].nonce
    PROVE  \E i \in Mine(a.peer) : Tuple(attempts[i]) = Tuple(a) /\ (a.status => attempts[i].status)
<1>1. ASSUME NEW i \in Live, a = attempts[i]
      PROVE  \E j \in Mine(a.peer) :
               Tuple(attempts[j]) = Tuple(a) /\ (a.status => attempts[j].status)
  BY <1>1 DEF Mine
<1>2. ASSUME Requesting, StillReserved, a = ctl.prev, a.serial # 0, ~a.expired
      PROVE  \E j \in Mine(a.peer) :
               Tuple(attempts[j]) = Tuple(a) /\ (a.status => attempts[j].status)
  <2>1. a.peer = ctl.me.peer /\ ctl.me.serial # 0 /\ ctl.me.peer \in Peers
        /\ ctl.place \in Places
    BY <1>2, RequestingCarries DEF TableInv, RequestOK, CarriedOK, TypeInv, CtlOK, CtlRecords
  <2>2. ctl.place \in Live /\ attempts[ctl.place].serial = ctl.me.serial
    BY <1>2, <2>1 DEF StillReserved, Live
  <2>3. Tuple(attempts[ctl.place]) = Tuple(ctl.me)
    BY <2>2 DEF TableInv, CarriedOK
  <2>4. a.nonce <= ctl.me.nonce /\ ctl.me.nonce <= client[a.peer].nonce
    BY <1>2, <2>1 DEF ReleaseInv, RetryOK, HoldInv, ClocksOK, Timely
  <2>5. a.nonce = ctl.me.nonce
    BY <2>1, <2>4, Numbers
  <2>6. attempts[ctl.place] \in Carried /\ a \in Carried
    BY <1>2, <2>2 DEF Carried
  <2>7. attempts[ctl.place].gen = a.gen
    BY <2>6 DEF ReleaseInv, EraOK
  <2>8. Tuple(attempts[ctl.place]) = Tuple(a)
    BY <2>1, <2>3, <2>5, <2>7 DEF Tuple
  <2>9. a.status => attempts[ctl.place].status
    BY <1>2, <2>1, <2>5 DEF ReleaseInv, RetryOK
  <2>10. ctl.place \in Mine(a.peer)
    BY <2>2, <2>8 DEF Mine, Tuple
  <2>q. QED
    BY <2>8, <2>9, <2>10
<1>q. QED
  BY <1>1, <1>2 DEF Owed

\* Copies that are read from the table are of this era, and know what was sent.
LEMMA ReadCopies ==
    ASSUME TypeInv, ReleaseInv, NEW S \in SUBSET Live,
           NEW b \in {Addressee(attempts[i]) : i \in S}
    PROVE  b.gen = Era /\ \A event \in b.sent : Offered(b, event)
<1>1. PICK i \in Live : b = Addressee(attempts[i])
  OBVIOUS
<1>2. attempts[i] \in Carried /\ Tuple(b) = Tuple(attempts[i]) /\ b.sent = attempts[i].sent
  BY <1>1 DEF Addressee, Tuple, Carried
<1>3. \A event \in b.sent : Offered(attempts[i], event)
  BY <1>2 DEF ReleaseInv, SentOK
<1>q. QED
  BY <1>2, <1>3, BringsAlike DEF ReleaseInv, EraOK

\* A step of one sender: what it brought it still brings, or has offered, and
\* what it has stored it brings.
LEMMA SenderRelease ==
    ASSUME TypeInv, TypeInv', TableInv, HoldInv, ReleaseInv, NEW t \in Senders, NEW w,
           work' = [work EXCEPT ![t] = w],
           UNCHANGED <<attempts, ctl, clear, authority, client, game, history>>,
           ShapeOK(w), \A b \in w.to : b.gen = Era /\ \A event \in b.sent : Offered(b, event),
           work[t].pc # "idle" \/ (t = "ctl" /\ CtlFree) \/ (t = "game" /\ GameFree),
           \A a \in Owed, m \in cache' : Due(a, m) /\ (m \notin cache \/ Brings(work[t], a, m))
               => Brings(w, a, m)
    PROVE  ReleaseInv'
<1>1. work'[t] = w /\ \A s \in Senders : s # t => work'[s] = work[s]
  BY DEF TypeInv, ThreadsOK
<1>2. Carried' = Carried /\ Owed' = Owed /\ Era' = Era
  BY DEF Carried, Owed, Unsettled, Live, Requesting, Reserving, StillReserved, Era
<1>3. EraOK' /\ SentOK' /\ ShapesOK'
  <2>1. EraOK'
    BY <1>1, <1>2 DEF EraOK, ReleaseInv
  <2>2. \A b, event : Offered(b, event)' <=> Offered(b, event)
    BY DEF Offered
  <2>3. \A s \in Senders : \A b \in work'[s].to : \A event \in b.sent : Offered(b, event)
    BY <1>1 DEF SentOK, ReleaseInv
  <2>4. SentOK'
    BY <1>2, <2>2, <2>3 DEF SentOK, ReleaseInv
  <2>5. ShapesOK'
    BY <1>1 DEF ShapesOK, ReleaseInv
  <2>q. QED
    BY <2>1, <2>4, <2>5
<1>4. ApartOK'
  <2>1. t = "ctl" => ctl.pc \in {"idle", "deliver"} /\ clear["ctl"] = "none"
    BY DEF ReleaseInv, ApartOK, CtlFree, GameFree
  <2>2. t = "game" => game.pc = "idle"
    BY DEF ReleaseInv, ApartOK, CtlFree, GameFree
  <2>q. QED
    BY <1>1, <2>1, <2>2 DEF ReleaseInv, ApartOK, Senders
<1>5. RetryOK'
  BY DEF RetryOK, ReleaseInv, Mine, Live, Requesting, StillReserved
<1>6. ReleaseOK'
  <2>1. SUFFICES ASSUME NEW a \in Owed, NEW m \in cache', Due(a, m)
                 PROVE  Offered(a, m.event) \/ \E s \in Senders : Brings(work'[s], a, m)
    BY <1>2 DEF ReleaseOK, Due, Offered
  <2>2. CASE m \notin cache \/ Brings(work[t], a, m)
    BY <1>1, <2>1, <2>2
  <2>3. ASSUME m \in cache, NEW s \in Senders, s # t, Brings(work[s], a, m)
        PROVE  Brings(work'[s], a, m)
    BY <1>1, <2>3
  <2>4. m \in cache => Offered(a, m.event) \/ \E s \in Senders : Brings(work[s], a, m)
    BY <2>1 DEF ReleaseInv, ReleaseOK
  <2>q. QED
    BY <2>2, <2>3, <2>4
<1>q. QED
  BY <1>3, <1>4, <1>5, <1>6 DEF ReleaseInv
\* Captures and replays up to the sends, and after the last one.
LEMMA CopyRelease ==
    ASSUME TypeInv, TypeInv', TableInv, HoldInv, ReleaseInv, CalmStep, NEW t \in Senders,
           \/ \E event \in Events : Capture(t, event)
           \/ StorePayload(t) \/ Spread(t) \/ Look(t) \/ CopyCache(t) \/ Refresh(t) \/ Sent(t)
    PROVE  ReleaseInv'
<1>t. /\ work \in [Senders -> WorkRecords] /\ work[t] \in WorkRecords
      /\ attempts \in [Places -> AttemptRecords]
  BY DEF TypeInv, AttemptsOK, ThreadsOK
<1>s. ShapeOK(work[t])
  BY DEF ReleaseInv, ShapesOK
<1>o. \A b \in work[t].to : b.gen = Era /\ \A event \in b.sent : Offered(b, event)
  BY DEF ReleaseInv, EraOK, SentOK
\* The copy of an attempt of the table reaches what is owed to that member.
<1>r. ASSUME NEW S \in SUBSET Live, NEW w, w.to = {Addressee(attempts[i]) : i \in S},
             NEW a \in Owed, NEW m, Due(a, m), Mine(a.peer) \subseteq S
      PROVE  Reaches(w, a, m) /\ Mine(a.peer) # {}
  <2>1. PICK i \in Mine(a.peer) : Tuple(attempts[i]) = Tuple(a)
                                  /\ (a.status => attempts[i].status)
    BY <1>r, Present DEF Due
  <2>2. PICK c : c = Addressee(attempts[i])
    OBVIOUS
  <2>3. c \in w.to /\ Tuple(c) = Tuple(a) /\ (m.event = "ready" => c.status)
    BY <1>r, <2>1, <2>2 DEF Addressee, Tuple, Due
  <2>q. QED
    BY <2>1, <2>3 DEF Reaches
<1>1. ASSUME NEW event \in Events, Capture(t, event) PROVE ReleaseInv'
  <2>1. PICK m : m = [gen |-> authority.gen, event |-> event]
    OBVIOUS
  <2>2. PICK w : w = [WorkIdle EXCEPT !.pc = "capture", !.load = {m}]
    OBVIOUS
  <2>3. w.pc = "capture" /\ w.peer = 0 /\ w.to = {} /\ w.load = {m}
    BY <2>2 DEF WorkIdle
  <2>4. ShapeOK(w)
    BY <2>3 DEF ShapeOK
  <2>5. IF t = "ctl" THEN CtlFree ELSE GameFree
    BY <1>1 DEF Capture
  <2>6. work[t].pc = "idle" /\ ((t = "ctl" /\ CtlFree) \/ (t = "game" /\ GameFree))
    BY <2>5 DEF CtlFree, GameFree, Senders
  <2>7. \A a, n : ~Brings(work[t], a, n)
    BY <2>6 DEF Brings
  <2>q. QED
    BY <1>1, <2>1, <2>2, <2>3, <2>4, <2>6, <2>7, SenderRelease DEF Capture
<1>2. ASSUME StorePayload(t) PROVE ReleaseInv'
  <2>1. PICK w : w = [work[t] EXCEPT !.pc = "spread"]
    OBVIOUS
  <2>2. /\ w.pc = "spread" /\ w.to = work[t].to /\ w.load = work[t].load
        /\ w.peer = work[t].peer /\ work' = [work EXCEPT ![t] = w] /\ work[t].pc = "capture"
    BY <1>2, <1>t, <2>1 DEF StorePayload, WorkRecords
  <2>3. ShapeOK(w)
    BY <1>s, <2>2 DEF ShapeOK
  <2>4. \A a, m : ~Brings(work[t], a, m)
    BY <2>2 DEF Brings
  <2>5. \A a, m : m \in cache' /\ m \notin cache => Brings(w, a, m)
    BY <1>2, <2>2 DEF StorePayload, Brings
  <2>q. QED
    BY <1>2, <1>o, <2>2, <2>3, <2>4, <2>5, SenderRelease DEF StorePayload
<1>3. ASSUME Spread(t) PROVE ReleaseInv'
  <2>1. PICK w : w = [work[t] EXCEPT !.pc = "send",
                        !.to = {Addressee(attempts[i]) : i \in Live}]
    OBVIOUS
  <2>2. /\ w.pc = "send" /\ w.to = {Addressee(attempts[i]) : i \in Live}
        /\ w.load = work[t].load /\ w.peer = work[t].peer
        /\ work' = [work EXCEPT ![t] = w] /\ work[t].pc = "spread"
    BY <1>3, <1>t, <2>1 DEF Spread, WorkRecords
  <2>3. ShapeOK(w)
    BY <1>s, <2>2 DEF ShapeOK
  <2>4. \A b \in w.to : b.gen = Era /\ \A event \in b.sent : Offered(b, event)
    BY <2>2, ReadCopies
  <2>5. ASSUME NEW a \in Owed, NEW m, Due(a, m), Brings(work[t], a, m) PROVE Brings(w, a, m)
    <3>1. m \in w.load
      BY <2>2, <2>5 DEF Brings
    <3>2. Mine(a.peer) \subseteq Live
      BY DEF Mine
    <3>3. Reaches(w, a, m)
      BY <1>r, <2>2, <2>5, <3>2
    <3>q. QED
      BY <2>2, <3>1, <3>3 DEF Brings
  <2>q. QED
    BY <1>3, <2>2, <2>3, <2>4, <2>5, SenderRelease DEF Spread
<1>4. ASSUME Look(t) PROVE ReleaseInv'
  <2>1. PICK found : found = AttemptOf(work[t].peer)
    OBVIOUS
  <2>2. found = {Addressee(attempts[i]) : i \in Mine(work[t].peer)}
    BY <2>1 DEF AttemptOf
  <2>3. PICK w : w = IF found = {} THEN WorkIdle
                     ELSE [work[t] EXCEPT !.pc = "cache", !.to = found]
    OBVIOUS
  <2>4. work' = [work EXCEPT ![t] = w] /\ work[t].pc = "look"
    BY <1>4, <1>t, <2>1, <2>3 DEF Look
  <2>5. CASE found = {}
    <3>1. w.pc = "idle" /\ w.peer = 0 /\ w.to = {} /\ w.load = {}
      BY <2>3, <2>5 DEF WorkIdle
    <3>2. ShapeOK(w)
      BY <3>1 DEF ShapeOK
    <3>3. ASSUME NEW a \in Owed, NEW m, Due(a, m), Brings(work[t], a, m) PROVE FALSE
      <4>1. work[t].peer = a.peer /\ Mine(a.peer) = {}
        BY <2>2, <2>4, <2>5, <3>3 DEF Brings
      <4>q. QED
        BY <3>3, <4>1, Present DEF Due
    <3>q. QED
      BY <1>4, <2>4, <3>1, <3>2, <3>3, SenderRelease DEF Look
  <2>6. CASE found # {}
    <3>1. w.pc = "cache" /\ w.to = found /\ w.peer = work[t].peer
      BY <1>t, <2>3, <2>6 DEF WorkRecords
    <3>2. PICK S \in SUBSET Live : S = Mine(work[t].peer)
      BY DEF Mine
    <3>3. S # {} /\ \A i \in S : attempts[i].peer = work[t].peer
      BY <2>2, <2>6, <3>2 DEF Mine
    <3>4. w.peer # 0
      BY <3>1, <3>3, Numbers, Defaults
    <3>5. \A b, c \in w.to : b = c /\ b.peer = w.peer
      <4>1. \A i, j \in S : i = j
        BY <3>3 DEF TableInv, TableOK, OneAttemptPerPeer
      <4>q. QED
        BY <2>2, <3>1, <3>2, <3>3, <4>1 DEF Addressee
    <3>6. ShapeOK(w)
      BY <3>1, <3>4, <3>5 DEF ShapeOK
    <3>7. \A b \in w.to : b.gen = Era /\ \A event \in b.sent : Offered(b, event)
      BY <2>2, <3>1, <3>2, ReadCopies
    <3>8. ASSUME NEW a \in Owed, NEW m, Due(a, m), Brings(work[t], a, m)
          PROVE  Brings(w, a, m)
      <4>1. Mine(a.peer) \subseteq S
        BY <2>4, <3>2, <3>8 DEF Brings
      <4>2. Reaches(w, a, m)
        BY <1>r, <2>2, <3>1, <3>2, <3>8, <4>1
      <4>q. QED
        BY <3>1, <4>2 DEF Brings
    <3>q. QED
      BY <1>4, <2>4, <3>6, <3>7, <3>8, SenderRelease DEF Look
  <2>q. QED
    BY <2>5, <2>6
<1>5. ASSUME CopyCache(t) PROVE ReleaseInv'
  <2>1. PICK w : w = [work[t] EXCEPT !.pc = "send", !.load = cache]
    OBVIOUS
  <2>2. /\ w.pc = "send" /\ w.to = work[t].to /\ w.load = cache
        /\ w.peer = work[t].peer /\ work' = [work EXCEPT ![t] = w] /\ work[t].pc = "cache"
    BY <1>5, <1>t, <2>1 DEF CopyCache, WorkRecords
  <2>3. ShapeOK(w)
    BY <1>s, <2>2 DEF ShapeOK
  <2>4. \A a, m : m \in cache /\ Brings(work[t], a, m) => Brings(w, a, m)
    BY <2>2 DEF Brings, Reaches
  <2>q. QED
    BY <1>5, <1>o, <2>2, <2>3, <2>4, SenderRelease DEF CopyCache
<1>6. ASSUME Refresh(t) PROVE ReleaseInv'
  <2>1. PICK S \in SUBSET Live :
          S = Unexpired({j \in Mine(work[t].peer) :
                          \E b \in work[t].to : attempts[j].nonce = b.nonce})
    BY DEF Unexpired, Mine
  <2>2. PICK w : w = [work[t] EXCEPT !.pc = "send", !.to = {Addressee(attempts[i]) : i \in S}]
    OBVIOUS
  <2>3. /\ w.pc = "send" /\ w.to = {Addressee(attempts[i]) : i \in S}
        /\ w.load = work[t].load /\ w.peer = work[t].peer
        /\ work' = [work EXCEPT ![t] = w] /\ work[t].pc = "refresh"
    BY <1>6, <1>t, <2>1, <2>2 DEF Refresh, WorkRecords
  <2>4. work[t].load # {} => \A i \in Mine(work[t].peer) : ~attempts[i].expired
    <3>1. work'[t] = w
      BY <1>t, <2>3
    <3>q. QED
      BY <2>3, <3>1 DEF CalmStep
  <2>5. \A b, c \in w.to : b = c /\ b.peer = w.peer
    <3>1. \A i, j \in S : i = j /\ attempts[i].peer = work[t].peer
      BY <2>1 DEF Unexpired, Mine, TableInv, TableOK, OneAttemptPerPeer
    <3>q. QED
      BY <2>3, <3>1 DEF Addressee
  <2>6. ShapeOK(w)
    BY <1>s, <2>3, <2>5 DEF ShapeOK
  <2>7. \A b \in w.to : b.gen = Era /\ \A event \in b.sent : Offered(b, event)
    BY <2>1, <2>3, ReadCopies
  <2>8. ASSUME NEW a \in Owed, NEW m, Due(a, m), Brings(work[t], a, m) PROVE Brings(w, a, m)
    <3>1. m \in work[t].load /\ Reaches(work[t], a, m)
      BY <2>3, <2>8 DEF Brings
    <3>2. PICK c \in work[t].to : Tuple(c) = Tuple(a)
      BY <3>1 DEF Reaches
    <3>3. a.peer = work[t].peer /\ c.nonce = a.nonce
      BY <1>s, <2>3, <3>2 DEF ShapeOK, Tuple
    <3>4. PICK i \in Mine(a.peer) : Tuple(attempts[i]) = Tuple(a)
                                    /\ (a.status => attempts[i].status)
      BY <2>8, Present DEF Due
    <3>5. i \in S
      BY <2>1, <2>4, <3>1, <3>2, <3>3, <3>4 DEF Unexpired, Tuple
    <3>6. PICK d : d = Addressee(attempts[i])
      OBVIOUS
    <3>7. d \in w.to /\ Tuple(d) = Tuple(a) /\ (m.event = "ready" => d.status)
      BY <2>3, <2>8, <3>4, <3>5, <3>6 DEF Addressee, Tuple, Due
    <3>q. QED
      BY <2>3, <3>1, <3>7 DEF Brings, Reaches
  <2>q. QED
    BY <1>6, <2>3, <2>6, <2>7, <2>8, SenderRelease DEF Refresh
<1>7. ASSUME Sent(t) PROVE ReleaseInv'
  <2>1. PICK w : w = WorkIdle
    OBVIOUS
  <2>2. w.pc = "idle" /\ w.peer = 0 /\ w.to = {} /\ w.load = {}
    BY <2>1 DEF WorkIdle
  <2>3. ShapeOK(w)
    BY <2>2 DEF ShapeOK
  <2>4. work[t].pc = "send" /\ (work[t].to = {} \/ work[t].load = {})
    BY <1>7 DEF Sent
  <2>5. \A a, m : ~Brings(work[t], a, m)
    BY <2>4 DEF Brings, Reaches
  <2>q. QED
    BY <1>7, <2>1, <2>2, <2>3, <2>4, <2>5, SenderRelease DEF Sent
<1>q. QED
  BY <1>1, <1>2, <1>3, <1>4, <1>5, <1>6, <1>7
\* A send: the attempt whose copy it judges by has been offered the event, now or
\* before; the other copies and events are still to be sent.
LEMMA SendRelease ==
    ASSUME TypeInv, TypeInv', TableInv, HoldInv, ReleaseInv, NEW t \in Senders, Send(t)
    PROVE  ReleaseInv'
<1>t. /\ work \in [Senders -> WorkRecords] /\ work[t] \in WorkRecords
      /\ attempts \in [Places -> AttemptRecords] /\ history \in Histories
  BY DEF TypeInv, AttemptsOK, ThreadsOK, HistoryOK
<1>u. /\ work[t].pc = "send"
      /\ UNCHANGED <<cache, authority, ctl, game, clear, client>>
  BY DEF Send
<1>1. PICK c \in work[t].to, m \in work[t].load :
        /\ work' = [work EXCEPT ![t] = Remaining(@, c, m)]
        /\ IF Releasable(c, m)
           THEN /\ history' = [history EXCEPT !.offered = @ \cup
                     {[peer |-> c.peer, nonce |-> c.nonce, gen |-> c.gen,
                       event |-> m.event]}]
                /\ \/ attempts' = [i \in Places |->
                        IF i \in Marked(c.peer, c.nonce)
                        THEN [attempts[i] EXCEPT !.sent = @ \cup {m.event},
                                                 !.expired = FALSE]
                        ELSE attempts[i]]
                   \/ UNCHANGED attempts
           ELSE UNCHANGED <<attempts, history>>
  BY DEF Send
<1>2. PICK w : w = Remaining(work[t], c, m)
  OBVIOUS
<1>3. work'[t] = w /\ \A s \in Senders : s # t => work'[s] = work[s]
  BY <1>t, <1>1, <1>2
<1>4. /\ w.peer = work[t].peer
      /\ work[t].peer # 0 => w.pc = "refresh" /\ w.to = work[t].to /\ w.load = work[t].load \ {m}
      /\ work[t].peer = 0 => w.pc = "send" /\ w.to = work[t].to \ {c} /\ w.load = work[t].load
  BY <1>t, <1>u, <1>2 DEF Remaining, WorkRecords
<1>s. ShapeOK(work[t]) /\ c.gen = Era /\ \A event \in c.sent : Offered(c, event)
  BY DEF ReleaseInv, ShapesOK, EraOK, SentOK
<1>5. /\ \A x, event : Offered(x, event) => Offered(x, event)'
      /\ Releasable(c, m) => Offered(c, m.event)'
  <2>1. CASE Releasable(c, m)
    <3>1. PICK o : o = [peer |-> c.peer, nonce |-> c.nonce, gen |-> c.gen, event |-> m.event]
      OBVIOUS
    <3>2. history' = [history EXCEPT !.offered = history.offered \cup {o}]
      BY <1>1, <2>1, <3>1
    <3>3. history'.offered = history.offered \cup {o}
      BY <1>t, <3>2 DEF Histories
    <3>q. QED
      BY <3>1, <3>3 DEF Offered
  <2>2. CASE ~Releasable(c, m)
    BY <1>1, <2>2 DEF Offered
  <2>q. QED
    BY <2>1, <2>2
<1>6. c.gen = m.gen /\ (m.event = "ready" => c.status) => Offered(c, m.event)'
  BY <1>s, <1>5 DEF Releasable
<1> DEFINE f(i) == [attempts[i] EXCEPT !.sent = @ \cup {m.event}, !.expired = FALSE]
<1>7. \A i \in Places :
        /\ Tuple(f(i)) = Tuple(attempts[i]) /\ f(i).serial = attempts[i].serial
        /\ f(i).status = attempts[i].status /\ f(i).sent = attempts[i].sent \cup {m.event}
  BY <1>t DEF AttemptRecords, Tuple
<1>8. \A i \in Places :
        \/ attempts'[i] = attempts[i]
        \/ attempts'[i] = f(i) /\ i \in Marked(c.peer, c.nonce) /\ Releasable(c, m)
  BY <1>1
<1> HIDE DEF f
<1>9. /\ Live' = Live
      /\ \A i \in Places : /\ Tuple(attempts'[i]) = Tuple(attempts[i])
                           /\ attempts'[i].serial = attempts[i].serial
                           /\ attempts'[i].status = attempts[i].status
  BY <1>7, <1>8 DEF Live
<1>p. ctl.place \in Places
  BY DEF TypeInv, CtlOK, CtlRecords
<1>10. /\ StillReserved' = StillReserved /\ Requesting' = Requesting
       /\ Reserving' = Reserving /\ Unsettled' = Unsettled
  <2>1. StillReserved' = StillReserved
    BY <1>u, <1>p, <1>9 DEF StillReserved
  <2>2. Requesting' = Requesting /\ Reserving' = Reserving
    BY <1>u DEF Requesting, Reserving
  <2>q. QED
    BY <1>u, <1>9, <2>1, <2>2 DEF Unsettled
<1>11. \A b \in Carried' : b \in Carried \/ \E i \in Live : b = attempts'[i]
  BY <1>u, <1>9, <1>10 DEF Carried
<1>12. EraOK'
  <2>1. Era' = Era
    BY <1>u DEF Era
  <2>2. ASSUME NEW i \in Live PROVE attempts'[i].gen = Era
    <3>1. attempts[i].gen = Era
      BY DEF ReleaseInv, EraOK, Carried
    <3>q. QED
      BY <1>9, <3>1 DEF Tuple, Live
  <2>3. \A s \in Senders : work'[s].to \subseteq work[s].to
    BY <1>3, <1>4
  <2>q. QED
    BY <1>u, <1>11, <2>1, <2>2, <2>3 DEF EraOK, ReleaseInv
<1>13. SentOK'
  <2>1. ASSUME NEW i \in Live, NEW event \in attempts'[i].sent
        PROVE  [peer |-> attempts'[i].peer, nonce |-> attempts'[i].nonce,
                gen |-> attempts'[i].gen, event |-> event] \in history'.offered
    <3>1. i \in Places /\ Tuple(attempts'[i]) = Tuple(attempts[i]) /\ attempts[i] \in Carried
      BY <1>9 DEF Live, Carried
    <3>2. CASE event \in attempts[i].sent
      <4>1. Offered(attempts[i], event)
        BY <3>1, <3>2 DEF ReleaseInv, SentOK
      <4>2. attempts'[i].peer = attempts[i].peer /\ attempts'[i].nonce = attempts[i].nonce
            /\ attempts'[i].gen = attempts[i].gen
        BY <3>1 DEF Tuple
      <4>3. [peer |-> attempts[i].peer, nonce |-> attempts[i].nonce,
             gen |-> attempts[i].gen, event |-> event] \in history'.offered
        BY <1>5, <4>1 DEF Offered
      <4>q. QED
        BY <4>2, <4>3
    <3>3. CASE event \notin attempts[i].sent
      <4>1. attempts'[i] = f(i) /\ i \in Marked(c.peer, c.nonce) /\ Releasable(c, m)
        BY <1>8, <3>1, <3>3
      <4>2. event = m.event
        BY <1>7, <3>1, <3>3, <4>1
      <4>3. attempts[i].gen = Era
        BY <3>1 DEF ReleaseInv, EraOK
      <4>4. attempts'[i].peer = c.peer /\ attempts'[i].nonce = c.nonce /\ attempts'[i].gen = c.gen
        BY <1>s, <3>1, <4>1, <4>3 DEF Marked, Mine, Tuple
      <4>5. [peer |-> c.peer, nonce |-> c.nonce, gen |-> c.gen, event |-> m.event]
              \in history'.offered
        BY <1>5, <4>1 DEF Offered
      <4>q. QED
        BY <4>2, <4>4, <4>5
    <3>q. QED
      BY <3>2, <3>3
  <2>2. \A b \in Carried : \A event \in b.sent : Offered(b, event)'
    BY <1>5 DEF ReleaseInv, SentOK
  <2>3. \A s \in Senders : \A b \in work'[s].to : \A event \in b.sent : Offered(b, event)'
    BY <1>3, <1>4, <1>5 DEF ReleaseInv, SentOK
  <2>q. QED
    <3>1. \A b \in Carried' : \A event \in b.sent : Offered(b, event)'
      BY <1>11, <2>1, <2>2 DEF Offered
    <3>q. QED
      BY <2>3, <3>1 DEF SentOK
<1>14. ShapesOK'
  <2>1. ShapeOK(w)
    BY <1>s, <1>4 DEF ShapeOK
  <2>q. QED
    BY <1>3, <2>1 DEF ReleaseInv, ShapesOK
<1>15. ApartOK'
  BY <1>u, <1>3 DEF ReleaseInv, ApartOK, Senders
<1>16. RetryOK'
  <2>1. ctl.pc = "reserve" => \A i \in Live' : attempts'[i].peer = ctl.me.peer =>
                                attempts'[i].nonce <= ctl.me.nonce
    BY <1>9 DEF ReleaseInv, RetryOK, Mine, Live, Tuple
  <2>q. QED
    BY <1>u, <1>p, <1>9, <1>10, <2>1 DEF ReleaseInv, RetryOK, Mine
<1>17. ReleaseOK'
  <2>1. SUFFICES ASSUME NEW b \in Owed', NEW n \in cache, Due(b, n)'
                 PROVE  Offered(b, n.event)' \/ \E s \in Senders : Brings(work'[s], b, n)
    BY <1>u DEF ReleaseOK
  <2>2. PICK a \in Owed : Tuple(b) = Tuple(a) /\ b.status = a.status
    <3>1. ASSUME NEW i \in Live \ Unsettled, b = attempts'[i]
          PROVE  \E a \in Owed : Tuple(b) = Tuple(a) /\ b.status = a.status
      BY <1>9, <3>1 DEF Owed, Live
    <3>2. b \in Owed \/ \E i \in Live \ Unsettled : b = attempts'[i]
      BY <1>u, <1>9, <1>10 DEF Owed
    <3>q. QED
      BY <3>1, <3>2
  <2>3. b.peer = a.peer /\ b.nonce = a.nonce /\ b.gen = a.gen
    BY <2>2 DEF Tuple
  <2>4. Due(a, n)
    BY <1>u, <2>1, <2>2, <2>3 DEF Due
  <2>5. Offered(a, n.event) => Offered(b, n.event)'
    BY <1>5, <2>3 DEF Offered
  <2>6. ASSUME NEW s \in Senders, s # t, Brings(work[s], a, n) PROVE Brings(work'[s], b, n)
    BY <1>3, <2>2, <2>6, BringsAlike
  <2>7. ASSUME Brings(work[t], a, n) PROVE Offered(b, n.event)' \/ Brings(w, b, n)
    <3>1. PICK d \in work[t].to : Tuple(d) = Tuple(a) /\ (n.event = "ready" => d.status)
      BY <1>u, <2>7 DEF Brings, Reaches
    <3>2. n \in work[t].load
      BY <1>u, <2>7 DEF Brings
    <3>3. CASE d = c /\ n = m
      <4>1. c.peer = b.peer /\ c.nonce = b.nonce /\ c.gen = b.gen
        BY <2>3, <3>1, <3>3 DEF Tuple
      <4>2. Offered(c, m.event)'
        BY <1>6, <2>3, <2>4, <3>1, <3>3, <4>1 DEF Due
      <4>q. QED
        BY <3>3, <4>1, <4>2 DEF Offered
    <3>4. CASE d # c \/ n # m
      <4>1. d \in w.to /\ n \in w.load /\ w.pc \in {"send", "refresh"}
        BY <1>s, <1>4, <3>1, <3>2, <3>4 DEF ShapeOK
      <4>2. Brings(w, a, n)
        BY <3>1, <4>1 DEF Brings, Reaches
      <4>q. QED
        BY <2>2, <4>2, BringsAlike
    <3>q. QED
      BY <3>3, <3>4
  <2>8. Offered(a, n.event) \/ \E s \in Senders : Brings(work[s], a, n)
    BY <2>4 DEF ReleaseInv, ReleaseOK
  <2>q. QED
    BY <1>3, <2>5, <2>6, <2>7, <2>8
<1>q. QED
  BY <1>12, <1>13, <1>14, <1>15, <1>16, <1>17 DEF ReleaseInv

LEMMA ReleaseInit == Init => ReleaseInv
<1> SUFFICES ASSUME Init PROVE ReleaseInv
  OBVIOUS
<1>1. /\ cache = {} /\ ctl.pc = "idle" /\ game.pc = "idle" /\ Live = {}
      /\ \A t \in Senders : work[t] = WorkIdle
      /\ clear["ctl"] = "none"
  BY DEF Init, Live, NoAttempt, CtlIdle, GameIdle, Senders, Threads
<1>2. WorkIdle.pc = "idle" /\ WorkIdle.peer = 0 /\ WorkIdle.to = {} /\ WorkIdle.load = {}
  BY DEF WorkIdle
<1>3. Carried = {}
  BY <1>1 DEF Carried, Requesting
<1>4. EraOK /\ SentOK /\ ApartOK
  BY <1>1, <1>2, <1>3 DEF EraOK, SentOK, ApartOK, Senders
<1>5. ShapesOK
  BY <1>1, <1>2 DEF ShapesOK, ShapeOK
<1>6. RetryOK /\ ReleaseOK
  BY <1>1 DEF RetryOK, ReleaseOK, Requesting
<1>q. QED
  BY <1>4, <1>5, <1>6 DEF ReleaseInv

LEMMA ReleaseNext ==
    TypeInv /\ TypeInv' /\ TableInv /\ HoldInv /\ ReleaseInv /\ [Next]_vars /\ [CalmStep]_vars
    => ReleaseInv'
<1> SUFFICES ASSUME TypeInv, TypeInv', TableInv, HoldInv, ReleaseInv, [Next]_vars, [CalmStep]_vars
             PROVE  ReleaseInv'
  OBVIOUS
<1>1. CASE UNCHANGED vars
  BY <1>1, SameTableThins, ClientSame, OtherRelease DEF vars
<1>2. ASSUME CalmStep, RequestStep \/ CommitStep \/ RollbackStep PROVE ReleaseInv'
  BY <1>2, AskRelease, RequestRelease, ReserveRelease, UndoRelease, SettleRelease
     DEF RequestStep, CommitStep, RollbackStep
<1>3. ASSUME CalmStep, DeliverStep \/ ExpireStep \/ StatusStep PROVE ReleaseInv'
  BY <1>3, UpkeepRelease, MarkRelease DEF StatusStep
<1>4. ASSUME CalmStep, PayloadStep PROVE ReleaseInv'
  BY <1>4, CopyRelease, SendRelease DEF PayloadStep
<1>5. ASSUME CalmStep, ClearStep \/ LoseStep \/ WorldStep PROVE ReleaseInv'
  BY <1>5, WorldRelease
<1>q. QED
  BY <1>1, <1>2, <1>3, <1>4, <1>5 DEF Next

\* Once both threads are done, a stored event of its generation has been offered
\* to each member's current attempt that is ready for it, whichever of the event,
\* the status and the attempt's commit came last, and however requests are
\* retried, rolled back, lost or expire: provided that the table is never cleared
\* for a new generation while the game thread has copies of it, and that no
\* replay finds its attempt expired.
THEOREM HostNoMissedRelease == Spec /\ [][CalmStep]_vars => []NoMissedRelease
<1>1. Spec => [](TypeInv /\ TableInv /\ HoldInv)
  BY TypeInit, TypeNext, TableInit, TableNext, HoldInit, HoldNext, PTL DEF Spec
<1>2. Spec /\ [][CalmStep]_vars => []ReleaseInv
  BY <1>1, ReleaseInit, ReleaseNext, PTL DEF Spec
<1>3. ReleaseInv => NoMissedRelease
  <2>1. SUFFICES ASSUME ReleaseInv, CtlFree, GameFree, NEW i \in Live, NEW m \in cache,
                        Due(attempts[i], m)
                 PROVE  Offered(attempts[i], m.event)
    BY DEF NoMissedRelease, Due, Offered
  <2>2. attempts[i] \in Owed
    BY <2>1 DEF Owed, Unsettled, Reserving, Requesting, CtlFree
  <2>3. \A t \in Senders : work[t].pc = "idle"
    BY <2>1 DEF CtlFree, GameFree, Senders
  <2>4. \A t \in Senders : ~Brings(work[t], attempts[i], m)
    BY <2>3 DEF Brings
  <2>q. QED
    BY <2>1, <2>2, <2>4 DEF ReleaseInv, ReleaseOK
<1>q. QED
  BY <1>2, <1>3, PTL
=============================================================================
