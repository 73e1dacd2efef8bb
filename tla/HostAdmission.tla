---------------------------- MODULE HostAdmission ----------------------------
(***************************************************************************)
(* The host side of the admission of returning members, from               *)
(* src/src/reconnect_fix.cpp.  A probe request of a returning member makes *)
(* the host RESERVE an attempt in a small table, PIN the member's hot PGD  *)
(* snapshot to it, answer, and then COMMIT the reservation, or ROLL it     *)
(* BACK to what the table held before.  The attempt then carries the       *)
(* native admission events: the member's status (0x0c) is stored in an     *)
(* event slot until the host's game consumes it, which releases the cached *)
(* ready and world events (0x67, 0x1d) to that member; the owner event     *)
(* (0x94) needs no status.  Attempts end by expiry, by the loss of the     *)
(* peer, or with the authority generation.                                 *)
(*                                                                         *)
(* Actors.                                                                 *)
(*   ctl    the Steam control thread: requests, status packets, ticks;     *)
(*   game   the game thread: consumes the status, captures events, retires *)
(*          the native manager;                                            *)
(*   nrsc   the NRSC callback thread: peer loss, reset of all peers;       *)
(*   time   GetTickCount64 reaching an attempt's expiry.                   *)
(* They share four tables, each with its own lock: attempts                *)
(* (g_bhrc_host_admission_lock), event slots, generation payloads, pinned  *)
(* restores.  An action is one critical section, or two that nest.         *)
(*                                                                         *)
(* Abstractions.  A generation stands for the authority tuple (lobbies,    *)
(* commit_seq, manager id).  A member's record key, identity hash, client  *)
(* generation and trigger do not change.  A snapshot is its revision.  A   *)
(* member sends over one reliable, ordered channel, so it asks again under *)
(* a nonce only before its status of that nonce.  0x67 and 0x1d are one    *)
(* event "ready".  The 2 s retry clock of deliveries, the Steam lobby      *)
(* invite's content and the packet layouts are left out.  A step that      *)
(* allocates memory, sends or invites may fail.                            *)
(***************************************************************************)
EXTENDS Naturals, FiniteSets

CONSTANTS
    MaxPeer,    \* returning members
    Capacity,   \* kBhrcHostAdmissionCapacity: attempts the table holds
    SlotCap,    \* kBhrcInboundNativeEventSlotCapacity
    MaxSerial,  \* reservations the host may make
    MaxNonce,   \* request nonces a member may draw
    MaxGen,     \* authority generations
    MaxRev,     \* snapshot revisions a member may publish
    Events,     \* events the host's game may raise: subset of {"owner", "ready"}
    Upsets      \* what may disturb an admission: subset of AllUpsets

AllUpsets == {"retire", "reset", "lose", "expire", "world"}

ASSUME BoundsAssumption ==
    /\ MaxPeer \in Nat \ {0} /\ Capacity \in Nat \ {0} /\ SlotCap \in Nat \ {0}
    /\ MaxSerial \in Nat     /\ MaxNonce \in Nat \ {0} /\ MaxGen \in Nat
    /\ MaxRev \in Nat        /\ Events \subseteq {"owner", "ready"}
    /\ Upsets \subseteq AllUpsets

Peers   == 1..MaxPeer
Places  == 1..Capacity
PinCap  == 2 * Capacity         \* kBhrcFullPgdPinnedRestoreCapacity
Serials == 0..MaxSerial         \* 0: no attempt
Nonces  == 0..MaxNonce
Gens    == 0..MaxGen            \* 0: no authority
Revs    == 0..MaxRev            \* 0: nothing pinned, nothing published
Threads == {"ctl", "game", "nrsc"}
Senders == {"ctl", "game"}

VARIABLES
    attempts,   \* g_bhrc_host_admission_attempts
    pins,       \* g_bhrc_full_pgd_pinned_restores
    slots,      \* g_bhrc_inbound_native_event_slots (0x0c only, on a host)
    cache,      \* g_bhrc_native_generation_payloads
    authority,  \* g_bhrc_native_expedition_authority and the world phase
    hot,        \* newest hot snapshot revision of each member
    counter,    \* g_bhrc_host_admission_reservation_counter
    ctl,        \* the control thread: pc and the reservation it carries
    game,       \* the game thread inside ConsumeBhrcInboundNativeEvent
    clear,      \* each thread's place in ClearBhrcNativeAdmissionState
    lose,       \* the NRSC thread's place in ClearBhrcNativeAdmissionForPeer
    work,       \* a thread sending generation payloads
    client,     \* what each member has asked, been told and sent
    history     \* what happened so far (history variable)

vars == <<attempts, pins, slots, cache, authority, hot, counter, ctl, game,
          clear, lose, work, client, history>>

-----------------------------------------------------------------------------
\* Records and their empty values.

\* consumed_event_mask is `status'; sent_event_mask is `sent'; expires_tick_ms
\* is whether it has passed.
NoAttempt == [serial |-> 0, peer |-> 0, nonce |-> 0, gen |-> 0, rev |-> 0,
              status |-> FALSE, sent |-> {}, expired |-> FALSE]

CtlIdle  == [pc |-> "idle", place |-> 1, me |-> NoAttempt, prev |-> NoAttempt,
             rev |-> 0, late |-> {}]
GameIdle == [pc |-> "idle", peer |-> 0, nonce |-> 0, gen |-> 0]
LoseIdle == [pc |-> "idle", peer |-> 0, left |-> {}]
WorkIdle == [pc |-> "idle", peer |-> 0, to |-> {}, load |-> {}]

Payloads == [gen : Gens, event : {"owner", "ready"}]
Tuples   == [peer : Peers, nonce : Nonces, gen : Gens]

Tuple(a)     == [peer |-> a.peer, nonce |-> a.nonce, gen |-> a.gen]
Addressee(a) == [peer |-> a.peer, nonce |-> a.nonce, gen |-> a.gen,
                 status |-> a.status, sent |-> a.sent]

Live      == {i \in Places : attempts[i].serial # 0}
Mine(p)   == {i \in Live : attempts[i].peer = p}
Usable    == {i \in Places : i \notin Live \/ attempts[i].expired}
Least(S)  == CHOOSE i \in S : \A j \in S : i <= j

CtlFree  == ctl.pc = "idle" /\ clear["ctl"] = "none" /\ work["ctl"].pc = "idle"
GameFree == game.pc = "idle" /\ clear["game"] = "none" /\ work["game"].pc = "idle"
NrscFree == lose = LoseIdle /\ clear["nrsc"] = "none"

\* History: these attempts are over, and all earlier ones of their peers.
Over(ended) == [history EXCEPT !.lost = [p \in Peers |->
    LET S == {@[p]} \cup {a.serial : a \in {b \in ended : b.peer = p}}
    IN  CHOOSE n \in S : \A m \in S : m <= n]]

\* The pins left when those of the serials in S are reset.
WithoutSerials(S) == {k \in pins : k.serial \notin S}

-----------------------------------------------------------------------------
\* Reserve: HandleBhrcExpeditionProbeRequest up to its first unlock.

\* Faulty: takes the first usable place before looking for the peer's own.
FirstUsable(p) == Least(Usable \cup Mine(p))

\* The peer's own attempt wins over any earlier free or expired place.
PlaceFor(p) == IF Mine(p) # {} THEN Least(Mine(p)) ELSE Least(Usable)

\* Faulty: a retry under a new nonce counts as the same tuple.
SamePeerAndGen(a, b) == a.serial # 0 /\ a.peer = b.peer /\ a.gen = b.gen

\* SameBhrcHostAdmissionTuple.
SameTuple(a, b) == a.serial # 0 /\ Tuple(a) = Tuple(b)

\* Faulty: a retry of the same tuple forgets the revision it had pinned.
InheritMasks(prev, next) ==
    IF SameTuple(prev, next)
    THEN [next EXCEPT !.status = prev.status, !.sent = prev.sent]
    ELSE next

\* A retry of the same tuple keeps what its attempt has achieved.
Inherit(prev, next) ==
    IF SameTuple(prev, next)
    THEN [next EXCEPT !.status = prev.status, !.sent = prev.sent, !.rev = prev.rev]
    ELSE next

\* EvaluateBhrcExpeditionHostPhase and HasExactBhrcFullPgdHotSnapshot: a running
\* expedition, a returning member whose hot snapshot the host has.
Ask(p) ==
    /\ CtlFree
    /\ authority.gen # 0 /\ authority.running /\ hot[p] # 0
    /\ ~client[p].sent
    /\ counter < MaxSerial
    /\ ctl' = [CtlIdle EXCEPT !.pc = "reserve",
                  !.me = [NoAttempt EXCEPT !.peer = p, !.nonce = client[p].nonce,
                                           !.gen = authority.gen]]
    /\ UNCHANGED <<attempts, pins, slots, cache, authority, hot, counter, game,
                   clear, lose, work, client, history>>

\* ReserveBhrcHostAdmissionAttempt, for the generation that was read.
Reserve ==
    /\ ctl.pc = "reserve"
    /\ LET p    == ctl.me.peer
           i    == PlaceFor(p)
           next == Inherit(attempts[i], [ctl.me EXCEPT !.serial = counter + 1])
       IN  IF Mine(p) \cup Usable = {}
           THEN ctl' = CtlIdle /\ UNCHANGED <<attempts, counter, history>>
           ELSE /\ attempts' = [attempts EXCEPT ![i] = next]
                /\ counter' = counter + 1
                /\ ctl' = [CtlIdle EXCEPT !.pc = "pin", !.place = i, !.me = next,
                                          !.prev = attempts[i]]
                /\ history' = Over({attempts[i]} \ {attempts[j] : j \in Mine(p)})
    /\ UNCHANGED <<pins, slots, cache, authority, hot, game, clear, lose, work,
                   client>>

-----------------------------------------------------------------------------
\* PinBhrcFullPgdRestoreSnapshotForAttempt, for a reservation ("pin") or for a
\* delivery ("repin").  Its reads are one step: no other thread adds a pin, and
\* PinInstall looks at the attempt again.

Pinning == ctl.pc \in {"pin", "repin"}
Pinned  == IF ctl.pc \in {"pin", "install"} THEN "respond" ELSE "copy"
NotPinned(pc) == IF pc \in {"pin", "install"} THEN "undo" ELSE "idle"

Current(serial) == {i \in Live : attempts[i].serial = serial}
Unexpired(S)    == {i \in S : ~attempts[i].expired}

\* The pin that is already this attempt's own.
OwnPins(a) == {k \in pins : /\ k.serial = a.serial /\ Tuple(k) = Tuple(a)
                            /\ a.rev \in {0, k.rev}}

\* The revision to pin: the one the attempt had, from another pin of its peer
\* or from the hot store, or else the newest.
Candidates(a) ==
    IF a.rev # 0 /\ \E k \in pins : k.peer = a.peer /\ k.gen = a.gen /\ k.rev = a.rev
    THEN {a.rev}
    ELSE {r \in {hot[a.peer]} : r # 0 /\ a.rev \in {0, r}}

PinRead ==
    /\ Pinning
    /\ \/ \E i \in Unexpired(Current(ctl.me.serial)) :
            LET a == attempts[i] IN
            \/ \E k \in OwnPins(a) :
                 ctl' = [ctl EXCEPT !.pc = Pinned, !.rev = k.rev]
            \/ /\ OwnPins(a) = {}
               /\ \E r \in Candidates(a) :
                    ctl' = [ctl EXCEPT !.rev = r,
                              !.pc = IF @ = "pin" THEN "install" ELSE "reinstall"]
       \/ ctl' = [ctl EXCEPT !.pc = NotPinned(@)]
    /\ UNCHANGED <<attempts, pins, slots, cache, authority, hot, counter, game,
                   clear, lose, work, client, history>>

\* Under both locks: the attempt is still there, and has pinned nothing else.
PinInstall ==
    /\ ctl.pc \in {"install", "reinstall"}
    /\ \/ \E i \in Unexpired(Current(ctl.me.serial)) :
            /\ attempts[i].rev \in {0, ctl.rev}
            /\ OwnPins(attempts[i]) # {} \/ Cardinality(pins) < PinCap
            /\ pins' = (pins \ OwnPins(attempts[i])) \cup
                       {[serial |-> ctl.me.serial, peer |-> ctl.me.peer,
                         nonce |-> ctl.me.nonce, gen |-> ctl.me.gen,
                         rev |-> ctl.rev]}
            /\ attempts' = [attempts EXCEPT ![i].rev = ctl.rev]
            /\ ctl' = [ctl EXCEPT !.pc = Pinned]
       \/ /\ ctl' = [ctl EXCEPT !.pc = NotPinned(@)]
          /\ UNCHANGED <<attempts, pins>>
    /\ UNCHANGED <<slots, cache, authority, hot, counter, game, clear, lose,
                   work, client, history>>

-----------------------------------------------------------------------------
\* The answer, and what follows it.

\* The invite to the expedition lobby and the response itself; the member
\* learns the generation it is admitted to.
Respond ==
    /\ ctl.pc = "respond"
    /\ \/ /\ client' = IF client[ctl.me.peer].nonce = ctl.me.nonce
                       THEN [client EXCEPT ![ctl.me.peer].told = ctl.me.gen]
                       ELSE client
          /\ ctl' = [ctl EXCEPT !.pc = "commit"]
       \/ ctl' = [ctl EXCEPT !.pc = "undo"] /\ UNCHANGED client
    /\ UNCHANGED <<attempts, pins, slots, cache, authority, hot, counter, game,
                   clear, lose, work, history>>

\* Faulty: restores the earlier attempt whatever the place now holds.
HeldAtReserve == TRUE

\* The place still holds this reservation.
StillReserved == attempts[ctl.place].serial = ctl.me.serial

\* CommitBhrcHostAdmissionAttempt.
CommitCheck ==
    /\ ctl.pc = "commit"
    /\ ctl' = [ctl EXCEPT !.pc = IF StillReserved THEN "dropprev" ELSE "lost"]
    /\ UNCHANGED <<attempts, pins, slots, cache, authority, hot, counter, game,
                   clear, lose, work, client, history>>

\* A commit that lost its reservation resets only its own pin; the attempt of
\* another peer whose place it had taken is not looked after.
CommitLost ==
    /\ ctl.pc = "lost"
    /\ pins' = WithoutSerials({ctl.me.serial})
    /\ history' = [history EXCEPT !.forgotten =
                     IF ctl.prev.peer \in {0, ctl.me.peer} THEN @
                     ELSE @ \cup {ctl.prev.serial}]
    /\ ctl' = CtlIdle
    /\ UNCHANGED <<attempts, slots, cache, authority, hot, counter, game, clear,
                   lose, work, client>>

DropPrevPin ==
    /\ ctl.pc = "dropprev"
    /\ pins' = WithoutSerials({ctl.prev.serial})
    /\ ctl' = [ctl EXCEPT !.pc = "dropslots"]
    /\ UNCHANGED <<attempts, slots, cache, authority, hot, counter, game, clear,
                   lose, work, client, history>>

\* Faulty: nothing is replayed.
NoReplay(p) == WorkIdle

\* SendCachedBhrcGenerationPayloadsToPeer is under way.
Replay(p) == [WorkIdle EXCEPT !.pc = "look", !.peer = p]

\* Slots of the peer's earlier attempts go; then the generation's payloads are
\* replayed to it, and its snapshot is delivered.
DropOldSlots ==
    /\ ctl.pc = "dropslots"
    /\ slots' = {s \in slots : s.peer = ctl.me.peer => Tuple(s) = Tuple(ctl.me)}
    /\ ctl' = [ctl EXCEPT !.pc = "deliver"]
    /\ work' = [work EXCEPT !["ctl"] = Replay(ctl.me.peer)]
    /\ UNCHANGED <<attempts, pins, cache, authority, hot, counter, game, clear,
                   lose, client, history>>

\* What the place goes back to: the earlier attempt, unless it has expired.
Restored(prev) == IF prev.serial # 0 /\ ~prev.expired THEN prev ELSE NoAttempt

\* RollbackBhrcHostAdmissionAttempt: the place, then the pins.
Undo ==
    /\ ctl.pc = "undo"
    /\ attempts' = IF StillReserved
                   THEN [attempts EXCEPT ![ctl.place] = Restored(ctl.prev)]
                   ELSE attempts
    /\ ctl' = [ctl EXCEPT !.pc = "undopins"]
    /\ history' = Over({ctl.prev} \ {Restored(ctl.prev)})
    /\ UNCHANGED <<pins, slots, cache, authority, hot, counter, game, clear,
                   lose, work, client>>

\* Faulty: leaves the pin of an earlier attempt that has expired meanwhile.
UndoneOnly == {ctl.me.serial}

\* The serials a rollback unpins.
Undone == {ctl.me.serial} \cup IF ctl.prev.expired THEN {ctl.prev.serial} ELSE {}

UndoPins ==
    /\ ctl.pc = "undopins"
    /\ pins' = WithoutSerials(Undone)
    /\ ctl' = CtlIdle
    /\ UNCHANGED <<attempts, slots, cache, authority, hot, counter, game, clear,
                   lose, work, client, history>>

-----------------------------------------------------------------------------
\* SendBhrcFullPgdRestoreToAttempt: right after a commit, and every tick until
\* the status has been consumed.

Deliver ==
    /\ ctl.pc = "deliver" /\ work["ctl"].pc = "idle"
    /\ ctl' = [ctl EXCEPT !.pc = "repin"]
    /\ UNCHANGED <<attempts, pins, slots, cache, authority, hot, counter, game,
                   clear, lose, work, client, history>>

Redeliver(i) ==
    /\ CtlFree
    /\ i \in Unexpired(Live) /\ ~attempts[i].status
    /\ ctl' = [CtlIdle EXCEPT !.pc = "repin", !.me = attempts[i]]
    /\ UNCHANGED <<attempts, pins, slots, cache, authority, hot, counter, game,
                   clear, lose, work, client, history>>

\* CopyBhrcFullPgdPinnedRestoreForAttempt and the send.
CopyPinned ==
    /\ ctl.pc = "copy"
    /\ \/ \E k \in OwnPins([ctl.me EXCEPT !.rev = ctl.rev]) :
            history' = [history EXCEPT !.delivered = @ \cup {k}]
       \/ UNCHANGED history
    /\ ctl' = CtlIdle
    /\ UNCHANGED <<attempts, pins, slots, cache, authority, hot, counter, game,
                   clear, lose, work, client>>

-----------------------------------------------------------------------------
\* AdvanceBhrcNativeAdmissionTransport: expired attempts, their pins, slots.

ExpireAttempts ==
    /\ CtlFree
    /\ LET late == {attempts[i] : i \in {j \in Live : attempts[j].expired}} IN
       /\ ctl' = [CtlIdle EXCEPT !.pc = "xpins", !.late = late]
       /\ attempts' = [i \in Places |-> IF attempts[i] \in late THEN NoAttempt
                                        ELSE attempts[i]]
       /\ history' = Over(late)
    /\ UNCHANGED <<pins, slots, cache, authority, hot, counter, game, clear,
                   lose, work, client>>

ExpirePins ==
    /\ ctl.pc = "xpins"
    /\ pins' = WithoutSerials({a.serial : a \in ctl.late})
    /\ ctl' = [ctl EXCEPT !.pc = "xslots"]
    /\ UNCHANGED <<attempts, slots, cache, authority, hot, counter, game, clear,
                   lose, work, client, history>>

\* `aged' are the slots that are 300 s old.
ExpireSlots ==
    /\ ctl.pc = "xslots"
    /\ \E aged \in SUBSET slots :
         slots' = {s \in slots \ aged : Tuple(s) \notin {Tuple(a) : a \in ctl.late}}
    /\ ctl' = CtlIdle
    /\ UNCHANGED <<attempts, pins, cache, authority, hot, counter, game, clear,
                   lose, work, client, history>>

-----------------------------------------------------------------------------
\* The status event: HandleRevenantFixNativeEvent and
\* StoreBhrcInboundNativeEvent on the control thread.

\* A member that has been admitted sends its status once per nonce; the packet
\* is dropped unless an unexpired attempt of this generation asked for it.
StatusArrives(p) ==
    /\ CtlFree
    /\ client[p].told # 0 /\ ~client[p].sent
    /\ client' = [client EXCEPT ![p].sent = TRUE]
    /\ \/ \E i \in Unexpired(Mine(p)) :
            /\ attempts[i].nonce = client[p].nonce
            /\ attempts[i].gen = authority.gen /\ attempts[i].gen = client[p].told
            /\ ctl' = [CtlIdle EXCEPT !.pc = "store", !.me = attempts[i]]
       \/ UNCHANGED ctl
    /\ UNCHANGED <<attempts, pins, slots, cache, authority, hot, counter, game,
                   clear, lose, work, history>>

\* Faulty: stores although no slot is free.
HasRoomAlways(S) == TRUE

HasRoom(S) == Cardinality(S) < SlotCap

\* A known event is a duplicate; a new one takes a free or a consumed slot.
StoreStatus ==
    /\ ctl.pc = "store"
    /\ LET new  == [peer |-> ctl.me.peer, nonce |-> ctl.me.nonce,
                    gen |-> ctl.me.gen, consumed |-> FALSE]
           used == {s \in slots : s.consumed}
       IN  IF \E s \in slots : Tuple(s) = Tuple(new) THEN UNCHANGED slots
           ELSE \/ HasRoom(slots) /\ slots' = slots \cup {new}
                \/ \E s \in used : slots' = (slots \ {s}) \cup {new}
                \/ ~HasRoom(slots) /\ used = {} /\ UNCHANGED slots
    /\ ctl' = CtlIdle
    /\ UNCHANGED <<attempts, pins, cache, authority, hot, counter, game, clear,
                   lose, work, client, history>>

\* ConsumeBhrcInboundNativeEvent on the game thread: read the attempt, take the
\* slot, mark the attempt, replay the generation's payloads.
Consume(p) ==
    /\ GameFree
    /\ \E i \in Unexpired(Mine(p)) :
         game' = [pc |-> "take", peer |-> p, nonce |-> attempts[i].nonce,
                  gen |-> attempts[i].gen]
    /\ UNCHANGED <<attempts, pins, slots, cache, authority, hot, counter, ctl,
                   clear, lose, work, client, history>>

TakeSlot ==
    /\ game.pc = "take"
    /\ LET open == {s \in slots : ~s.consumed /\ Tuple(s) = Tuple(game)} IN
       IF open = {} THEN game' = GameIdle /\ UNCHANGED <<slots, history>>
       ELSE /\ slots' = (slots \ open) \cup {[s EXCEPT !.consumed = TRUE] : s \in open}
            /\ history' = [history EXCEPT !.consumed = @ \cup {Tuple(game)}]
            /\ game' = [game EXCEPT !.pc = "mark"]
    /\ UNCHANGED <<attempts, pins, cache, authority, hot, counter, ctl, clear,
                   lose, work, client>>

\* MarkBhrcHostAdmissionEvent finds the attempt by peer and nonce, and renews it.
Marked(p, nonce) == {i \in Mine(p) : attempts[i].nonce = nonce}

MarkStatus ==
    /\ game.pc = "mark"
    /\ attempts' = [i \in Places |->
                      IF i \in Marked(game.peer, game.nonce)
                      THEN [attempts[i] EXCEPT !.status = TRUE, !.expired = FALSE]
                      ELSE attempts[i]]
    /\ work' = [work EXCEPT !["game"] = Replay(game.peer)]
    /\ game' = GameIdle
    /\ UNCHANGED <<pins, slots, cache, authority, hot, counter, ctl, clear,
                   lose, client, history>>

-----------------------------------------------------------------------------
\* Generation payloads.  A capture is stored and spread to every attempt; a
\* replay sends what is stored to one attempt.

\* CaptureBhrcHostNativeEvent on the game thread, the promotion of a pending
\* event on the control thread: the authority is read first.
Capture(t, event) ==
    /\ IF t = "ctl" THEN CtlFree ELSE GameFree
    /\ authority.gen # 0
    /\ work' = [work EXCEPT ![t] = [WorkIdle EXCEPT !.pc = "capture",
                  !.load = {[gen |-> authority.gen, event |-> event]}]]
    /\ UNCHANGED <<attempts, pins, slots, cache, authority, hot, counter, ctl,
                   game, clear, lose, client, history>>

\* StoreBhrcHostGenerationPayload: payloads of another generation go first.
StorePayload(t) ==
    /\ work[t].pc = "capture"
    /\ cache' = work[t].load \cup
                {m \in cache : \A new \in work[t].load : m.gen = new.gen}
    /\ work' = [work EXCEPT ![t].pc = "spread"]
    /\ UNCHANGED <<attempts, pins, slots, authority, hot, counter, ctl, game,
                   clear, lose, client, history>>

Spread(t) ==
    /\ work[t].pc = "spread"
    /\ work' = [work EXCEPT ![t].pc = "send",
                            ![t].to = {Addressee(attempts[i]) : i \in Live}]
    /\ UNCHANGED <<attempts, pins, slots, cache, authority, hot, counter, ctl,
                   game, clear, lose, client, history>>

\* SendCachedBhrcGenerationPayloadsToPeer reads the attempt, then the payloads.
AttemptOf(p) == {Addressee(attempts[i]) : i \in Mine(p)}

Look(t) ==
    /\ work[t].pc = "look"
    /\ LET found == AttemptOf(work[t].peer) IN
       work' = [work EXCEPT ![t] = IF found = {} THEN WorkIdle
                                   ELSE [@ EXCEPT !.pc = "cache", !.to = found]]
    /\ UNCHANGED <<attempts, pins, slots, cache, authority, hot, counter, ctl,
                   game, clear, lose, client, history>>

CopyCache(t) ==
    /\ work[t].pc = "cache"
    /\ work' = [work EXCEPT ![t].pc = "send", ![t].load = cache]
    /\ UNCHANGED <<attempts, pins, slots, cache, authority, hot, counter, ctl,
                   game, clear, lose, client, history>>

\* SendBhrcGenerationPayloadToAttempt: judged by the thread's copy of the
\* attempt.
Releasable(a, m) ==
    /\ a.gen = m.gen
    /\ m.event = "ready" => a.status
    /\ m.event \notin a.sent

\* What is left to do after the attempt a has been offered m: a replay reads
\* its attempt again (peer # 0), a spread goes on with the next one.
Remaining(w, a, m) ==
    IF w.peer # 0 THEN [w EXCEPT !.pc = "refresh", !.load = @ \ {m}]
    ELSE [w EXCEPT !.to = @ \ {a}]

Send(t) ==
    /\ work[t].pc = "send"
    /\ \E a \in work[t].to, m \in work[t].load :
         /\ work' = [work EXCEPT ![t] = Remaining(@, a, m)]
         /\ IF Releasable(a, m)
            THEN /\ history' = [history EXCEPT !.offered = @ \cup
                      {[peer |-> a.peer, nonce |-> a.nonce, gen |-> a.gen,
                        event |-> m.event]}]
                 /\ \/ attempts' = [i \in Places |->
                         IF i \in Marked(a.peer, a.nonce)
                         THEN [attempts[i] EXCEPT !.sent = @ \cup {m.event},
                                                  !.expired = FALSE]
                         ELSE attempts[i]]
                    \/ UNCHANGED attempts
            ELSE UNCHANGED <<attempts, history>>
    /\ UNCHANGED <<pins, slots, cache, authority, hot, counter, ctl, game,
                   clear, lose, client>>

\* SnapshotBhrcHostAdmissionAttempt between two payloads of a replay.
Refresh(t) ==
    /\ work[t].pc = "refresh"
    /\ LET w == work[t]
           again == {Addressee(attempts[i]) : i \in Unexpired(
                        {j \in Mine(w.peer) : \E a \in w.to : attempts[j].nonce = a.nonce})}
       IN  work' = [work EXCEPT ![t].pc = "send", ![t].to = again]
    /\ UNCHANGED <<attempts, pins, slots, cache, authority, hot, counter, ctl,
                   game, clear, lose, client, history>>

Sent(t) ==
    /\ work[t].pc = "send" /\ (work[t].to = {} \/ work[t].load = {})
    /\ work' = [work EXCEPT ![t] = WorkIdle]
    /\ UNCHANGED <<attempts, pins, slots, cache, authority, hot, counter, ctl,
                   game, clear, lose, client, history>>

-----------------------------------------------------------------------------
\* The authority generation and ClearBhrcNativeAdmissionState.

\* TryCommitPendingNativeExpeditionAuthority on the host: snapshots of the same
\* expedition are rebound to the new generation, those of another are dropped.
CommitAuthority ==
    /\ CtlFree
    /\ authority.last < MaxGen
    /\ \E running \in BOOLEAN :
         authority' = [gen |-> authority.last + 1, last |-> authority.last + 1,
                       running |-> running]
    /\ hot' \in {hot, [p \in Peers |-> 0]}
    /\ clear' = [clear EXCEPT !["ctl"] = "attempts"]
    /\ UNCHANGED <<attempts, pins, slots, cache, counter, ctl, game, lose, work,
                   client, history>>

\* InvalidateNativeExpeditionEvidenceForManager.
RetireAuthority ==
    /\ "retire" \in Upsets /\ GameFree
    /\ authority.gen # 0
    /\ authority' = [authority EXCEPT !.gen = 0, !.running = FALSE]
    /\ clear' = [clear EXCEPT !["game"] = "attempts"]
    /\ UNCHANGED <<attempts, pins, slots, cache, hot, counter, ctl, game, lose,
                   work, client, history>>

\* ClearNrscActivePeers: the whole state, then each peer once more.
ResetPeers ==
    /\ "reset" \in Upsets /\ NrscFree
    /\ Live # {}
    /\ clear' = [clear EXCEPT !["nrsc"] = "attempts"]
    /\ lose' = [LoseIdle EXCEPT !.left = Peers]
    /\ UNCHANGED <<attempts, pins, slots, cache, authority, hot, counter, ctl,
                   game, work, client, history>>

ClearAttempts(t) ==
    /\ clear[t] = "attempts"
    /\ attempts' = [i \in Places |-> NoAttempt]
    /\ history' = [history EXCEPT !.lost = [p \in Peers |-> counter]]
    /\ clear' = [clear EXCEPT ![t] = "slots"]
    /\ UNCHANGED <<pins, slots, cache, authority, hot, counter, ctl, game, lose,
                   work, client>>

ClearSlots(t) ==
    /\ clear[t] = "slots"
    /\ slots' = {}
    /\ clear' = [clear EXCEPT ![t] = "cache"]
    /\ UNCHANGED <<attempts, pins, cache, authority, hot, counter, ctl, game,
                   lose, work, client, history>>

ClearCache(t) ==
    /\ clear[t] = "cache"
    /\ cache' = {}
    /\ clear' = [clear EXCEPT ![t] = "pins"]
    /\ UNCHANGED <<attempts, pins, slots, authority, hot, counter, ctl, game,
                   lose, work, client, history>>

ClearPins(t) ==
    /\ clear[t] = "pins"
    /\ pins' = {}
    /\ clear' = [clear EXCEPT ![t] = "none"]
    /\ UNCHANGED <<attempts, slots, cache, authority, hot, counter, ctl, game,
                   lose, work, client, history>>

-----------------------------------------------------------------------------
\* ClearBhrcNativeAdmissionForPeer: three tables, one after the other.

Losing(p) ==
    /\ attempts' = [i \in Places |-> IF i \in Mine(p) THEN NoAttempt ELSE attempts[i]]
    /\ history' = [history EXCEPT !.lost[p] = counter]
    /\ lose' = [pc |-> "slots", peer |-> p, left |-> lose.left \ {p}]
    /\ UNCHANGED <<pins, slots, cache, authority, hot, counter, ctl, game,
                   clear, work, client>>

\* SetNrscPeerActive reports the peer inactive.
LosePeer(p) ==
    /\ "lose" \in Upsets /\ NrscFree
    /\ Mine(p) # {} \/ \E x \in slots \cup pins : x.peer = p
    /\ Losing(p)

\* The peers left after a reset, in the order of their table.
LoseNext ==
    /\ lose.pc = "idle" /\ lose.left # {} /\ clear["nrsc"] = "none"
    /\ Losing(Least(lose.left))

LosePeerSlots ==
    /\ lose.pc = "slots"
    /\ slots' = {s \in slots : s.peer # lose.peer}
    /\ lose' = [lose EXCEPT !.pc = "pins"]
    /\ UNCHANGED <<attempts, pins, cache, authority, hot, counter, ctl, game,
                   clear, work, client, history>>

LosePeerPins ==
    /\ lose.pc = "pins"
    /\ pins' = {k \in pins : k.peer # lose.peer}
    /\ lose' = [LoseIdle EXCEPT !.left = lose.left]
    /\ UNCHANGED <<attempts, slots, cache, authority, hot, counter, ctl, game,
                   clear, work, client, history>>

-----------------------------------------------------------------------------
\* Time, the members and the game.

\* The expiry of one reservation passes, in the table or in the copy that a
\* rollback may put back.
Elapse(serial) ==
    /\ "expire" \in Upsets
    /\ \/ \E i \in Current(serial) : ~attempts[i].expired
       \/ ctl.prev.serial = serial /\ ~ctl.prev.expired
    /\ attempts' = [i \in Places |->
                      IF i \in Current(serial)
                      THEN [attempts[i] EXCEPT !.expired = TRUE] ELSE attempts[i]]
    /\ ctl' = IF ctl.prev.serial = serial THEN [ctl EXCEPT !.prev.expired = TRUE]
              ELSE ctl
    /\ UNCHANGED <<pins, slots, cache, authority, hot, counter, game, clear,
                   lose, work, client, history>>

\* The member starts over under a fresh nonce (peer loss or its own lifetime).
FreshNonce(p) ==
    /\ client[p].nonce < MaxNonce
    /\ client' = [client EXCEPT ![p] = [nonce |-> @.nonce + 1, told |-> 0,
                                        sent |-> FALSE]]
    /\ UNCHANGED <<attempts, pins, slots, cache, authority, hot, counter, ctl,
                   game, clear, lose, work, history>>

\* A snapshot the member published is complete (HandleRevenantFixFullPgdChunk).
Publish(p) ==
    /\ CtlFree
    /\ authority.gen # 0 /\ hot[p] < MaxRev
    /\ hot' = [hot EXCEPT ![p] = @ + 1]
    /\ UNCHANGED <<attempts, pins, slots, cache, authority, counter, ctl, game,
                   clear, lose, work, client, history>>

\* The host's world becomes stable under this generation, or stops being so.
WorldChanges ==
    /\ "world" \in Upsets /\ GameFree
    /\ authority.gen # 0
    /\ authority' = [authority EXCEPT !.running = ~@]
    /\ UNCHANGED <<attempts, pins, slots, cache, hot, counter, ctl, game, clear,
                   lose, work, client, history>>

-----------------------------------------------------------------------------
Init ==
    /\ attempts = [i \in Places |-> NoAttempt]
    /\ pins = {} /\ slots = {} /\ cache = {}
    /\ authority = [gen |-> 0, last |-> 0, running |-> FALSE]
    /\ hot = [p \in Peers |-> 0]
    /\ counter = 0
    /\ ctl = CtlIdle /\ game = GameIdle /\ lose = LoseIdle
    /\ clear = [t \in Threads |-> "none"]
    /\ work = [t \in Senders |-> WorkIdle]
    /\ client = [p \in Peers |-> [nonce |-> 1, told |-> 0, sent |-> FALSE]]
    /\ history = [lost |-> [p \in Peers |-> 0], consumed |-> {}, offered |-> {},
                  delivered |-> {}, forgotten |-> {}]

RequestStep  == (\E p \in Peers : Ask(p)) \/ Reserve \/ PinRead \/ PinInstall
                \/ Respond
CommitStep   == CommitCheck \/ CommitLost \/ DropPrevPin \/ DropOldSlots
RollbackStep == Undo \/ UndoPins
DeliverStep  == Deliver \/ (\E i \in Places : Redeliver(i)) \/ CopyPinned
ExpireStep   == ExpireAttempts \/ ExpirePins \/ ExpireSlots
StatusStep   == (\E p \in Peers : StatusArrives(p) \/ Consume(p))
                \/ StoreStatus \/ TakeSlot \/ MarkStatus
PayloadStep  == \E t \in Senders :
    \/ \E event \in Events : Capture(t, event)
    \/ StorePayload(t) \/ Spread(t) \/ Look(t) \/ CopyCache(t) \/ Send(t)
    \/ Refresh(t) \/ Sent(t)
ClearStep    == \/ CommitAuthority \/ RetireAuthority \/ ResetPeers
                \/ \E t \in Threads : ClearAttempts(t) \/ ClearSlots(t)
                                      \/ ClearCache(t) \/ ClearPins(t)
LoseStep     == (\E p \in Peers : LosePeer(p)) \/ LoseNext \/ LosePeerSlots
                \/ LosePeerPins
WorldStep    == \/ \E s \in 1..MaxSerial : Elapse(s)
                \/ \E p \in Peers : FreshNonce(p) \/ Publish(p)
                \/ WorldChanges

Next == \/ RequestStep \/ CommitStep \/ RollbackStep \/ DeliverStep \/ ExpireStep
        \/ StatusStep \/ PayloadStep \/ ClearStep \/ LoseStep \/ WorldStep

Spec == Init /\ [][Next]_vars

-----------------------------------------------------------------------------
\* Properties.

AttemptRecords == [serial : Serials, peer : 0..MaxPeer, nonce : Nonces, gen : Gens,
                   rev : Revs, status : BOOLEAN, sent : SUBSET {"owner", "ready"},
                   expired : BOOLEAN]
PinRecords == [serial : Serials, peer : 0..MaxPeer, nonce : Nonces, gen : Gens,
               rev : Revs]
AddresseeRecords == [peer : 0..MaxPeer, nonce : Nonces, gen : Gens,
                     status : BOOLEAN, sent : SUBSET {"owner", "ready"}]

\* Type and capacities: neither the slots nor the pins outgrow their arrays.
TypeOK ==
    /\ attempts \in [Places -> AttemptRecords]
    /\ pins \subseteq PinRecords /\ Cardinality(pins) <= PinCap
    /\ slots \subseteq [peer : 0..MaxPeer, nonce : Nonces, gen : Gens,
                       consumed : BOOLEAN]
    /\ Cardinality(slots) <= SlotCap
    /\ cache \subseteq Payloads
    /\ authority \in [gen : Gens, last : Gens, running : BOOLEAN]
    /\ hot \in [Peers -> Revs]
    /\ counter \in Serials
    /\ ctl \in [pc : {"idle", "reserve", "pin", "repin", "install", "reinstall",
                      "respond", "commit", "lost", "dropprev", "dropslots", "deliver",
                      "copy", "undo", "undopins", "xpins", "xslots", "store"},
                place : Places, me : AttemptRecords, prev : AttemptRecords,
                rev : Revs, late : SUBSET AttemptRecords]
    /\ game \in [pc : {"idle", "take", "mark"}, peer : 0..MaxPeer, nonce : Nonces,
                 gen : Gens]
    /\ clear \in [Threads -> {"none", "attempts", "slots", "cache", "pins"}]
    /\ lose \in [pc : {"idle", "slots", "pins"}, peer : 0..MaxPeer,
                 left : SUBSET Peers]
    /\ work \in [Senders ->
                 [pc : {"idle", "capture", "spread", "look", "cache", "send",
                        "refresh"},
                  peer : 0..MaxPeer, to : SUBSET AddresseeRecords,
                  load : SUBSET Payloads]]
    /\ client \in [Peers -> [nonce : Nonces, told : Gens, sent : BOOLEAN]]
    /\ history.lost \in [Peers -> Serials]
    /\ history.forgotten \subseteq Serials
    /\ history.consumed \subseteq [peer : 0..MaxPeer, nonce : Nonces, gen : Gens]
    /\ history.offered \subseteq [peer : 0..MaxPeer, nonce : Nonces, gen : Gens,
                                 event : {"owner", "ready"}]
    /\ history.delivered \subseteq PinRecords
    /\ DOMAIN history = {"lost", "forgotten", "consumed", "offered", "delivered"}

\* A member owns at most one attempt, however its requests, expiries of other
\* members' places and rollbacks follow one another: marks, deliveries and
\* replays look an attempt up by its peer and stop at the first.
OneAttemptPerPeer ==
    \A i, j \in Live : attempts[i].peer = attempts[j].peer => i = j

\* An attempt that ended with its peer, its expiry or the whole state does not
\* come back: a rollback in flight must not restore what was lost meanwhile.
LostStaysLost ==
    \A i \in Live : attempts[i].serial > history.lost[attempts[i].peer]

\* Ready and world events go out only for an attempt whose own status the
\* host's game has consumed, however attempts are replaced and rolled back.
StatusBeforeRelease ==
    \A o \in history.offered : o.event = "ready" => Tuple(o) \in history.consumed

\* Once both threads are done, an event of its generation that is stored has
\* been offered to a member's current attempt, if that attempt needs no status
\* for it or has it marked: whichever of the event, the status and the
\* attempt's commit came last has seen the others.
NoMissedRelease ==
    CtlFree /\ GameFree =>
    \A i \in Live : \A m \in cache :
        LET a == attempts[i] IN
        /\ a.gen = m.gen /\ a.nonce = client[a.peer].nonce
        /\ m.event = "ready" => a.status
        => [peer |-> a.peer, nonce |-> a.nonce, gen |-> a.gen, event |-> m.event]
             \in history.offered

\* A pinned snapshot is somebody's: of an attempt in the table, of one a request
\* or an expiry still has in hand, or about to go with its peer or with the
\* whole state.  Otherwise the pool of pins would fill up and no member could
\* be admitted any more.
PinHasOwner ==
    \A k \in pins :
        \/ Current(k.serial) # {}
        \/ k.serial \in {ctl.me.serial, ctl.prev.serial}
        \/ k.serial \in {a.serial : a \in ctl.late}
        \/ lose.peer = k.peer
        \/ \E t \in Threads : clear[t] # "none"
        \/ k.serial \in history.forgotten

\* One authorization attempt is delivered one revision, also when the member
\* publishes again, asks again, or the pin has to be made again.
OneRevisionPerAttempt ==
    \A d, e \in history.delivered :
        /\ Tuple(d) = Tuple(e)
        /\ d.serial > history.lost[d.peer] /\ e.serial > history.lost[e.peer]
        => d.rev = e.rev

\* A member is told that its admission is reserved only while the host holds
\* that reservation.
ToldIsHeld ==
    [][ctl.pc = "respond" /\ ctl'.pc = "commit" => StillReserved]_vars

=============================================================================
