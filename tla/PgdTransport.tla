---------------------------- MODULE PgdTransport ----------------------------
(***************************************************************************)
(* The replication of full PGD snapshots within one expedition             *)
(* (src/reconnect_fix.cpp: the hot store 3464-3722, publication and        *)
(* receipt of chunks 4018-4383 and 4608-4848; src/network_tools.cpp: the   *)
(* peer table 270-378).  Every node captures its own PGD once a second;    *)
(* the members publish theirs to the host, which relays all of them.       *)
(*                                                                         *)
(* Each node has three threads: the game thread captures, the control      *)
(* thread publishes or handles one packet at a time, callback threads      *)
(* report peers.  An action is a lock section, or the stretch between two. *)
(* A snapshot's payload, size and hash are its value; it travels in two    *)
(* chunks.  The lobbies do not change, so the store has one entry for each *)
(* owner and is never full.  How a restarted member gets its data back is  *)
(* FullPgdRestore's subject; here it is the step that installs the host's  *)
(* copy as the revision floor.                                             *)
(***************************************************************************)
EXTENDS Integers, FiniteSets, Sequences, SequencesExt

CONSTANTS
    Host, Members,      \* the nodes
    Changing,           \* the nodes whose PGD changes in the instance
    MaxVal,             \* values of a PGD; 0 is the default one of a new process
    MaxRev,             \* bounds the revisions an owner captures
    MaxSeq,             \* authority generations
    AssemblyCap,        \* kBhrcFullPgdInboundAssemblyCapacity
    MaxNet,             \* bounds the packets under way on a link
    MaxUpset            \* bounds recommits, failed sends, breaks, restarts, expiries

ASSUME NodesAssumption ==
    /\ Host \notin Members
    /\ Members # {} /\ IsFiniteSet(Members)
    /\ Changing \subseteq Members \cup {Host}

ASSUME BoundsAssumption ==
    /\ {MaxVal, MaxRev, MaxSeq, AssemblyCap, MaxNet} \subseteq Nat \ {0}
    /\ MaxUpset \in Nat

Nodes == Members \cup {Host}
Parts == {"first", "last"}

VARIABLES
    pgd,        \* pgd[n]: the value of n's own PlayerGameData
    hot,        \* hot[n][o]: g_bhrc_full_pgd_hot_snapshots of n
    authority,  \* the host's authority generation (commit_seq)
    receipt,    \* receipt[n]: g_bhrc_full_pgd_authority_receipt, 0: none
    assembly,   \* assembly[n]: g_bhrc_full_pgd_inbound_assemblies, oldest first
    peers,      \* peers[n]: g_active_nrsc_peer_steam_ids
    callback,   \* callback[n]: <<what, peer>> that callback threads still do
    net,        \* net[m][n]: packets under way from m to n
    up,         \* the members whose link to the host is up
    game,       \* game[n]: the generation n's game thread captures under, 0: none;
                \* game[Host]: 1 in a commit
    ctl,        \* ctl[n]: n's control thread
    history     \* what was captured, restarts and breaks (history variable)

vars == <<pgd, hot, authority, receipt, assembly, peers, callback, net, up, game,
          ctl, history>>

NoSnapshot == [seq |-> 0, rev |-> 0, val |-> 0, pending |-> FALSE]

Key(o, entry) ==
    [owner |-> o, seq |-> entry.seq, rev |-> entry.rev, val |-> entry.val]

NoKey == Key(Host, NoSnapshot)

\* A control thread between two of its rounds.
Idle == [pc |-> "idle", todo |-> {}, peers |-> {}, left |-> {}, key |-> NoKey,
         ok |-> TRUE]

\* Something goes wrong, which may cost the nodes in who a snapshot.
Upset(who) ==
    /\ history.upsets < MaxUpset
    /\ history' = [history EXCEPT !.upsets = @ + 1, !.upset = @ \cup who]

LinkUp(m, n) == {m, n} \ {Host} \subseteq up

-----------------------------------------------------------------------------
\* The hot store.

Held(n, o) == hot[n][o].seq # 0

\* StoreBhrcFullPgdHotSnapshot: an entry of another generation is dropped; an
\* older revision, or the same one with another payload, is refused; revision
\* 0 asks for the next one; the same payload again changes nothing.
AcceptedAnyway(entry, rev, val) == FALSE

Refused(entry, rev, val) ==
    /\ rev # 0
    /\ rev < entry.rev \/ (rev = entry.rev /\ val # entry.val)

Unchanged(entry, rev, val) == val = entry.val /\ rev <= entry.rev

NextRevision(entry, rev) == entry.rev + 1

Numbered(entry, rev) == IF rev = 0 THEN entry.rev + 1 ELSE rev

Snapshot(seq, rev, val, pending) ==
    [seq |-> seq, rev |-> rev, val |-> val, pending |-> pending]

Stored(old, seq, rev, val, pending) ==
    IF old.seq = seq /\ (Refused(old, rev, val) \/ Unchanged(old, rev, val))
    THEN old
    ELSE LET entry == IF old.seq = seq THEN old ELSE NoSnapshot
         IN  Snapshot(seq, Numbered(entry, rev), val, pending)

\* The same, with authoritative_replace.
Replaced(old, seq, rev, val, pending) ==
    LET entry == IF old.seq = seq THEN old ELSE NoSnapshot
    IN  Snapshot(seq, Numbered(entry, rev), val, pending)

-----------------------------------------------------------------------------
\* The game thread.

\* The player's data changes.
Play(n) ==
    /\ n \in Changing /\ pgd[n] < MaxVal
    /\ pgd' = [pgd EXCEPT ![n] = @ + 1]
    /\ UNCHANGED <<hot, authority, receipt, assembly, peers, callback, net, up,
                   game, ctl, history>>

\* CaptureBhrcLocalFullPgdMainThread.  The snapshot is stored to be published.
StoreCapture(n, seq) ==
    LET new == Stored(hot[n][n], seq, 0, pgd[n], TRUE)
    IN  /\ new.rev <= MaxRev
        /\ hot' = [hot EXCEPT ![n][n] = new]
        /\ history' = [history EXCEPT !.captured[n] =
                          @ \cup {[rev |-> new.rev, val |-> new.val]},
                       !.made[n] = @ \cup {Key(n, new)}]

\* The host captures under its own generation, which only its game thread sets.
HostCapture ==
    /\ game[Host] = 0
    /\ StoreCapture(Host, authority)
    /\ receipt' = [receipt EXCEPT ![Host] = authority]
    /\ UNCHANGED <<pgd, authority, assembly, peers, callback, net, up, game, ctl>>

\* A member reads the generation it has a receipt for, then serializes and
\* stores, when a relay may have brought a later one.
BeginCapture(n) ==
    /\ game[n] = 0 /\ receipt[n] # 0
    /\ game' = [game EXCEPT ![n] = receipt[n]]
    /\ UNCHANGED <<pgd, hot, authority, receipt, assembly, peers, callback, net,
                   up, ctl, history>>

EndCapture(n) ==
    /\ game[n] # 0
    /\ StoreCapture(n, game[n])
    /\ game' = [game EXCEPT ![n] = 0]
    /\ UNCHANGED <<pgd, authority, receipt, assembly, peers, callback, net, up,
                   ctl>>

\* The host commits its expedition authority anew, within one frame of its
\* game thread: first the generation, then, with the hot store locked, every
\* snapshot it holds is rebound to it and marked.
Commit ==
    /\ authority < MaxSeq /\ game[Host] = 0 /\ Upset({})
    /\ authority' = authority + 1
    /\ game' = [game EXCEPT ![Host] = 1]
    /\ UNCHANGED <<pgd, hot, receipt, assembly, peers, callback, net, up, ctl>>

Reconcile ==
    /\ game[Host] = 1
    /\ hot' = [hot EXCEPT ![Host] = [o \in Nodes |->
                  IF Held(Host, o)
                  THEN [@[o] EXCEPT !.seq = authority, !.pending = TRUE]
                  ELSE @[o]]]
    /\ receipt' = [receipt EXCEPT ![Host] = authority]
    /\ game' = [game EXCEPT ![Host] = 0]
    /\ UNCHANGED <<pgd, authority, assembly, peers, callback, net, up, ctl,
                   history>>

-----------------------------------------------------------------------------
\* The control thread publishes: AdvanceBhrcFullPgdSnapshotPublication.

Pending(n) == {Key(o, hot[n][o]) : o \in {p \in Nodes : hot[n][p].pending}}

CollectKeys(n) ==
    /\ ctl[n].pc = "idle" /\ Pending(n) # {}
    /\ ctl' = [ctl EXCEPT ![n] = [Idle EXCEPT !.pc = "peers",
                                              !.todo = Pending(n)]]
    /\ UNCHANGED <<pgd, hot, authority, receipt, assembly, peers, callback, net,
                   up, game, history>>

\* The host relays to every peer but the owner, a member sends its own to the
\* host while that is its active peer.
Targets(n, round, key) ==
    IF n = Host THEN round.peers \ {key.owner}
    ELSE IF key.owner = n THEN peers[n] \cap {Host} ELSE {}

\* The round of publication n goes on to a key, or ends.
NextKey(n, round) ==
    \/ /\ round.todo = {}
       /\ ctl' = [ctl EXCEPT ![n] = Idle]
    \/ \E key \in round.todo :
          LET left == Targets(n, round, key)
          IN  ctl' = [ctl EXCEPT ![n] =
                        [round EXCEPT !.pc = "send", !.key = key,
                                      !.todo = @ \ {key}, !.left = left,
                                      !.ok = n = Host \/ left # {}]]

CollectPeers(n) ==
    /\ ctl[n].pc = "peers"
    /\ NextKey(n, [ctl[n] EXCEPT !.peers = peers[n]])
    /\ UNCHANGED <<pgd, hot, authority, receipt, assembly, peers, callback, net,
                   up, game, history>>

\* SendBhrcFullPgdSnapshot: copies the payload if the store still has exactly
\* this snapshot, and sends its chunks until one fails.
StillStored(n, key) == Held(n, key.owner) /\ Key(key.owner, hot[n][key.owner]) = key

Chunks(key) == <<[key |-> key, part |-> "first", val |-> key.val],
                 [key |-> key, part |-> "last", val |-> key.val]>>

Send(n) ==
    /\ ctl[n].pc = "send"
    /\ \E p \in ctl[n].left, sent \in 0..2 :
          LET possible == StillStored(n, ctl[n].key) /\ LinkUp(n, p)
          IN  /\ IF possible
                 THEN \/ sent = 2 /\ UNCHANGED history
                      \/ sent < 2 /\ Upset({})
                 ELSE sent = 0 /\ UNCHANGED history
              /\ Len(net[n][p]) + sent <= MaxNet
              /\ net' = [net EXCEPT ![n][p] =
                           @ \o SubSeq(Chunks(ctl[n].key), 1, sent)]
              /\ ctl' = [ctl EXCEPT ![n].left = @ \ {p}, ![n].ok = @ /\ sent = 2]
    /\ UNCHANGED <<pgd, hot, authority, receipt, assembly, peers, callback, up,
                   game>>

\* MarkBhrcFullPgdSnapshotPublished, for a key that reached every target.
MarkAnyRevision(n, key) == Held(n, key.owner) /\ hot[n][key.owner].seq = key.seq

MarksPublished(n, key) == StillStored(n, key)

FinishKey(n) ==
    /\ ctl[n].pc = "send" /\ ctl[n].left = {}
    /\ LET key == ctl[n].key
       IN  hot' = IF ctl[n].ok /\ MarksPublished(n, key)
                  THEN [hot EXCEPT ![n][key.owner].pending = FALSE] ELSE hot
    /\ NextKey(n, ctl[n])
    /\ UNCHANGED <<pgd, authority, receipt, assembly, peers, callback, net, up,
                   game, history>>

-----------------------------------------------------------------------------
\* The control thread receives: HandleRevenantFixFullPgdChunk.

\* OwnerPublish at the host: the owner's own data, under the host's generation.
\* AuthorityRelay at a member: from the host, not older than its receipt.
Accepts(n, m, key) ==
    IF n = Host THEN key.owner = m /\ key.seq = authority
    ELSE m = Host /\ key.seq >= receipt[n]

\* BhrcFullPgdPacketMatchesAssembly.
Matches(a, from, key) == a.from = from /\ a.key = key

\* The table after a chunk: an assembly it belongs to, or a new one in a free
\* place or in that of the oldest; it becomes the youngest.  Expired ones are
\* dropped first.
NoEviction(table) == table

Places(table) ==
    IF Len(table) < AssemblyCap THEN table ELSE Tail(table)

WithChunk(table, from, chunk) ==
    LET part == <<chunk.part, chunk.val>>
        mine == {i \in DOMAIN table : Matches(table[i], from, chunk.key)}
    IN  IF mine = {}
        THEN Append(Places(table), [from |-> from, key |-> chunk.key, got |-> {part}])
        ELSE LET i == CHOOSE i \in mine : TRUE
                 got == {g \in table[i].got : g[1] # chunk.part}
             IN  Append(RemoveAt(table, i), [table[i] EXCEPT !.got = got \cup {part}])

Complete(a) == {g[1] : g \in a.got} = Parts

\* The hash of a body is the announced one when all its parts are of that value.
Exact(a, key) == \A g \in a.got : g[2] = key.val

Body(a) == (CHOOSE g \in a.got : g[1] = "last")[2]

\* The members whose chunks an expiry or an eviction discarded.
Discarded(old, table) ==
    LET kept(a) == \E b \in ToSet(table) : Matches(b, a.from, a.key) /\ a.got \subseteq b.got
    IN  {a.from : a \in {b \in ToSet(old) : ~kept(b)}} \cap Members

\* A chunk that passes the checks goes to the table, a relayed one after it has
\* published the receipt (an assembly lock later, which no other thread tells
\* apart).  A whole body goes to the store if its hash is the announced one.
Drop(n, m, chunk) ==
    /\ ~Accepts(n, m, chunk.key)
    /\ UNCHANGED <<ctl, receipt, assembly, history>>

Assemble(n, m, chunk) ==
    /\ Accepts(n, m, chunk.key)
    /\ receipt' = IF n = Host THEN receipt
                  ELSE [receipt EXCEPT ![n] = chunk.key.seq]
    /\ \E expired \in 0..Len(assembly[n]) :
          LET table == WithChunk(SubSeq(assembly[n], expired + 1,
                                        Len(assembly[n])), m, chunk)
              lost  == Discarded(assembly[n], table)
              mine  == Last(table)
              whole == Complete(mine)
          IN  /\ IF expired # 0 THEN Upset(lost)
                 ELSE history' = [history EXCEPT !.upset = @ \cup lost]
              /\ assembly' = [assembly EXCEPT ![n] =
                                IF whole THEN Front(table) ELSE table]
              /\ ctl' = IF whole /\ Exact(mine, chunk.key)
                        THEN [ctl EXCEPT ![n].pc = "store", ![n].key =
                                [chunk.key EXCEPT !.val = Body(mine)]]
                        ELSE ctl

TakeChunk(n, m) ==
    /\ ctl[n].pc = "idle" /\ net[m][n] # <<>>
    /\ net' = [net EXCEPT ![m][n] = Tail(@)]
    /\ LET chunk == Head(net[m][n]) IN Drop(n, m, chunk) \/ Assemble(n, m, chunk)
    /\ UNCHANGED <<pgd, hot, authority, peers, callback, up, game>>

StoreReceived(n) ==
    /\ ctl[n].pc = "store"
    /\ LET key == ctl[n].key
       IN  hot' = [hot EXCEPT ![n][key.owner] =
                     Stored(@, key.seq, key.rev, key.val, n = Host)]
    /\ ctl' = [ctl EXCEPT ![n] = Idle]
    /\ UNCHANGED <<pgd, authority, receipt, assembly, peers, callback, net, up,
                   game, history>>

-----------------------------------------------------------------------------
\* Peers.  SetNrscPeerActive changes the table, then, with that lock released,
\* marks the snapshots for publication or clears the peer's transport.

AddPeer(n, m) ==
    /\ LinkUp(n, m) /\ m \notin peers[n]
    /\ peers' = [peers EXCEPT ![n] = @ \cup {m}]
    /\ callback' = [callback EXCEPT ![n] = @ \cup {<<"mark", m>>}]
    /\ UNCHANGED <<pgd, hot, authority, receipt, assembly, net, up, game, ctl,
                   history>>

\* MarkBhrcFullPgdSnapshotsForPublish: all that the host holds, a member's own.
MarkForPublish(n, m) ==
    /\ <<"mark", m>> \in callback[n]
    /\ hot' = [hot EXCEPT ![n] = [o \in Nodes |->
                  IF Held(n, o) /\ n \in {Host, o}
                  THEN [@[o] EXCEPT !.pending = TRUE] ELSE @[o]]]
    /\ callback' = [callback EXCEPT ![n] = @ \ {<<"mark", m>>}]
    /\ UNCHANGED <<pgd, authority, receipt, assembly, peers, net, up, game, ctl,
                   history>>

LosePeer(n, m) ==
    /\ ~LinkUp(n, m) /\ m \in peers[n]
    /\ peers' = [peers EXCEPT ![n] = @ \ {m}]
    /\ callback' = [callback EXCEPT ![n] = @ \cup {<<"clear", m>>}]
    /\ UNCHANGED <<pgd, hot, authority, receipt, assembly, net, up, game, ctl,
                   history>>

\* ClearBhrcFullPgdTransportForPeer: the hot snapshots are retained.
ClearTransport(n, m) ==
    /\ <<"clear", m>> \in callback[n]
    /\ LET keep == {i \in DOMAIN assembly[n] : assembly[n][i].from # m}
       IN  \E place \in [1..Cardinality(keep) -> keep] :
              /\ \A i, j \in DOMAIN place : i < j => place[i] < place[j]
              /\ assembly' = [assembly EXCEPT ![n] =
                                [i \in DOMAIN place |-> assembly[n][place[i]]]]
    /\ callback' = [callback EXCEPT ![n] = @ \ {<<"clear", m>>}]
    /\ UNCHANGED <<pgd, hot, authority, receipt, peers, net, up, game, ctl,
                   history>>

-----------------------------------------------------------------------------
\* The environment.

\* What was under way between m and the host is lost.
Lost(m) == [net EXCEPT ![m][Host] = <<>>, ![Host][m] = <<>>]

Break(m) ==
    /\ m \in up /\ Upset({m})
    /\ up' = up \ {m}
    /\ net' = Lost(m)
    /\ UNCHANGED <<pgd, hot, authority, receipt, assembly, peers, callback, game,
                   ctl>>

Reconnect(m) ==
    /\ m \notin up /\ m \notin peers[Host] /\ Host \notin peers[m]
    /\ up' = up \cup {m}
    /\ UNCHANGED <<pgd, hot, authority, receipt, assembly, peers, callback, net,
                   game, ctl, history>>

\* The process of a member ends and a new one starts, with a default PGD.
Restart(m) ==
    /\ history.upsets < MaxUpset
    /\ history' = [history EXCEPT !.upsets = @ + 1, !.upset = @ \cup {m},
                                  !.blank = @ \cup {m}]
    /\ pgd' = [pgd EXCEPT ![m] = 0]
    /\ hot' = [hot EXCEPT ![m] = [o \in Nodes |-> NoSnapshot]]
    /\ receipt' = [receipt EXCEPT ![m] = 0]
    /\ assembly' = [assembly EXCEPT ![m] = <<>>]
    /\ peers' = [peers EXCEPT ![m] = {}]
    /\ callback' = [callback EXCEPT ![m] = {}]
    /\ net' = Lost(m)
    /\ up' = up \ {m}
    /\ game' = [game EXCEPT ![m] = 0]
    /\ ctl' = [ctl EXCEPT ![m] = Idle]
    /\ UNCHANGED authority

\* The final pass of a restore: the host's copy becomes the member's PGD and,
\* with its revision, the floor of the member's own snapshots.  The host's
\* control thread delivered it, after any chunk of the process before.
Restore(m) ==
    /\ m \in history.blank /\ Host \in peers[m] /\ m \in up
    /\ ~Held(m, m) /\ game[m] = 0 /\ ctl[Host].pc # "store"
    /\ hot[Host][m].seq = authority
    /\ LET copy == hot[Host][m]
       IN  /\ hot' = [hot EXCEPT ![m][m] =
                        Replaced(@, copy.seq, copy.rev, copy.val, FALSE)]
           /\ pgd' = [pgd EXCEPT ![m] = copy.val]
           /\ receipt' = [receipt EXCEPT ![m] = copy.seq]
    /\ history' = [history EXCEPT !.blank = @ \ {m}]
    /\ UNCHANGED <<authority, assembly, peers, callback, net, up, game, ctl>>

-----------------------------------------------------------------------------
Init ==
    /\ pgd = [n \in Nodes |-> 0]
    /\ hot = [n \in Nodes |-> [o \in Nodes |-> NoSnapshot]]
    /\ authority = 1
    /\ receipt = [n \in Nodes |-> 0]
    /\ assembly = [n \in Nodes |-> <<>>]
    /\ peers = [n \in Nodes |-> IF n = Host THEN Members ELSE {Host}]
    /\ callback = [n \in Nodes |-> {}]
    /\ net = [m \in Nodes |-> [n \in Nodes |-> <<>>]]
    /\ up = Members
    /\ game = [n \in Nodes |-> 0]
    /\ ctl = [n \in Nodes |-> Idle]
    /\ history = [captured |-> [n \in Nodes |-> {}],
                  made |-> [n \in Nodes |-> {}],
                  blank |-> {}, upset |-> {}, upsets |-> 0]

GameStep(n) ==
    \/ Play(n)
    \/ n \in Members /\ (BeginCapture(n) \/ EndCapture(n))

ControlStep(n) ==
    \/ CollectKeys(n) \/ CollectPeers(n) \/ Send(n) \/ FinishKey(n)
    \/ StoreReceived(n)
    \/ \E m \in Nodes : TakeChunk(n, m)

CallbackStep(n) ==
    \E m \in Nodes \ {n} : \/ Host \in {m, n} /\ (AddPeer(n, m) \/ LosePeer(n, m))
                           \/ MarkForPublish(n, m) \/ ClearTransport(n, m)

Next ==
    \/ \E n \in Nodes : GameStep(n) \/ ControlStep(n) \/ CallbackStep(n)
    \/ HostCapture \/ Commit \/ Reconcile
    \/ \E m \in Members : Break(m) \/ Reconnect(m) \/ Restart(m) \/ Restore(m)

Spec == Init /\ [][Next]_vars

-----------------------------------------------------------------------------
\* Properties.

Snapshots == [seq : 0..MaxSeq, rev : 0..MaxRev, val : 0..MaxVal, pending : BOOLEAN]
Keys == [owner : Nodes, seq : 0..MaxSeq, rev : 0..MaxRev, val : 0..MaxVal]
Packets == [key : Keys, part : Parts, val : 0..MaxVal]

TypeOK ==
    /\ pgd \in [Nodes -> 0..MaxVal]
    /\ hot \in [Nodes -> [Nodes -> Snapshots]]
    /\ authority \in 1..MaxSeq
    /\ receipt \in [Nodes -> 0..MaxSeq]
    /\ \A n \in Nodes :
          /\ Len(assembly[n]) <= AssemblyCap
          /\ \A i \in 1..Len(assembly[n]) :
                /\ assembly[n][i].from \in Nodes /\ assembly[n][i].key \in Keys
                /\ assembly[n][i].got \subseteq Parts \X (0..MaxVal)
    /\ peers \in [Nodes -> SUBSET Nodes]
    /\ callback \in [Nodes -> SUBSET ({"mark", "clear"} \X Nodes)]
    /\ \A m, n \in Nodes : ToSet(net[m][n]) \subseteq Packets
    /\ up \subseteq Members
    /\ game \in [Nodes -> 0..MaxSeq]
    /\ \A n \in Nodes :
          /\ ctl[n].pc \in {"idle", "peers", "send", "store"}
          /\ ctl[n].todo \subseteq Keys /\ ctl[n].key \in Keys
          /\ ctl[n].peers \cup ctl[n].left \subseteq Nodes /\ ctl[n].ok \in BOOLEAN
    /\ history.upset \cup history.blank \subseteq Members
    /\ history.upsets \in 0..MaxUpset

\* A node's copy of another one's PGD is, whole, one that this owner captured,
\* and within one generation it is replaced by newer ones only, whatever order
\* captures, recommits, chunks, evictions and restarts come in.
Replica == INSTANCE SnapshotReplica WITH
    Node <- Nodes, Rev <- 1..MaxRev, Val <- 0..MaxVal, Gen <- 1..MaxSeq,
    captured <- history.captured,
    copy <- [n \in Nodes |-> [o \in Nodes |->
               IF n = o \/ ~Held(n, o) THEN {}
               ELSE {[rev |-> hot[n][o].rev, val |-> hot[n][o].val,
                      seq |-> hot[n][o].seq]}]]

ImplementsReplica == Replica!Spec

\* The owner of a snapshot is ahead of every copy of it: a copy filed under the
\* generation it was captured in is not newer than the owner's own entry of that
\* generation, and has its contents at the same revision.  A restored owner
\* starts from the host's revision for this.
OwnerIsNewest ==
    \A n, o \in Nodes :
       LET copy == hot[n][o]
           own  == hot[o][o]
       IN  /\ Held(n, o) /\ Held(o, o) /\ own.seq = copy.seq
           /\ o \notin history.blank /\ Key(o, copy) \in history.made[o]
           => copy.rev < own.rev \/ (copy.rev = own.rev /\ copy.val = own.val)

\* A member that no link break, restart, expiry or eviction has touched and that
\* has nothing left to publish has its data at the host: what it marked published under the
\* host's generation is what the host holds, at that revision.  Not so while the
\* host holds a snapshot of an earlier generation, rebound, whose revision the
\* member's count, which began again at 1, has yet to pass.
Quiet(m) ==
    /\ ~hot[m][m].pending /\ ctl[m].pc = "idle" /\ net[m][Host] = <<>>
    /\ ctl[Host].pc # "store"

Rebound(m) == Held(Host, m) /\ Key(m, hot[Host][m]) \notin history.made[m]

PublishedIsHeld ==
    \A m \in Members \ history.upset :
       Held(m, m) /\ Quiet(m) /\ hot[m][m].seq = authority
       => \/ [hot[Host][m] EXCEPT !.pending = FALSE] = hot[m][m]
          \/ Rebound(m) /\ hot[Host][m].rev >= hot[m][m].rev

=============================================================================
