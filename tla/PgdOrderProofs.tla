--------------------------- MODULE PgdOrderProofs ---------------------------
(***************************************************************************)
(* In PgdTransport the owner of a snapshot stays ahead of every copy of    *)
(* it, for every number of members and every value of the bounds.          *)
(*                                                                         *)
(* What a node holds is not enough to prove it: a key on a link, in a      *)
(* round of publication or just assembled becomes a copy later, and a      *)
(* restored member takes the host's copy for its own, which must be ahead  *)
(* of all that is still under way of its earlier process.  The invariant   *)
(* speaks of all keys that are around, wherever they are.                  *)
(***************************************************************************)
EXTENDS PgdTransportProofs

\* The keys a node holds, has just assembled, is to send, and has sent.
Copies(n) == {Key(o, hot[n][o]) : o \in {p \in Nodes : Held(n, p)}}

Arrived(n) == IF ctl[n].pc = "store" THEN {ctl[n].key} ELSE {}

Carried(n) == ctl[n].todo \cup IF ctl[n].pc = "send" THEN {ctl[n].key} ELSE {}

OnLink(m, n) == {net[m][n][i].key : i \in 1..Len(net[m][n])}

Got(n) == Copies(n) \cup Arrived(n)

Passed(n) == Carried(n) \cup UNION {OnLink(n, m) : m \in Nodes}

Around == UNION {Got(n) \cup Passed(n) : n \in Nodes}

\* Those that have left node m and the host's store.
Beyond(m) ==
    (UNION {Got(n) : n \in Members \ {m}})
       \cup (UNION {Passed(n) : n \in Nodes \ {m}})

\* An entry is as new as a key of its generation.
Ahead(entry, key) ==
    key.rev < entry.rev \/ (key.rev = entry.rev /\ key.val = entry.val)

\* Where node m may send a key: the host relays it to all but the owner, a
\* member sends its own to the host.
Destinations(m, key) ==
    IF m = Host THEN Nodes \ {Host, key.owner}
    ELSE IF key.owner = m THEN {Host} ELSE {}

FlowOK ==
    /\ \A n \in Nodes : n \notin peers[n] /\ n \notin ctl[n].peers
    /\ \A n \in Nodes : ctl[n].pc = "send" =>
          ctl[n].left \subseteq Destinations(n, ctl[n].key)
    /\ \A m, n \in Nodes : \A key \in OnLink(m, n) : n \in Destinations(m, key)
    /\ \A n \in Nodes : \A key \in Arrived(n) : key.owner # n

\* The generation that may be in use: a commit has yet to bring in its own.
Now == IF game[Host] = 1 THEN authority - 1 ELSE authority

SeenOK ==
    /\ \A key \in Around : key.seq <= Now
    /\ \A o \in Nodes : \A key \in history.made[o] : key.seq <= Now

\* A member's game thread lags behind its receipt, its store behind both.
LagOK ==
    \A m \in Members :
       /\ receipt[m] <= Now /\ game[m] <= receipt[m] /\ hot[m][m].seq <= receipt[m]
       /\ game[m] # 0 => hot[m][m].seq <= game[m]

\* A member that has nothing of its own, a new process, has sent nothing of it.
EmptyOK ==
    \A m \in Members : ~Held(m, m) => \A key \in Passed(m) : key.owner # m

\* The owner is ahead of its own keys, wherever they are.
Behind(key) ==
    LET own == hot[key.owner][key.owner]
    IN  key \in history.made[key.owner] /\ key.owner \notin history.blank =>
           /\ own.seq # 0
           /\ key.seq < own.seq \/ (key.seq = own.seq /\ Ahead(own, key))

AheadOK == \A key \in Around : Behind(key)

\* What is beyond the host of the present generation came from the host, whose
\* own copy is as new; the host is about to store nothing of another one.
RelayOK ==
    \A m \in Members : \A key \in Beyond(m) : key.owner = m /\ key.seq = authority =>
       /\ hot[Host][m].seq = authority /\ Ahead(hot[Host][m], key)
       /\ \A next \in Arrived(Host) : next.owner = m => next.seq = authority

\* The inductive invariant, next to that of PgdTransportProofs.
OrderInv == FlowOK /\ SeenOK /\ LagOK /\ EmptyOK /\ AheadOK /\ RelayOK

-----------------------------------------------------------------------------
(* Keys and where they are. *)

SameKey(e, f) == e.seq = f.seq /\ e.rev = f.rev /\ e.val = f.val

\* Whatever is around is genuine.
LEMMA AroundIsGenuine ==
    ASSUME IInv, NEW n \in Nodes, NEW key \in Got(n) \cup Passed(n)
    PROVE  Genuine(key)
<1>1. CASE key \in Copies(n)
  <2>1. PICK o \in Nodes : Held(n, o) /\ key = Key(o, hot[n][o])
    BY <1>1 DEF Copies
  <2>q. QED
    BY <2>1, HeldIsGenuine DEF IInv
<1>2. CASE key \in Arrived(n) \/ key \in Carried(n)
  BY <1>2 DEF IInv, CtlOK, Arrived, Carried
<1>3. ASSUME NEW m \in Nodes, key \in OnLink(n, m) PROVE Genuine(key)
  BY <1>3 DEF IInv, NetOK, OnLink
<1>q. QED
  BY <1>1, <1>2, <1>3 DEF Got, Passed

LEMMA GenuineFacts ==
    ASSUME NEW key, Genuine(key)
    PROVE  /\ key.owner \in Nodes /\ key.seq \in Nat \ {0} /\ key.rev \in Nat \ {0}
           /\ key.val \in Nat
BY BoundsAssumption DEF Genuine

\* What an entry of the store is, and the numbers of it.
LEMMA EntryFacts ==
    ASSUME IInv, NEW n \in Nodes, NEW o \in Nodes
    PROVE  /\ hot[n][o] \in Snapshots
           /\ hot[n][o].seq \in Nat /\ hot[n][o].rev \in Nat /\ hot[n][o].val \in Nat
           /\ Held(n, o) => hot[n][o].rev # 0 /\ Key(o, hot[n][o]) \in Copies(n)
           /\ ~Held(n, o) => hot[n][o] = NoSnapshot
<1>1. /\ hot[n][o] \in Snapshots
      /\ Held(n, o) => Genuine(Key(o, hot[n][o]))
      /\ ~Held(n, o) => hot[n][o] = NoSnapshot
  BY HeldIsGenuine DEF IInv
<1>2. hot[n][o].seq \in Nat /\ hot[n][o].rev \in Nat /\ hot[n][o].val \in Nat
  BY <1>1, BoundsAssumption DEF Snapshots
<1>3. Held(n, o) => hot[n][o].rev # 0
  BY <1>1 DEF Genuine, Key
<1>4. Held(n, o) => Key(o, hot[n][o]) \in Copies(n)
  BY DEF Copies
<1>q. QED
  BY <1>1, <1>2, <1>3, <1>4

\* Entries that keep their keys leave the copies as they are.
LEMMA CopiesStay ==
    ASSUME NEW n \in Nodes, \A o \in Nodes : SameKey(hot'[n][o], hot[n][o])
    PROVE  Copies(n)' = Copies(n)
<1>1. \A o \in Nodes : /\ Held(n, o)' = Held(n, o)
                       /\ Key(o, hot[n][o])' = Key(o, hot[n][o])
  BY DEF SameKey, Held, Key
<1>q. QED
  BY <1>1 DEF Copies

\* What is beyond the host, and that it is around.
LEMMA BeyondFacts ==
    ASSUME NEW m, NEW key
    PROVE  /\ key \in Beyond(m) <=> \/ \E n \in Members \ {m} : key \in Got(n)
                                    \/ \E n \in Nodes \ {m} : key \in Passed(n)
           /\ key \in Beyond(m) => key \in Around
<1>1. key \in Beyond(m) <=> \/ \E n \in Members \ {m} : key \in Got(n)
                          \/ \E n \in Nodes \ {m} : key \in Passed(n)
  BY DEF Beyond
<1>2. \A n \in Nodes : key \in Got(n) \cup Passed(n) => key \in Around
  BY DEF Around
<1>q. QED
  BY <1>1, <1>2, NodeFacts

\* If nothing comes to a node and nothing goes on from it, nothing is around
\* that was not.
LEMMA NothingNew ==
    ASSUME \A n \in Nodes : Got(n)' \subseteq Got(n) /\ Passed(n)' \subseteq Passed(n)
    PROVE  Around' \subseteq Around /\ \A m : Beyond(m)' \subseteq Beyond(m)
<1>1. Around' \subseteq Around
  BY DEF Around
<1>2. ASSUME NEW m PROVE Beyond(m)' \subseteq Beyond(m)
  BY NodeFacts DEF Beyond
<1>q. QED
  BY <1>1, <1>2

\* What is around and made is seen, and behind its owner, if nothing came to be
\* around and no owner but a blank one has another entry.
LEMMA AroundKeeps ==
    ASSUME IInv, OrderInv, Around' \subseteq Around, Now <= Now', Now \in Int, Now' \in Int,
           history'.made = history.made,
           \A o \in Nodes : o \notin history'.blank =>
              o \notin history.blank /\ SameKey(hot'[o][o], hot[o][o])
    PROVE  SeenOK' /\ AheadOK'
<1>1. ASSUME NEW key \in Around PROVE Genuine(key) /\ key.seq \in Nat /\ key.owner \in Nodes
  BY AroundIsGenuine, GenuineFacts DEF Around
<1>2. ASSUME NEW o \in Nodes, NEW key \in history.made[o] PROVE key.seq \in Nat
  BY BoundsAssumption DEF IInv, HistoryOK, Histories, Keys
<1>3. SeenOK'
  BY <1>1, <1>2 DEF OrderInv, SeenOK
<1>4. AheadOK'
  <2>1. SUFFICES ASSUME NEW key \in Around PROVE Behind(key)'
    BY DEF AheadOK
  <2>2. key.owner \in Nodes
    BY <1>1
  <2>3. Behind(key)
    BY DEF OrderInv, AheadOK
  <2>q. QED
    BY <2>2, <2>3 DEF Behind, Ahead, SameKey
<1>q. QED
  BY <1>3, <1>4

\* A member without an entry of its own sends none, if what it sends of its own
\* it held or sent before.
LEMMA SentKeeps ==
    ASSUME IInv, OrderInv,
           \A m \in Members : \A key \in Passed(m)' : key.owner = m =>
              SameKey(hot'[m][m], hot[m][m]) /\ key \in Passed(m) \cup Copies(m)
    PROVE  EmptyOK'
<1>1. SUFFICES ASSUME NEW m \in Members, NEW key \in Passed(m)', key.owner = m, ~Held(m, m)'
               PROVE  FALSE
  BY DEF EmptyOK
<1>2. SameKey(hot'[m][m], hot[m][m]) /\ key \in Passed(m) \cup Copies(m)
  BY <1>1
<1>3. ~Held(m, m)
  BY <1>1, <1>2 DEF Held, SameKey
<1>4. key \notin Copies(m)
  <2>1. ASSUME NEW o \in Nodes, Held(m, o), key = Key(o, hot[m][o]) PROVE FALSE
    BY <1>1, <1>3, <2>1 DEF Key
  <2>q. QED
    BY <2>1 DEF Copies
<1>q. QED
  BY <1>1, <1>2, <1>3, <1>4 DEF OrderInv, EmptyOK

\* The host stays ahead of what is beyond it, if what comes there is its own copy
\* or was there.
LEMMA RelayKeeps ==
    ASSUME IInv, OrderInv, authority' = authority,
           \A m \in Members : SameKey(hot'[Host][m], hot[Host][m]),
           \A m \in Members : \A key \in Beyond(m)' : key.owner = m =>
              \/ key \in Beyond(m)
              \/ key = Key(m, hot[Host][m]) /\ Arrived(Host)' = {},
           \A next \in Arrived(Host)' : next \in Arrived(Host) \/ next.seq = authority
    PROVE  RelayOK'
<1>1. SUFFICES ASSUME NEW m \in Members, NEW key \in Beyond(m)',
                      key.owner = m, key.seq = authority
               PROVE  /\ hot'[Host][m].seq = authority /\ Ahead(hot'[Host][m], key)
                      /\ \A next \in Arrived(Host)' : next.owner = m => next.seq = authority
  BY DEF RelayOK, Ahead
<1>2. SameKey(hot'[Host][m], hot[Host][m])
  OBVIOUS
<1>3. CASE key \in Beyond(m)
  <2>1. /\ hot[Host][m].seq = authority /\ Ahead(hot[Host][m], key)
        /\ \A next \in Arrived(Host) : next.owner = m => next.seq = authority
    BY <1>1, <1>3 DEF OrderInv, RelayOK
  <2>q. QED
    BY <1>2, <2>1 DEF SameKey, Ahead
<1>4. CASE key = Key(m, hot[Host][m]) /\ Arrived(Host)' = {}
  BY <1>1, <1>2, <1>4 DEF SameKey, Ahead, Key
<1>q. QED
  BY <1>1, <1>3, <1>4

\* The generations in use are numbers.
LEMMA NowFacts ==
    ASSUME IInv PROVE Now \in Int /\ authority \in Nat /\ Now <= authority
BY BoundsAssumption DEF IInv, CountersOK, Now

\* No key comes anywhere new; neither the owners' entries nor the host's change
\* their keys.
Calm ==
    /\ \A n \in Nodes : /\ Got(n)' \subseteq Got(n) /\ Passed(n)' \subseteq Passed(n)
                        /\ Arrived(n)' \subseteq Arrived(n)
                        /\ SameKey(hot'[n][n], hot[n][n])
                        /\ SameKey(hot'[Host][n], hot[Host][n])
    /\ history'.made = history.made /\ history'.blank = history.blank
    /\ authority' = authority /\ Now' = Now

LEMMA CalmKeeps ==
    ASSUME IInv, OrderInv, Calm
    PROVE  (SeenOK /\ EmptyOK /\ AheadOK /\ RelayOK)'
<1>1. Around' \subseteq Around /\ \A m : Beyond(m)' \subseteq Beyond(m)
  BY NothingNew DEF Calm
<1>2. SeenOK' /\ AheadOK'
  BY <1>1, NowFacts, AroundKeeps DEF Calm
<1>3. EmptyOK'
  BY NodeFacts, SentKeeps DEF Calm
<1>4. RelayOK'
  <2>1. \A m \in Members : SameKey(hot'[Host][m], hot[Host][m])
    BY NodeFacts DEF Calm
  <2>2. Arrived(Host)' \subseteq Arrived(Host) /\ authority' = authority
    BY NodeFacts DEF Calm
  <2>q. QED
    BY <1>1, <2>1, <2>2, RelayKeeps
<1>q. QED
  BY <1>2, <1>3, <1>4

-----------------------------------------------------------------------------
(* Calm steps. *)

\* A step that keeps the key of every entry and sends only what was to be sent.
LEMMA CalmFrom ==
    ASSUME IInv, authority' = authority, game'[Host] = game[Host],
           history'.made = history.made, history'.blank = history.blank,
           \A n, o \in Nodes : SameKey(hot'[n][o], hot[n][o]),
           \A n \in Nodes : Carried(n)' \subseteq Carried(n),
           \A n \in Nodes : Arrived(n)' \subseteq Arrived(n),
           \A m, n \in Nodes : OnLink(m, n)' \subseteq OnLink(m, n) \cup Carried(m)
    PROVE  Calm
<1>1. Now' = Now
  BY DEF Now
<1>2. ASSUME NEW n \in Nodes PROVE Got(n)' \subseteq Got(n)
  BY CopiesStay DEF Got
<1>3. ASSUME NEW n \in Nodes PROVE Passed(n)' \subseteq Passed(n)
  BY DEF Passed
<1>q. QED
  BY <1>1, <1>2, <1>3, NodeFacts DEF Calm

\* A step that touches neither stores, rounds nor links.
LEMMA IdleIsCalm ==
    ASSUME IInv, UNCHANGED <<hot, ctl, net, authority>>, game'[Host] = game[Host],
           history'.made = history.made, history'.blank = history.blank
    PROVE  Calm
<1>1. \A n, o \in Nodes : SameKey(hot'[n][o], hot[n][o])
  BY DEF SameKey
<1>2. \A n \in Nodes : Carried(n)' = Carried(n) /\ Arrived(n)' = Arrived(n)
  BY DEF Carried, Arrived
<1>3. \A m, n \in Nodes : OnLink(m, n)' = OnLink(m, n)
  BY DEF OnLink
<1>q. QED
  BY <1>1, <1>2, <1>3, CalmFrom

\* The round of a node goes on with what it had to do.
LEMMA NextKeyFlows ==
    ASSUME IInv, NEW n \in Nodes, NEW round \in Rounds, NextKey(n, round)
    PROVE  /\ ctl'[n].pc \in {"idle", "send"} /\ ctl'[n].todo \subseteq round.todo
           /\ ctl'[n].peers \in {round.peers, {}}
           /\ ctl'[n].pc = "send" => /\ ctl'[n].key \in round.todo
                                     /\ ctl'[n].left = Targets(n, round, ctl'[n].key)
           /\ \A k \in Nodes \ {n} : ctl'[k] = ctl[k]
<1>0. ctl \in [Nodes -> Rounds]
  BY DEF IInv, CtlOK
<1>1. CASE ctl' = [ctl EXCEPT ![n] = Idle]
  BY <1>0, <1>1 DEF Idle
<1>2. ASSUME NEW key \in round.todo,
             ctl' = [ctl EXCEPT ![n] =
                       [round EXCEPT !.pc = "send", !.key = key, !.todo = round.todo \ {key},
                                     !.left = Targets(n, round, key),
                                     !.ok = n = Host \/ Targets(n, round, key) # {}]]
      PROVE  /\ ctl'[n].pc \in {"idle", "send"} /\ ctl'[n].todo \subseteq round.todo
             /\ ctl'[n].peers \in {round.peers, {}}
             /\ ctl'[n].pc = "send" => /\ ctl'[n].key \in round.todo
                                       /\ ctl'[n].left = Targets(n, round, ctl'[n].key)
             /\ \A k \in Nodes \ {n} : ctl'[k] = ctl[k]
  <2>1. PICK r :
           r = [round EXCEPT !.pc = "send", !.key = key, !.todo = round.todo \ {key},
                             !.left = Targets(n, round, key),
                             !.ok = n = Host \/ Targets(n, round, key) # {}]
    OBVIOUS
  <2>2. /\ r.pc = "send" /\ r.key = key /\ r.todo = round.todo \ {key}
        /\ r.left = Targets(n, round, key) /\ r.peers = round.peers
    BY <2>1 DEF Rounds
  <2>3. ctl'[n] = r /\ \A k \in Nodes \ {n} : ctl'[k] = ctl[k]
    BY <1>0, <1>2, <2>1
  <2>q. QED
    BY <2>2, <2>3
<1>q. QED
  BY <1>1, <1>2 DEF NextKey

\* Hence it carries nothing new.
LEMMA NextKeyCarries ==
    ASSUME IInv, NEW n \in Nodes, NEW round \in Rounds, NextKey(n, round),
           round.todo \subseteq ctl[n].todo
    PROVE  \A k \in Nodes : Carried(k)' \subseteq Carried(k) /\ Arrived(k)' \subseteq Arrived(k)
<1>1. /\ ctl'[n].pc \in {"idle", "send"} /\ ctl'[n].todo \subseteq round.todo
      /\ ctl'[n].pc = "send" => ctl'[n].key \in round.todo
      /\ \A k \in Nodes \ {n} : ctl'[k] = ctl[k]
  BY NextKeyFlows
<1>2. Carried(n)' \subseteq Carried(n) /\ Arrived(n)' = {}
  BY <1>1 DEF Carried, Arrived
<1>3. \A k \in Nodes \ {n} : Carried(k)' = Carried(k) /\ Arrived(k)' = Arrived(k)
  BY <1>1 DEF Carried, Arrived
<1>q. QED
  BY <1>2, <1>3

LEMMA CollectPeersIsCalm ==
    ASSUME IInv, NEW n \in Nodes, CollectPeers(n) PROVE Calm
<1>1. PICK round : round = [ctl[n] EXCEPT !.peers = peers[n]]
  OBVIOUS
<1>2. round \in Rounds /\ round.todo = ctl[n].todo
  <2>1. ctl[n] \in Rounds /\ peers[n] \in SUBSET Nodes
    BY DEF IInv, CountersOK, CtlOK
  <2>q. QED
    BY <1>1, <2>1 DEF Rounds
<1>3. NextKey(n, round)
  BY <1>1 DEF CollectPeers
<1>4. \A k \in Nodes : Carried(k)' \subseteq Carried(k) /\ Arrived(k)' \subseteq Arrived(k)
  BY <1>2, <1>3, NextKeyCarries
<1>5. \A k, o \in Nodes : SameKey(hot'[k][o], hot[k][o])
  BY DEF SameKey, CollectPeers
<1>6. \A k, l \in Nodes : OnLink(k, l)' = OnLink(k, l)
  BY DEF OnLink, CollectPeers
<1>q. QED
  BY <1>4, <1>5, <1>6, CalmFrom DEF CollectPeers

LEMMA FinishKeyIsCalm ==
    ASSUME IInv, NEW n \in Nodes, FinishKey(n) PROVE Calm
<1>1. ctl[n] \in Rounds /\ NextKey(n, ctl[n])
  BY DEF IInv, CtlOK, FinishKey
<1>2. \A k \in Nodes : Carried(k)' \subseteq Carried(k) /\ Arrived(k)' \subseteq Arrived(k)
  BY <1>1, NextKeyCarries
<1>3. PICK p : hot' = hot \/ hot' = [hot EXCEPT ![n][p].pending = FALSE]
  BY DEF FinishKey
<1>4. ASSUME NEW k \in Nodes, NEW o \in Nodes PROVE SameKey(hot'[k][o], hot[k][o])
  <2>1. hot[k][o] \in Snapshots
    BY DEF IInv, HotOK
  <2>2. PICK entry : entry = [hot[k][o] EXCEPT !.pending = FALSE]
    OBVIOUS
  <2>3. SameKey(entry, hot[k][o])
    BY <2>1, <2>2 DEF Snapshots, SameKey
  <2>4. hot'[k][o] = hot[k][o] \/ hot'[k][o] = entry
    <3>1. hot \in [Nodes -> [Nodes -> Snapshots]]
      BY DEF IInv, HotOK
    <3>2. CASE k = n /\ o = p
      <4>1. CASE hot' = hot
        BY <4>1
      <4>2. CASE hot' = [hot EXCEPT ![n][p].pending = FALSE]
        <5>1. hot'[n] = [hot[n] EXCEPT ![p] = [hot[n][p] EXCEPT !.pending = FALSE]]
          BY <3>1, <4>2
        <5>2. hot'[n][p] = [hot[n][p] EXCEPT !.pending = FALSE]
          BY <3>1, <3>2, <5>1
        <5>q. QED
          BY <2>2, <3>2, <5>2
      <4>q. QED
        BY <1>3, <4>1, <4>2
    <3>3. CASE ~(k = n /\ o = p)
      BY <1>3, <3>1, <3>3
    <3>q. QED
      BY <3>2, <3>3
  <2>q. QED
    BY <2>3, <2>4 DEF SameKey
<1>5. \A k, l \in Nodes : OnLink(k, l)' = OnLink(k, l)
  BY DEF OnLink, FinishKey
<1>q. QED
  BY <1>2, <1>4, <1>5, CalmFrom DEF FinishKey

LEMMA MarkIsCalm ==
    ASSUME IInv, NEW n \in Nodes, NEW m \in Nodes, MarkForPublish(n, m) PROVE Calm
<1>1. ASSUME NEW k \in Nodes, NEW o \in Nodes PROVE SameKey(hot'[k][o], hot[k][o])
  <2>1. hot[k][o] \in Snapshots
    BY DEF IInv, HotOK
  <2>2. PICK entry : entry = [hot[k][o] EXCEPT !.pending = TRUE]
    OBVIOUS
  <2>3. SameKey(entry, hot[k][o])
    BY <2>1, <2>2 DEF Snapshots, SameKey
  <2>4. hot'[k][o] = hot[k][o] \/ hot'[k][o] = entry
    BY <2>2 DEF IInv, HotOK, MarkForPublish
  <2>q. QED
    BY <2>3, <2>4 DEF SameKey
<1>2. \A k \in Nodes : Carried(k)' = Carried(k) /\ Arrived(k)' = Arrived(k)
  BY DEF Carried, Arrived, MarkForPublish
<1>3. \A k, l \in Nodes : OnLink(k, l)' = OnLink(k, l)
  BY DEF OnLink, MarkForPublish
<1>q. QED
  BY <1>1, <1>2, <1>3, CalmFrom DEF MarkForPublish

\* A link that breaks only loses keys.
LEMMA LostLinks ==
    ASSUME IInv, NEW m \in Members, net' = Lost(m)
    PROVE  \A k, l \in Nodes : /\ OnLink(k, l)' \subseteq OnLink(k, l)
                               /\ {k, l} = {m, Host} => OnLink(k, l)' = {}
<1>1. Len(<<>>) = 0
  BY EmptySeq
<1>2. ASSUME NEW k \in Nodes, NEW l \in Nodes
      PROVE  /\ net'[k][l] = <<>> \/ net'[k][l] = net[k][l]
             /\ {k, l} = {m, Host} => net'[k][l] = <<>>
  <2>1. net \in [Nodes -> [Nodes -> Seq(Packets)]]
    BY DEF IInv, NetOK
  <2>2. {k, l} = {m, Host} => (k = m /\ l = Host) \/ (k = Host /\ l = m)
    BY NodeFacts
  <2>q. QED
    BY <2>1, <2>2, NodeFacts DEF Lost
<1>3. ASSUME NEW k \in Nodes, NEW l \in Nodes, net'[k][l] = <<>>
      PROVE  OnLink(k, l)' = {}
  BY <1>1, <1>3 DEF OnLink
<1>4. ASSUME NEW k \in Nodes, NEW l \in Nodes, net'[k][l] = net[k][l]
      PROVE  OnLink(k, l)' = OnLink(k, l)
  BY <1>4 DEF OnLink
<1>q. QED
  BY <1>2, <1>3, <1>4

LEMMA BreakIsCalm ==
    ASSUME IInv, NEW m \in Members, Break(m) PROVE Calm
<1>1. history'.made = history.made /\ history'.blank = history.blank
  BY DEF IInv, HistoryOK, Histories, Break, Upset
<1>2. \A k, o \in Nodes : SameKey(hot'[k][o], hot[k][o])
  BY DEF SameKey, Break
<1>3. \A k \in Nodes : Carried(k)' = Carried(k) /\ Arrived(k)' = Arrived(k)
  BY DEF Carried, Arrived, Break
<1>4. \A k, l \in Nodes : OnLink(k, l)' \subseteq OnLink(k, l)
  BY LostLinks DEF Break
<1>q. QED
  BY <1>1, <1>2, <1>3, <1>4, CalmFrom DEF Break

\* What sending does: some chunks of the key go under way to one target.
LEMMA SendFlows ==
    ASSUME IInv, NEW n \in Nodes, Send(n)
    PROVE  \E p \in ctl[n].left :
              /\ OnLink(n, p)' \subseteq OnLink(n, p) \cup {ctl[n].key}
              /\ \A k, l \in Nodes : <<k, l>> # <<n, p>> => OnLink(k, l)' = OnLink(k, l)
              /\ \A k \in Nodes : /\ ctl'[k].pc = ctl[k].pc /\ ctl'[k].todo = ctl[k].todo
                                  /\ ctl'[k].key = ctl[k].key /\ ctl'[k].peers = ctl[k].peers
                                  /\ ctl'[k].left \subseteq ctl[k].left
<1>1. PICK p \in ctl[n].left, sent \in 0..2 :
         /\ net' = [net EXCEPT ![n][p] = @ \o SubSeq(Chunks(ctl[n].key), 1, sent)]
         /\ ctl' = [ctl EXCEPT ![n].left = @ \ {p}, ![n].ok = @ /\ sent = 2]
  BY DEF Send
<1>2. /\ ctl \in [Nodes -> Rounds] /\ p \in Nodes /\ ctl[n].key \in Keys
      /\ net \in [Nodes -> [Nodes -> Seq(Packets)]]
  BY DEF IInv, CtlOK, NetOK, Rounds
<1>3. \A k \in Nodes : /\ ctl'[k].pc = ctl[k].pc /\ ctl'[k].todo = ctl[k].todo
                       /\ ctl'[k].key = ctl[k].key /\ ctl'[k].peers = ctl[k].peers
                       /\ ctl'[k].left \subseteq ctl[k].left
  BY <1>1, <1>2 DEF Rounds
<1>4. \A k, l \in Nodes : <<k, l>> # <<n, p>> => OnLink(k, l)' = OnLink(k, l)
  <2>1. \A k, l \in Nodes : <<k, l>> # <<n, p>> => net'[k][l] = net[k][l]
    BY <1>1, <1>2
  <2>q. QED
    BY <2>1 DEF OnLink
<1>5. OnLink(n, p)' \subseteq OnLink(n, p) \cup {ctl[n].key}
  <2>1. PICK q, chunks : q = net[n][p] /\ chunks = SubSeq(Chunks(ctl[n].key), 1, sent)
    OBVIOUS
  <2>2. /\ chunks \in Seq(Packets) /\ Len(chunks) = sent
        /\ \A i \in 1..sent : chunks[i].key = ctl[n].key
    <3>1. PICK key \in Keys : key = ctl[n].key
      BY <1>2
    <3>2. \A i \in 1..sent : Chunks(key)[i] \in Packets /\ Chunks(key)[i].key = key
      BY DEF Chunks, Packets, Parts, Keys
    <3>3. /\ SubSeq(Chunks(key), 1, sent) \in Seq(Packets)
          /\ Len(SubSeq(Chunks(key), 1, sent)) = sent
          /\ \A i \in 1..sent : SubSeq(Chunks(key), 1, sent)[i] = Chunks(key)[i]
      BY <3>2, SubSeqProperties
    <3>q. QED
      BY <2>1, <3>1, <3>2, <3>3
  <2>3. q \in Seq(Packets) /\ Len(q) \in Nat
    BY <1>2, <2>1, LenProperties
  <2>4. /\ Len(q \o chunks) = Len(q) + sent
        /\ \A i \in 1..Len(q) + sent :
              (q \o chunks)[i] = IF i <= Len(q) THEN q[i] ELSE chunks[i - Len(q)]
    BY <2>2, <2>3, ConcatProperties
  <2>5. net'[n][p] = q \o chunks
    BY <1>1, <1>2, <2>1
  <2>6. ASSUME NEW i \in 1..(Len(q) + sent)
        PROVE  \/ i \in 1..Len(q) /\ (q \o chunks)[i].key = q[i].key
               \/ (q \o chunks)[i].key = ctl[n].key
    <3>1. CASE i <= Len(q)
      BY <2>3, <2>4, <3>1
    <3>2. CASE i > Len(q)
      <4>1. i - Len(q) \in 1..sent
        BY <2>3, <3>2
      <4>q. QED
        BY <2>2, <2>3, <2>4, <3>2, <4>1
    <3>3. i <= Len(q) \/ i > Len(q)
      BY <2>3, <2>6
    <3>q. QED
      BY <3>1, <3>2, <3>3
  <2>7. OnLink(n, p)' = {(q \o chunks)[i].key : i \in 1..(Len(q) + sent)}
    BY <2>4, <2>5 DEF OnLink
  <2>8. OnLink(n, p) = {q[i].key : i \in 1..Len(q)}
    BY <2>1 DEF OnLink
  <2>q. QED
    BY <2>6, <2>7, <2>8
<1>q. QED
  BY <1>3, <1>4, <1>5

LEMMA SendIsCalm == ASSUME IInv, NEW n \in Nodes, Send(n) PROVE Calm
<1>1. PICK p \in ctl[n].left :
         /\ OnLink(n, p)' \subseteq OnLink(n, p) \cup {ctl[n].key}
         /\ \A k, l \in Nodes : <<k, l>> # <<n, p>> => OnLink(k, l)' = OnLink(k, l)
         /\ \A k \in Nodes : /\ ctl'[k].pc = ctl[k].pc /\ ctl'[k].todo = ctl[k].todo
                             /\ ctl'[k].key = ctl[k].key
  BY SendFlows
<1>2. \A k \in Nodes : Carried(k)' = Carried(k) /\ Arrived(k)' = Arrived(k)
  BY <1>1 DEF Carried, Arrived
<1>3. ctl[n].key \in Carried(n)
  BY DEF Carried, Send
<1>4. \A k, l \in Nodes : OnLink(k, l)' \subseteq OnLink(k, l) \cup Carried(k)
  BY <1>1, <1>3
<1>5. history'.made = history.made /\ history'.blank = history.blank
  <2>1. UNCHANGED history \/ Upset({})
    BY DEF Send
  <2>q. QED
    BY <2>1 DEF IInv, HistoryOK, Histories, Upset
<1>6. \A k, o \in Nodes : SameKey(hot'[k][o], hot[k][o])
  BY DEF SameKey, Send
<1>q. QED
  BY <1>2, <1>4, <1>5, <1>6, CalmFrom DEF Send

-----------------------------------------------------------------------------
(* Steps that bring a key somewhere new. *)

\* What a node stores is the entry it had or the key that arrived; an entry of
\* the key's generation is followed by one that is as new.
LEMMA ReceivedFlows ==
    ASSUME IInv, NEW n \in Nodes, StoreReceived(n)
    PROVE  \E key \in Arrived(n), new \in Snapshots :
              /\ key.owner \in Nodes
              /\ hot' = [hot EXCEPT ![n][key.owner] = new]
              /\ new = hot[n][key.owner] \/ Key(key.owner, new) = key
              /\ new.seq = key.seq
              /\ hot[n][key.owner].seq = key.seq =>
                    new.rev > hot[n][key.owner].rev \/ SameKey(new, hot[n][key.owner])
<1>1. PICK key, flag : key = ctl[n].key /\ flag \in BOOLEAN /\ flag = (n = Host)
  <2>1. (n = Host) \in BOOLEAN
    OBVIOUS
  <2>q. QED
    BY <2>1
<1>2. Genuine(key) /\ key \in Keys /\ key \in Arrived(n)
  BY <1>1 DEF IInv, CtlOK, Rounds, Arrived, StoreReceived
<1>3. PICK o, rev, val, seq, old : /\ o = key.owner /\ rev = key.rev /\ val = key.val
                                   /\ seq = key.seq /\ old = hot[n][o]
  OBVIOUS
<1>4. /\ o \in Nodes /\ seq \in 1..MaxSeq /\ rev \in 0..MaxRev /\ rev # 0
      /\ val \in 0..MaxVal /\ old \in Snapshots
  BY <1>2, <1>3, BoundsAssumption DEF Genuine, IInv, HotOK
<1>5. PICK new : new = Stored(old, seq, rev, val, flag)
  OBVIOUS
<1>6. hot' = [hot EXCEPT ![n][o] = new]
  BY <1>1, <1>3, <1>4, <1>5 DEF StoreReceived, IInv, HotOK
<1>7. \/ new = old /\ old.seq = seq
      \/ \E r \in Nat \ {0} :
            /\ new = [seq |-> seq, rev |-> r, val |-> val, pending |-> flag]
            /\ rev # 0 => r = rev
            /\ old.seq = seq => r > old.rev \/ (r = old.rev /\ val = old.val)
  <2>1. flag \in BOOLEAN
    BY <1>1
  <2>2. /\ old \in Snapshots /\ seq \in 1..MaxSeq /\ rev \in 0..MaxRev
        /\ val \in 0..MaxVal
    BY <1>4
  <2>q. QED
    BY <1>5, <2>1, <2>2, StoredResult
<1>8. CASE new = old /\ old.seq = seq
  BY <1>2, <1>3, <1>4, <1>6, <1>8 DEF SameKey
<1>9. CASE /\ new = [seq |-> seq, rev |-> rev, val |-> val, pending |-> flag]
           /\ old.seq = seq => rev > old.rev \/ (rev = old.rev /\ val = old.val)
  <2>1. new \in Snapshots
    BY <1>1, <1>4, <1>9, BoundsAssumption DEF Snapshots
  <2>2. Key(o, new) = key
    BY <1>2, <1>3, <1>9 DEF Key, Keys
  <2>q. QED
    BY <1>2, <1>3, <1>4, <1>6, <1>9, <2>1, <2>2 DEF SameKey
<1>q. QED
  BY <1>4, <1>7, <1>8, <1>9

\* The host's store may hold a newer copy now; so may a member's.
LEMMA StoreReceivedOrders ==
    ASSUME IInv, OrderInv, NEW n \in Nodes, StoreReceived(n)
    PROVE  (SeenOK /\ EmptyOK /\ AheadOK /\ RelayOK)'
<1>1. PICK key \in Arrived(n), new \in Snapshots :
         /\ key.owner \in Nodes
         /\ hot' = [hot EXCEPT ![n][key.owner] = new]
         /\ new = hot[n][key.owner] \/ Key(key.owner, new) = key
         /\ new.seq = key.seq
         /\ hot[n][key.owner].seq = key.seq =>
               new.rev > hot[n][key.owner].rev \/ SameKey(new, hot[n][key.owner])
  BY ReceivedFlows
<1>2. PICK o \in Nodes : o = key.owner
  BY <1>1
<1>3. o # n /\ key.seq # 0
  <2>1. key \in Got(n)
    BY DEF Got
  <2>q. QED
    BY <1>2, <2>1, AroundIsGenuine, GenuineFacts DEF OrderInv, FlowOK
<1>4. /\ hot'[n][o] = new
      /\ \A k, p \in Nodes : <<k, p>> # <<n, o>> => hot'[k][p] = hot[k][p]
  BY <1>1, <1>2 DEF IInv, HotOK
<1>5. /\ ctl'[n] = Idle /\ \A k \in Nodes \ {n} : ctl'[k] = ctl[k]
  BY DEF StoreReceived, IInv, CtlOK
<1>6. /\ Carried(n)' = {} /\ Arrived(n)' = {}
      /\ \A k \in Nodes \ {n} : Carried(k)' = Carried(k) /\ Arrived(k)' = Arrived(k)
  BY <1>5, Defaults DEF Carried, Arrived
<1>7. \A k, l \in Nodes : OnLink(k, l)' = OnLink(k, l)
  BY DEF OnLink, StoreReceived
<1>8. Copies(n)' \subseteq Copies(n) \cup {key}
  <2>1. SUFFICES ASSUME NEW p \in Nodes, Held(n, p)'
                 PROVE  Key(p, hot'[n][p]) \in Copies(n) \cup {key}
    BY DEF Copies, Key
  <2>2. CASE p # o
    BY <1>4, <2>1, <2>2 DEF Held, Copies
  <2>3. CASE p = o /\ new = hot[n][o]
    BY <1>4, <2>1, <2>3 DEF Held, Copies
  <2>4. CASE p = o /\ Key(o, new) = key
    BY <1>4, <2>4
  <2>q. QED
    BY <1>1, <1>2, <2>2, <2>3, <2>4
<1>9. \A k \in Nodes : Got(k)' \subseteq Got(k) /\ Passed(k)' \subseteq Passed(k)
  <2>1. Got(n)' \subseteq Got(n)
    BY <1>6, <1>8 DEF Got
  <2>2. ASSUME NEW k \in Nodes \ {n} PROVE Got(k)' \subseteq Got(k)
    <3>1. \A p \in Nodes : SameKey(hot'[k][p], hot[k][p])
      BY <1>4 DEF SameKey
    <3>q. QED
      BY <1>6, <3>1, CopiesStay DEF Got
  <2>3. ASSUME NEW k \in Nodes PROVE Passed(k)' \subseteq Passed(k)
    BY <1>6, <1>7 DEF Passed
  <2>q. QED
    BY <2>1, <2>2, <2>3
<1>10. Around' \subseteq Around /\ \A m : Beyond(m)' \subseteq Beyond(m)
  BY <1>9, NothingNew
<1>11. \A p \in Nodes : SameKey(hot'[p][p], hot[p][p])
  BY <1>3, <1>4 DEF SameKey
<1>12. /\ authority' = authority /\ Now' = Now
       /\ history'.made = history.made /\ history'.blank = history.blank
  BY DEF StoreReceived, Now
<1>13. SeenOK' /\ AheadOK'
  BY <1>10, <1>11, <1>12, NowFacts, AroundKeeps
<1>14. EmptyOK'
  BY <1>9, <1>11, NodeFacts, SentKeeps
<1>15. RelayOK'
  <2>1. CASE n # Host
    <3>1. \A m \in Members : SameKey(hot'[Host][m], hot[Host][m])
      BY <1>4, <2>1, NodeFacts DEF SameKey
    <3>2. Arrived(Host)' = Arrived(Host)
      BY <1>6, <2>1, NodeFacts
    <3>q. QED
      BY <1>10, <1>12, <3>1, <3>2, RelayKeeps
  <2>2. CASE n = Host
    <3>1. SUFFICES ASSUME NEW m \in Members, NEW k \in Beyond(m),
                          k.owner = m, k.seq = authority
                   PROVE  hot'[Host][m].seq = authority /\ Ahead(hot'[Host][m], k)
      BY <1>6, <1>10, <1>12, <2>2 DEF RelayOK, Ahead
    <3>2. /\ hot[Host][m].seq = authority /\ Ahead(hot[Host][m], k)
          /\ \A next \in Arrived(Host) : next.owner = m => next.seq = authority
      BY <3>1 DEF OrderInv, RelayOK
    <3>3. CASE m # o
      BY <1>4, <2>2, <3>2, <3>3, NodeFacts
    <3>4. CASE m = o
      <4>1. key.seq = authority
        BY <1>2, <2>2, <3>2, <3>4
      <4>2. /\ new.seq = authority
            /\ new.rev > hot[Host][m].rev \/ SameKey(new, hot[Host][m])
        BY <1>1, <1>2, <2>2, <3>2, <3>4, <4>1
      <4>3. k.rev \in Nat
        <5>1. k \in Around
          BY <3>1, BeyondFacts
        <5>q. QED
          BY <5>1, AroundIsGenuine, GenuineFacts DEF Around
      <4>4. hot[Host][m].rev \in Nat /\ new.rev \in Nat
        BY NodeFacts, EntryFacts, BoundsAssumption DEF Snapshots
      <4>5. Ahead(new, k)
        BY <3>2, <4>2, <4>3, <4>4 DEF Ahead, SameKey
      <4>q. QED
        BY <1>4, <2>2, <3>4, <4>2, <4>5
    <3>q. QED
      BY <3>3, <3>4
  <2>q. QED
    BY <2>1, <2>2
<1>q. QED
  BY <1>13, <1>14, <1>15

\* A round begins with what the node holds to publish.
LEMMA CollectKeysOrders ==
    ASSUME IInv, OrderInv, NEW n \in Nodes, CollectKeys(n)
    PROVE  (SeenOK /\ EmptyOK /\ AheadOK /\ RelayOK)'
<1>1. /\ ctl'[n].todo = Pending(n) /\ ctl'[n].pc = "peers"
      /\ \A k \in Nodes \ {n} : ctl'[k] = ctl[k]
  BY DEF CollectKeys, IInv, CtlOK, Idle
<1>2. Pending(n) \subseteq Copies(n)
  <2>1. ASSUME NEW o \in Nodes, hot[n][o].pending PROVE Held(n, o)
    BY <2>1, EntryFacts DEF NoSnapshot
  <2>q. QED
    BY <2>1 DEF Pending, Copies
<1>3. /\ Carried(n)' \subseteq Copies(n) /\ Arrived(n)' = {}
      /\ \A k \in Nodes \ {n} : Carried(k)' = Carried(k) /\ Arrived(k)' = Arrived(k)
  BY <1>1, <1>2 DEF Carried, Arrived
<1>4. \A k, l \in Nodes : OnLink(k, l)' = OnLink(k, l)
  BY DEF OnLink, CollectKeys
<1>5. \A k, o \in Nodes : SameKey(hot'[k][o], hot[k][o])
  BY DEF SameKey, CollectKeys
<1>6. ASSUME NEW k \in Nodes PROVE Got(k)' \subseteq Got(k)
  BY <1>3, <1>5, CopiesStay DEF Got
<1>7. /\ Passed(n)' \subseteq Passed(n) \cup Copies(n)
      /\ \A k \in Nodes \ {n} : Passed(k)' = Passed(k)
  BY <1>3, <1>4 DEF Passed
<1>8. Around' \subseteq Around
  <2>1. ASSUME NEW k \in Nodes PROVE Passed(k)' \subseteq Got(k) \cup Passed(k)
    BY <1>7 DEF Got
  <2>q. QED
    BY <1>6, <2>1 DEF Around
<1>9. /\ authority' = authority /\ Now' = Now
      /\ history'.made = history.made /\ history'.blank = history.blank
  BY DEF CollectKeys, Now
<1>10. SeenOK' /\ AheadOK'
  BY <1>5, <1>8, <1>9, NowFacts, AroundKeeps
<1>11. EmptyOK'
  BY <1>5, <1>7, NodeFacts, SentKeeps
<1>12. ASSUME NEW m \in Members, NEW key \in Beyond(m)', key.owner = m
       PROVE  \/ key \in Beyond(m)
              \/ key = Key(m, hot[Host][m]) /\ Arrived(Host)' = {}
  <2>1. CASE \E k \in Members \ {m} : key \in Got(k)'
    BY <1>6, <2>1, NodeFacts, BeyondFacts
  <2>2. CASE \E k \in Nodes \ {m} : key \in Passed(k)
    BY <2>2, BeyondFacts
  <2>3. CASE n # m /\ key \in Copies(n)
    <3>1. PICK o \in Nodes : Held(n, o) /\ key = Key(o, hot[n][o])
      BY <2>3 DEF Copies
    <3>2. o = m
      BY <1>12, <3>1 DEF Key
    <3>3. CASE n = Host
      BY <1>3, <3>1, <3>2, <3>3
    <3>4. CASE n # Host
      BY <2>3, <3>4, BeyondFacts DEF Nodes, Got
    <3>q. QED
      BY <3>3, <3>4
  <2>4. \/ \E k \in Members \ {m} : key \in Got(k)'
        \/ \E k \in Nodes \ {m} : key \in Passed(k)'
    BY <1>12 DEF Beyond
  <2>q. QED
    BY <1>7, <2>1, <2>2, <2>3, <2>4
<1>13. RelayOK'
  <2>1. \A next \in Arrived(Host)' : next \in Arrived(Host)
    BY <1>3, NodeFacts
  <2>2. \A m \in Members : SameKey(hot'[Host][m], hot[Host][m])
    BY <1>5, NodeFacts
  <2>q. QED
    BY <1>9, <1>12, <2>1, <2>2, RelayKeeps
<1>q. QED
  BY <1>10, <1>11, <1>13

\* A chunk leaves its link; if its body is whole, its key is about to be stored.
LEMMA ChunkFlows ==
    ASSUME IInv, NEW n \in Nodes, NEW m \in Nodes, TakeChunk(n, m)
    PROVE  \E key \in OnLink(m, n) :
              /\ \A k, l \in Nodes : OnLink(k, l)' \subseteq OnLink(k, l)
              /\ \A k \in Nodes : Carried(k)' = Carried(k)
              /\ \A k \in Nodes \ {n} : Arrived(k)' = Arrived(k)
              /\ Arrived(n)' = {} \/ (Arrived(n)' = {key} /\ Accepts(n, m, key))
              /\ receipt' = receipt
                 \/ (n # Host /\ receipt[n] <= key.seq
                     /\ receipt' = [receipt EXCEPT ![n] = key.seq])
              /\ ctl'[n].pc \in {"idle", "store"}
              /\ \A k \in Nodes : /\ ctl'[k].peers = ctl[k].peers
                                  /\ k # n => ctl'[k] = ctl[k]
              /\ history'.made = history.made /\ history'.blank = history.blank
<1>1. PICK q \in Seq(Packets) : q = net[m][n]
  BY DEF IInv, NetOK
<1>2. PICK chunk, key : chunk = Head(net[m][n]) /\ key = chunk.key
  OBVIOUS
<1>3. /\ q # <<>> /\ Len(q) \in Nat /\ Len(q) # 0 /\ chunk = q[1] /\ chunk \in Packets
      /\ Len(Tail(q)) = Len(q) - 1 /\ \A i \in 1..Len(Tail(q)) : Tail(q)[i] = q[i + 1]
  BY <1>1, <1>2, EmptySeq, LenProperties, HeadTailProperties, ElementOfSeq DEF TakeChunk
<1>4. key \in OnLink(m, n) /\ key \in Keys
  <2>1. 1 \in 1..Len(net[m][n]) /\ key = net[m][n][1].key
    BY <1>1, <1>2, <1>3
  <2>2. key \in Keys
    BY <1>2, <1>3 DEF Packets
  <2>q. QED
    BY <2>1, <2>2 DEF OnLink
<1>5. ASSUME NEW k \in Nodes, NEW l \in Nodes PROVE OnLink(k, l)' \subseteq OnLink(k, l)
  <2>1. net' = [net EXCEPT ![m][n] = Tail(q)] /\ net \in [Nodes -> [Nodes -> Seq(Packets)]]
    BY <1>1 DEF TakeChunk, IInv, NetOK
  <2>2. CASE k = m /\ l = n
    <3>1. net'[k][l] = Tail(q) /\ net[k][l] = q
      BY <1>1, <2>1, <2>2
    <3>2. OnLink(k, l)' = {Tail(q)[i].key : i \in 1..Len(Tail(q))}
      BY <3>1 DEF OnLink
    <3>3. OnLink(k, l) = {q[i].key : i \in 1..Len(q)}
      BY <3>1 DEF OnLink
    <3>4. ASSUME NEW i \in 1..Len(Tail(q))
          PROVE  i + 1 \in 1..Len(q) /\ Tail(q)[i].key = q[i + 1].key
      BY <1>3, <3>4
    <3>q. QED
      BY <3>2, <3>3, <3>4
  <2>3. CASE ~(k = m /\ l = n)
    <3>1. net'[k][l] = net[k][l]
      BY <2>1, <2>3
    <3>q. QED
      BY <3>1 DEF OnLink
  <2>q. QED
    BY <2>2, <2>3
<1>6. ctl[n].pc = "idle" /\ ctl \in [Nodes -> Rounds]
  BY DEF TakeChunk, IInv, CtlOK
<1>7. Drop(n, m, chunk) \/ Assemble(n, m, chunk)
  BY <1>2 DEF TakeChunk
<1>8. \/ ctl' = ctl
      \/ Accepts(n, m, key) /\ ctl' = [ctl EXCEPT ![n].pc = "store", ![n].key = key]
  <2>1. CASE Drop(n, m, chunk)
    BY <2>1 DEF Drop
  <2>2. CASE Assemble(n, m, chunk)
    <3>1. PICK a, body :
             \/ ctl' = ctl
             \/ /\ Complete(a) /\ Exact(a, key) /\ body = Body(a)
                /\ ctl' = [ctl EXCEPT ![n].pc = "store", ![n].key =
                             [key EXCEPT !.val = body]]
      BY <1>2, <2>2 DEF Assemble
    <3>2. CASE ctl' = ctl
      BY <3>2
    <3>3. CASE /\ Complete(a) /\ Exact(a, key) /\ body = Body(a)
               /\ ctl' = [ctl EXCEPT ![n].pc = "store", ![n].key =
                            [key EXCEPT !.val = body]]
      <4>1. body = key.val
        BY <3>3, BodyIsAnnounced
      <4>2. [key EXCEPT !.val = body] = key
        BY <1>4, <4>1 DEF Keys
      <4>3. Accepts(n, m, key)
        BY <1>2, <2>2 DEF Assemble
      <4>q. QED
        BY <3>3, <4>2, <4>3
    <3>q. QED
      BY <3>1, <3>2, <3>3
  <2>q. QED
    BY <1>7, <2>1, <2>2
<1>9. /\ \A k \in Nodes \ {n} : ctl'[k] = ctl[k]
      /\ ctl'[n].todo = ctl[n].todo /\ ctl'[n].peers = ctl[n].peers
      /\ \/ ctl'[n].pc = "idle"
         \/ ctl'[n].pc = "store" /\ ctl'[n].key = key /\ Accepts(n, m, key)
  <2>1. CASE ctl' = ctl
    BY <1>6, <2>1
  <2>2. CASE Accepts(n, m, key) /\ ctl' = [ctl EXCEPT ![n].pc = "store", ![n].key = key]
    <3>1. PICK r : r = [ctl[n] EXCEPT !.pc = "store", !.key = key]
      OBVIOUS
    <3>2. /\ r.pc = "store" /\ r.key = key /\ r.todo = ctl[n].todo
          /\ r.peers = ctl[n].peers
      BY <1>6, <3>1 DEF Rounds
    <3>3. ctl' = [ctl EXCEPT ![n] = r]
      BY <1>6, <2>2, <3>1 DEF Rounds
    <3>q. QED
      BY <1>6, <2>2, <3>2, <3>3
  <2>q. QED
    BY <1>8, <2>1, <2>2
<1>10. /\ \A k \in Nodes : Carried(k)' = Carried(k)
       /\ \A k \in Nodes \ {n} : Arrived(k)' = Arrived(k)
       /\ Arrived(n)' = {} \/ (Arrived(n)' = {key} /\ Accepts(n, m, key))
  BY <1>6, <1>9 DEF Carried, Arrived
<1>11. receipt' = receipt
       \/ (n # Host /\ receipt[n] <= key.seq /\ receipt' = [receipt EXCEPT ![n] = key.seq])
  <2>1. CASE Drop(n, m, chunk)
    BY <2>1 DEF Drop
  <2>2. CASE Assemble(n, m, chunk)
    <3>1. /\ Accepts(n, m, key)
          /\ receipt' = IF n = Host THEN receipt ELSE [receipt EXCEPT ![n] = key.seq]
      BY <1>2, <2>2 DEF Assemble
    <3>2. n # Host => receipt[n] <= key.seq
      <4>1. receipt[n] \in Int /\ key.seq \in Int
        BY <1>4 DEF IInv, CountersOK, Keys
      <4>q. QED
        BY <3>1, <4>1 DEF Accepts
    <3>q. QED
      BY <3>1, <3>2
  <2>q. QED
    BY <1>7, <2>1, <2>2
<1>12. history'.made = history.made /\ history'.blank = history.blank
  <2>1. PICK lost : \/ UNCHANGED history
                    \/ Upset(lost)
                    \/ history' = [history EXCEPT !.upset = @ \cup lost]
    BY <1>7 DEF Drop, Assemble
  <2>q. QED
    BY <2>1 DEF IInv, HistoryOK, Histories, Upset
<1>q. QED
  BY <1>4, <1>5, <1>9, <1>10, <1>11, <1>12

LEMMA TakeChunkOrders ==
    ASSUME IInv, OrderInv, NEW n \in Nodes, NEW m \in Nodes, TakeChunk(n, m)
    PROVE  (SeenOK /\ EmptyOK /\ AheadOK /\ RelayOK)'
<1>1. PICK key \in OnLink(m, n) :
         /\ \A k, l \in Nodes : OnLink(k, l)' \subseteq OnLink(k, l)
         /\ \A k \in Nodes : Carried(k)' = Carried(k)
         /\ \A k \in Nodes \ {n} : Arrived(k)' = Arrived(k)
         /\ Arrived(n)' = {} \/ (Arrived(n)' = {key} /\ Accepts(n, m, key))
         /\ history'.made = history.made /\ history'.blank = history.blank
  BY ChunkFlows
<1>2. \A k, o \in Nodes : SameKey(hot'[k][o], hot[k][o])
  BY DEF SameKey, TakeChunk
<1>3. \A k \in Nodes : Copies(k)' = Copies(k)
  BY <1>2, CopiesStay
<1>4. /\ \A k \in Nodes \ {n} : Got(k)' = Got(k)
      /\ Got(n)' \subseteq Got(n) \cup {key}
      /\ \A k \in Nodes : Passed(k)' \subseteq Passed(k)
      /\ key \in Passed(m)
  BY <1>1, <1>3 DEF Got, Passed
<1>5. Around' \subseteq Around
  BY <1>4 DEF Around
<1>6. authority' = authority /\ Now' = Now
  BY DEF TakeChunk, Now
<1>7. SeenOK' /\ AheadOK'
  BY <1>1, <1>2, <1>5, <1>6, NowFacts, AroundKeeps
<1>8. EmptyOK'
  BY <1>2, <1>4, NodeFacts, SentKeeps
<1>9. ASSUME NEW o \in Members, NEW k \in Beyond(o)', k.owner = o
      PROVE  k \in Beyond(o)
  <2>1. \/ \E p \in Members \ {o} : k \in Got(p)'
        \/ \E p \in Nodes \ {o} : k \in Passed(p)'
    BY <1>9 DEF Beyond
  <2>2. CASE \/ \E p \in Members \ {o} : k \in Got(p)
             \/ \E p \in Nodes \ {o} : k \in Passed(p)
    BY <2>2, BeyondFacts
  <2>3. CASE n \in Members \ {o} /\ k = key
    <3>1. n \in Destinations(m, key) /\ n # Host
      BY <1>1, <2>3, NodeFacts DEF OrderInv, FlowOK
    <3>2. m # o
      BY <1>9, <2>3, <3>1, NodeFacts DEF Destinations
    <3>q. QED
      BY <1>4, <2>3, <3>2, BeyondFacts
  <2>4. ASSUME NEW p \in Members \ {o}, k \in Got(p)'
        PROVE  k \in Got(p) \/ (p = n /\ k = key)
    BY <1>4, <2>4, NodeFacts
  <2>5. ASSUME NEW p \in Nodes \ {o}, k \in Passed(p)' PROVE k \in Passed(p)
    BY <1>4, <2>5
  <2>6. CASE \E p \in Members \ {o} : k \in Got(p)'
    BY <2>2, <2>3, <2>4, <2>6
  <2>7. CASE \E p \in Nodes \ {o} : k \in Passed(p)'
    BY <2>2, <2>5, <2>7
  <2>q. QED
    BY <2>1, <2>6, <2>7
<1>10. ASSUME NEW next \in Arrived(Host)'
       PROVE  next \in Arrived(Host) \/ next.seq = authority
  BY <1>1, <1>10, NodeFacts DEF Accepts
<1>11. RelayOK'
  <2>1. \A o \in Members : SameKey(hot'[Host][o], hot[Host][o])
    BY <1>2, NodeFacts
  <2>q. QED
    BY <1>6, <1>9, <1>10, <2>1, RelayKeeps
<1>q. QED
  BY <1>7, <1>8, <1>11

\* A new process holds and sends nothing, and is blank.
LEMMA RestartOrders ==
    ASSUME IInv, OrderInv, NEW m \in Members, Restart(m)
    PROVE  (SeenOK /\ EmptyOK /\ AheadOK /\ RelayOK)'
<1>1. m \in Nodes /\ m # Host /\ Host \in Nodes
  BY NodeFacts
<1>2. ASSUME NEW k \in Nodes, NEW o \in Nodes
      PROVE  hot'[k][o] = IF k = m THEN NoSnapshot ELSE hot[k][o]
  BY <1>1 DEF IInv, HotOK, Restart
<1>3. ctl'[m] = Idle /\ \A k \in Nodes \ {m} : ctl'[k] = ctl[k]
  BY <1>1 DEF IInv, CtlOK, Restart
<1>4. /\ Carried(m)' = {} /\ Arrived(m)' = {}
      /\ \A k \in Nodes \ {m} : Carried(k)' = Carried(k) /\ Arrived(k)' = Arrived(k)
  BY <1>3, Defaults DEF Carried, Arrived
<1>5. \A k, l \in Nodes : /\ OnLink(k, l)' \subseteq OnLink(k, l)
                          /\ {k, l} = {m, Host} => OnLink(k, l)' = {}
  BY LostLinks DEF Restart
<1>6. Copies(m)' = {} /\ \A k \in Nodes \ {m} : Copies(k)' = Copies(k)
  <2>1. \A o \in Nodes : ~Held(m, o)'
    BY <1>1, <1>2 DEF Held, NoSnapshot
  <2>2. ASSUME NEW k \in Nodes \ {m}, NEW o \in Nodes PROVE SameKey(hot'[k][o], hot[k][o])
    BY <1>2 DEF SameKey
  <2>3. Copies(m)' = {}
    BY <2>1 DEF Copies
  <2>q. QED
    BY <2>2, <2>3, CopiesStay
<1>7. \A k \in Nodes : Got(k)' \subseteq Got(k) /\ Passed(k)' \subseteq Passed(k)
  BY <1>4, <1>5, <1>6 DEF Got, Passed
<1>8. Passed(m)' = {}
  <2>1. ASSUME NEW l \in Nodes, NEW key \in OnLink(m, l) PROVE l = Host
    BY <1>1, <2>1 DEF OrderInv, FlowOK, Destinations
  <2>2. \A l \in Nodes : OnLink(m, l)' = {}
    BY <1>1, <1>5, <2>1
  <2>q. QED
    BY <1>4, <2>2 DEF Passed
<1>9. Around' \subseteq Around /\ \A o : Beyond(o)' \subseteq Beyond(o)
  BY <1>7, NothingNew
<1>10. history'.made = history.made /\ history'.blank = history.blank \cup {m}
  BY DEF IInv, HistoryOK, Histories, Restart
<1>11. authority' = authority /\ Now' = Now
  <2>1. game'[Host] = game[Host] /\ authority' = authority
    BY <1>1 DEF IInv, CountersOK, Restart
  <2>q. QED
    BY <2>1 DEF Now
<1>12. \A k, o \in Nodes : k # m => SameKey(hot'[k][o], hot[k][o])
  BY <1>2 DEF SameKey
<1>13. SeenOK' /\ AheadOK'
  BY <1>9, <1>10, <1>11, <1>12, NowFacts, AroundKeeps
<1>14. EmptyOK'
  BY <1>7, <1>8, <1>12, NodeFacts, SentKeeps
<1>15. RelayOK'
  <2>1. \A o \in Members : SameKey(hot'[Host][o], hot[Host][o])
    BY <1>1, <1>12, NodeFacts
  <2>2. Arrived(Host)' = Arrived(Host)
    BY <1>1, <1>4
  <2>q. QED
    BY <1>9, <1>11, <2>1, <2>2, RelayKeeps
<1>q. QED
  BY <1>13, <1>14, <1>15

\* A restored member starts from the host's copy, which all that is still under
\* way of its earlier process is behind.
LEMMA RestoreOrders ==
    ASSUME IInv, OrderInv, NEW m \in Members, Restore(m)
    PROVE  (SeenOK /\ EmptyOK /\ AheadOK /\ RelayOK)'
<1>1. m \in Nodes /\ m # Host /\ Host \in Nodes
  BY NodeFacts
<1>2. PICK copy : copy = hot[Host][m]
  OBVIOUS
<1>3. /\ copy \in Snapshots /\ copy.seq = authority /\ authority # 0
      /\ Held(Host, m) /\ copy.rev \in Nat /\ copy.rev # 0 /\ ~Held(m, m)
  <2>1. copy.seq = authority /\ authority \in 1..MaxSeq /\ ~Held(m, m)
    BY <1>2 DEF Restore, IInv, CountersOK
  <2>2. authority # 0
    BY <2>1
  <2>3. Held(Host, m)
    BY <1>2, <2>1, <2>2 DEF Held
  <2>q. QED
    BY <1>1, <1>2, <2>1, <2>2, <2>3, EntryFacts
<1>4. PICK entry : entry = Snapshot(copy.seq, copy.rev, copy.val, FALSE)
  OBVIOUS
<1>5. hot' = [hot EXCEPT ![m][m] = entry]
  <2>1. \A old : Replaced(old, copy.seq, copy.rev, copy.val, FALSE) = entry
    BY <1>3, <1>4 DEF Replaced, Numbered
  <2>2. hot' = [hot EXCEPT ![m][m] =
                  Replaced(@, copy.seq, copy.rev, copy.val, FALSE)]
    BY <1>2 DEF Restore
  <2>q. QED
    BY <2>1, <2>2
<1>6. SameKey(entry, copy)
  BY <1>4 DEF Snapshot, SameKey
<1>7. /\ hot'[m][m] = entry
      /\ \A k, p \in Nodes : <<k, p>> # <<m, m>> => hot'[k][p] = hot[k][p]
  BY <1>1, <1>5 DEF IInv, HotOK
<1>8. /\ \A k \in Nodes : Carried(k)' = Carried(k) /\ Arrived(k)' = Arrived(k)
      /\ \A k, l \in Nodes : OnLink(k, l)' = OnLink(k, l)
  BY DEF Carried, Arrived, OnLink, Restore
<1>9. /\ Copies(m)' \subseteq Copies(m) \cup {Key(m, copy)}
      /\ \A k \in Nodes \ {m} : Copies(k)' = Copies(k)
  <2>1. ASSUME NEW p \in Nodes, Held(m, p)'
        PROVE  Key(p, hot'[m][p]) \in Copies(m) \cup {Key(m, copy)}
    <3>1. CASE p = m
      BY <1>6, <1>7, <3>1 DEF SameKey, Key
    <3>2. CASE p # m
      <4>1. hot'[m][p] = hot[m][p]
        BY <1>1, <1>7, <3>2
      <4>q. QED
        BY <2>1, <4>1 DEF Held, Copies
    <3>q. QED
      BY <3>1, <3>2
  <2>2. ASSUME NEW k \in Nodes \ {m}, NEW o \in Nodes PROVE SameKey(hot'[k][o], hot[k][o])
    BY <1>7 DEF SameKey
  <2>3. Copies(m)' \subseteq Copies(m) \cup {Key(m, copy)}
    BY <2>1 DEF Copies, Key
  <2>q. QED
    BY <2>2, <2>3, CopiesStay
<1>10. /\ Got(m)' \subseteq Got(m) \cup {Key(m, copy)}
       /\ \A k \in Nodes \ {m} : Got(k)' = Got(k)
       /\ \A k \in Nodes : Passed(k)' = Passed(k)
  <2>1. \A k \in Nodes : Passed(k)' = Passed(k)
    BY <1>8 DEF Passed
  <2>2. \A k \in Nodes \ {m} : Got(k)' = Got(k)
    BY <1>8, <1>9 DEF Got
  <2>3. Got(m)' \subseteq Got(m) \cup {Key(m, copy)}
    BY <1>1, <1>8, <1>9 DEF Got
  <2>q. QED
    BY <2>1, <2>2, <2>3
<1>11. Key(m, copy) \in Got(Host)
  BY <1>1, <1>2, <1>3, EntryFacts DEF Got
<1>12. Around' \subseteq Around
  BY <1>1, <1>10, <1>11 DEF Around
<1>13. /\ history'.made = history.made /\ history'.blank = history.blank \ {m}
       /\ authority' = authority /\ Now' = Now
  BY DEF IInv, HistoryOK, Histories, Restore, Now
<1>14. ASSUME NEW key \in Around
       PROVE  Genuine(key) /\ key.seq \in Nat /\ key.rev \in Nat /\ key.owner \in Nodes
  BY AroundIsGenuine, GenuineFacts DEF Around
<1>15. SeenOK'
  BY <1>12, <1>13 DEF OrderInv, SeenOK
<1>16. AheadOK'
  <2>1. SUFFICES ASSUME NEW key \in Around PROVE Behind(key)'
    BY <1>12 DEF AheadOK
  <2>2. CASE key.owner # m
    <3>1. hot'[key.owner][key.owner] = hot[key.owner][key.owner]
      BY <1>7, <1>14, <2>2
    <3>2. Behind(key)
      BY DEF OrderInv, AheadOK
    <3>q. QED
      BY <1>13, <2>2, <3>1, <3>2 DEF Behind, Ahead
  <2>3. CASE key.owner = m
    <3>1. key.seq <= authority
      BY <1>14, NowFacts DEF OrderInv, SeenOK
    <3>2. key.seq = authority => Ahead(copy, key)
      <4>1. SUFFICES ASSUME key.seq = authority PROVE Ahead(copy, key)
        OBVIOUS
      <4>2. CASE key \in Beyond(m)
        BY <1>2, <2>3, <4>1, <4>2 DEF OrderInv, RelayOK
      <4>3. CASE key \in Copies(Host)
        BY <1>2, <2>3, <4>3 DEF Copies, Key, Ahead
      <4>4. key \notin Arrived(Host)
        BY DEF Arrived, Restore
      <4>5. key \notin Copies(m)
        BY <1>3, <2>3 DEF Copies, Key
      <4>6. key \notin Arrived(m) /\ key \notin Passed(m)
        BY <1>1, <1>3, <2>3 DEF OrderInv, FlowOK, EmptyOK
      <4>7. PICK k \in Nodes : key \in Got(k) \/ key \in Passed(k)
        BY <2>1 DEF Around
      <4>8. CASE k \notin {m, Host}
        BY <4>2, <4>7, <4>8, BeyondFacts DEF Nodes
      <4>9. CASE k = Host
        BY <1>1, <4>2, <4>3, <4>4, <4>7, <4>9, BeyondFacts DEF Got
      <4>10. CASE k = m
        BY <4>5, <4>6, <4>7, <4>10 DEF Got
      <4>q. QED
        BY <4>8, <4>9, <4>10
    <3>3. key.seq \in Nat /\ authority \in Nat
      BY <1>14, NowFacts
    <3>4. key.seq < authority \/ (key.seq = authority /\ Ahead(copy, key))
      BY <3>1, <3>2, <3>3
    <3>5. hot'[m][m].seq = authority /\ (Ahead(copy, key) => Ahead(hot'[m][m], key))
      BY <1>3, <1>6, <1>7 DEF SameKey, Ahead
    <3>q. QED
      BY <1>3, <2>3, <3>4, <3>5 DEF Behind, Ahead
  <2>q. QED
    BY <2>2, <2>3
<1>17. EmptyOK'
  <2>1. SUFFICES ASSUME NEW k \in Members, ~Held(k, k)', NEW key \in Passed(k)
                 PROVE  key.owner # k
    BY <1>10, NodeFacts DEF EmptyOK
  <2>2. ~Held(k, k)
    BY <1>3, <1>7, <2>1, NodeFacts DEF Held
  <2>q. QED
    BY <2>1, <2>2 DEF OrderInv, EmptyOK
<1>18. RelayOK'
  <2>1. \A o \in Members : SameKey(hot'[Host][o], hot[Host][o])
    BY <1>1, <1>7, NodeFacts DEF SameKey
  <2>2. ASSUME NEW o \in Members, NEW key \in Beyond(o)', key.owner = o
        PROVE  key \in Beyond(o)
    <3>1. \/ \E p \in Members \ {o} : key \in Got(p)'
          \/ \E p \in Nodes \ {o} : key \in Passed(p)'
      BY <2>2 DEF Beyond
    <3>2. CASE \E p \in Nodes \ {o} : key \in Passed(p)'
      BY <1>10, <3>2, BeyondFacts
    <3>3. ASSUME NEW p \in Members \ {o}, key \in Got(p)' PROVE key \in Beyond(o)
      <4>1. key \in Got(p) \/ (p = m /\ key = Key(m, copy))
        BY <1>10, <3>3, NodeFacts
      <4>2. ~(p = m /\ key = Key(m, copy))
        BY <2>2, <3>3 DEF Key
      <4>q. QED
        BY <4>1, <4>2, BeyondFacts
    <3>q. QED
      BY <3>1, <3>2, <3>3
  <2>3. Arrived(Host)' = Arrived(Host)
    BY <1>1, <1>8
  <2>q. QED
    BY <1>13, <2>1, <2>2, <2>3, RelayKeeps
<1>q. QED
  BY <1>15, <1>16, <1>17, <1>18

\* A capture gives the owner an entry of its generation, as new as the one of
\* that generation it had.
LEMMA CaptureFlows ==
    ASSUME IInv, NEW n \in Nodes, NEW seq \in 1..MaxSeq, StoreCapture(n, seq)
    PROVE  \E new \in Snapshots :
              /\ hot' = [hot EXCEPT ![n][n] = new] /\ new.seq = seq
              /\ hot[n][n].seq = seq => new.rev > hot[n][n].rev \/ SameKey(new, hot[n][n])
              /\ history'.made = [history.made EXCEPT ![n] = @ \cup {Key(n, new)}]
              /\ history'.blank = history.blank
<1>1. PICK flag \in BOOLEAN : flag = TRUE
  OBVIOUS
<1>2. PICK old, rev, val : old = hot[n][n] /\ rev = 0 /\ val = pgd[n]
  OBVIOUS
<1>3. PICK new : new = Stored(old, seq, rev, val, flag)
  OBVIOUS
<1>4. /\ new.rev <= MaxRev /\ hot' = [hot EXCEPT ![n][n] = new]
      /\ history' = [history EXCEPT !.captured[n] =
                        @ \cup {[rev |-> new.rev, val |-> new.val]},
                     !.made[n] = @ \cup {Key(n, new)}]
  BY <1>1, <1>2, <1>3 DEF StoreCapture
<1>5. /\ old \in Snapshots /\ seq \in 1..MaxSeq /\ rev \in 0..MaxRev
      /\ val \in 0..MaxVal /\ flag \in BOOLEAN /\ old.rev \in Nat
  BY <1>1, <1>2, EntryFacts, BoundsAssumption DEF IInv, CountersOK
<1>6. \/ new = old /\ old.seq = seq
      \/ \E r \in Nat \ {0} :
            /\ new = [seq |-> seq, rev |-> r, val |-> val, pending |-> flag]
            /\ rev # 0 => r = rev
            /\ old.seq = seq => r > old.rev \/ (r = old.rev /\ val = old.val)
  BY <1>3, <1>5, StoredResult
<1>7. /\ new \in Snapshots /\ new.seq = seq
      /\ old.seq = seq => new.rev > old.rev \/ SameKey(new, old)
  <2>1. CASE new = old /\ old.seq = seq
    BY <1>5, <2>1 DEF SameKey
  <2>2. ASSUME NEW r \in Nat \ {0},
               new = [seq |-> seq, rev |-> r, val |-> val, pending |-> flag],
               old.seq = seq => r > old.rev \/ (r = old.rev /\ val = old.val)
        PROVE  /\ new \in Snapshots /\ new.seq = seq
               /\ old.seq = seq => new.rev > old.rev \/ SameKey(new, old)
    <3>1. new \in Snapshots
      BY <1>4, <1>5, <2>2, BoundsAssumption DEF Snapshots
    <3>q. QED
      BY <2>2, <3>1 DEF SameKey
  <2>q. QED
    BY <1>6, <2>1, <2>2
<1>8. /\ history'.made = [history.made EXCEPT ![n] = @ \cup {Key(n, new)}]
      /\ history'.blank = history.blank
  BY <1>4 DEF IInv, HistoryOK, Histories
<1>q. QED
  BY <1>2, <1>4, <1>7, <1>8

LEMMA CaptureOrders ==
    ASSUME IInv, OrderInv, NEW n \in Nodes, NEW seq \in 1..MaxSeq, StoreCapture(n, seq),
           seq <= Now, hot[n][n].seq <= seq, UNCHANGED <<authority, ctl, net>>, Now' = Now
    PROVE  (SeenOK /\ EmptyOK /\ AheadOK /\ RelayOK)'
<1>1. PICK new \in Snapshots :
         /\ hot' = [hot EXCEPT ![n][n] = new] /\ new.seq = seq
         /\ hot[n][n].seq = seq => new.rev > hot[n][n].rev \/ SameKey(new, hot[n][n])
         /\ history'.made = [history.made EXCEPT ![n] = @ \cup {Key(n, new)}]
         /\ history'.blank = history.blank
  BY CaptureFlows
<1>2. /\ hot'[n][n] = new
      /\ \A k, p \in Nodes : <<k, p>> # <<n, n>> => hot'[k][p] = hot[k][p]
  BY <1>1 DEF IInv, HotOK
<1>3. /\ history.made \in [Nodes -> SUBSET Keys]
      /\ history'.made[n] = history.made[n] \cup {Key(n, new)}
      /\ \A k \in Nodes \ {n} : history'.made[k] = history.made[k]
  BY <1>1 DEF IInv, HistoryOK, Histories
<1>4. PICK key \in Keys : key = Key(n, new)
  BY Defaults
<1>5. key.owner = n /\ key.seq = seq /\ key.rev = new.rev /\ key.val = new.val
  BY <1>1, <1>4 DEF Key
<1>6. /\ \A k \in Nodes : Carried(k)' = Carried(k) /\ Arrived(k)' = Arrived(k)
      /\ \A k, l \in Nodes : OnLink(k, l)' = OnLink(k, l)
  BY DEF Carried, Arrived, OnLink
<1>7. /\ Copies(n)' \subseteq Copies(n) \cup {key}
      /\ \A k \in Nodes \ {n} : Copies(k)' = Copies(k)
  <2>1. ASSUME NEW p \in Nodes, Held(n, p)'
        PROVE  Key(p, hot'[n][p]) \in Copies(n) \cup {key}
    <3>1. CASE p = n
      BY <1>2, <1>4, <3>1
    <3>2. CASE p # n
      <4>1. hot'[n][p] = hot[n][p]
        BY <1>2, <3>2
      <4>q. QED
        BY <2>1, <4>1 DEF Held, Copies
    <3>q. QED
      BY <3>1, <3>2
  <2>2. ASSUME NEW k \in Nodes \ {n}, NEW o \in Nodes PROVE SameKey(hot'[k][o], hot[k][o])
    BY <1>2 DEF SameKey
  <2>3. Copies(n)' \subseteq Copies(n) \cup {key}
    BY <2>1 DEF Copies, Key
  <2>q. QED
    BY <2>2, <2>3, CopiesStay
<1>8. /\ Got(n)' \subseteq Got(n) \cup {key}
      /\ \A k \in Nodes \ {n} : Got(k)' = Got(k)
      /\ \A k \in Nodes : Passed(k)' = Passed(k)
  <2>1. \A k \in Nodes : Passed(k)' = Passed(k)
    BY <1>6 DEF Passed
  <2>2. \A k \in Nodes \ {n} : Got(k)' = Got(k)
    BY <1>6, <1>7 DEF Got
  <2>3. Got(n)' \subseteq Got(n) \cup {key}
    BY <1>6, <1>7 DEF Got
  <2>q. QED
    BY <2>1, <2>2, <2>3
<1>9. Around' \subseteq Around \cup {key}
  BY <1>8 DEF Around
<1>10. ASSUME NEW k \in Around PROVE k.seq \in Nat /\ k.rev \in Nat /\ k.owner \in Nodes
  BY AroundIsGenuine, GenuineFacts DEF Around
<1>11. SeenOK'
  <2>1. \A k \in Around' : k.seq <= Now'
    BY <1>5, <1>9 DEF OrderInv, SeenOK
  <2>2. ASSUME NEW o \in Nodes, NEW k \in history'.made[o] PROVE k.seq <= Now'
    <3>1. k \in history.made[o] \/ k = key
      BY <1>3, <1>4
    <3>q. QED
      BY <1>5, <3>1 DEF OrderInv, SeenOK
  <2>q. QED
    BY <2>1, <2>2 DEF SeenOK
<1>12. AheadOK'
  <2>1. SUFFICES ASSUME NEW k \in Around \cup {key} PROVE Behind(k)'
    BY <1>9 DEF AheadOK
  <2>2. CASE k = key
    <3>1. hot'[k.owner][k.owner] = new /\ new.seq # 0
      BY <1>1, <1>2, <1>5, <2>2
    <3>q. QED
      BY <1>1, <1>5, <2>2, <3>1 DEF Behind, Ahead
  <2>3. CASE k \in Around /\ k # key
    <3>1. Behind(k) /\ k.owner \in Nodes
      BY <1>10, <2>3 DEF OrderInv, AheadOK
    <3>2. CASE k.owner # n
      BY <1>1, <1>2, <1>3, <3>1, <3>2 DEF Behind, Ahead
    <3>3. CASE k.owner = n
      <4>1. SUFFICES ASSUME k \in history'.made[n], n \notin history'.blank
                     PROVE  /\ new.seq # 0
                            /\ k.seq < new.seq \/ (k.seq = new.seq /\ Ahead(new, k))
        BY <1>2, <3>3 DEF Behind, Ahead
      <4>2. k \in history.made[n] /\ n \notin history.blank
        BY <1>1, <1>3, <1>4, <2>3, <4>1
      <4>3. k.seq < hot[n][n].seq \/ (k.seq = hot[n][n].seq /\ Ahead(hot[n][n], k))
        BY <3>1, <3>3, <4>2 DEF Behind
      <4>4. /\ k.seq \in Nat /\ k.rev \in Nat /\ hot[n][n].seq \in Nat
            /\ hot[n][n].rev \in Nat /\ new.rev \in Nat
        BY <1>10, <2>3, EntryFacts, BoundsAssumption DEF Snapshots
      <4>5. CASE k.seq < seq
        BY <1>1, <4>5
      <4>6. CASE ~(k.seq < seq)
        <5>1. k.seq = seq /\ hot[n][n].seq = seq /\ Ahead(hot[n][n], k)
          BY <4>3, <4>4, <4>6
        <5>2. Ahead(new, k)
          BY <1>1, <4>4, <5>1 DEF Ahead, SameKey
        <5>q. QED
          BY <1>1, <5>1, <5>2
      <4>q. QED
        BY <4>5, <4>6
    <3>q. QED
      BY <3>2, <3>3
  <2>q. QED
    BY <2>2, <2>3
<1>13. EmptyOK'
  <2>1. SUFFICES ASSUME NEW m \in Members, ~Held(m, m)', NEW k \in Passed(m)
                 PROVE  k.owner # m
    BY <1>8, NodeFacts DEF EmptyOK
  <2>2. ~Held(m, m)
    BY <1>1, <1>2, <2>1, NodeFacts DEF Held
  <2>q. QED
    BY <2>1, <2>2 DEF OrderInv, EmptyOK
<1>14. RelayOK'
  <2>1. \A m \in Members : SameKey(hot'[Host][m], hot[Host][m])
    BY <1>2, NodeFacts DEF SameKey
  <2>2. ASSUME NEW m \in Members, NEW k \in Beyond(m)', k.owner = m PROVE k \in Beyond(m)
    <3>1. \/ \E p \in Members \ {m} : k \in Got(p)'
          \/ \E p \in Nodes \ {m} : k \in Passed(p)'
      BY <2>2 DEF Beyond
    <3>2. CASE \E p \in Nodes \ {m} : k \in Passed(p)'
      BY <1>8, <3>2, BeyondFacts
    <3>3. ASSUME NEW p \in Members \ {m}, k \in Got(p)' PROVE k \in Beyond(m)
      <4>1. k \in Got(p) \/ (p = n /\ k = key)
        BY <1>8, <3>3, NodeFacts
      <4>2. ~(p = n /\ k = key)
        BY <1>5, <2>2, <3>3
      <4>q. QED
        BY <4>1, <4>2, BeyondFacts
    <3>q. QED
      BY <3>1, <3>2, <3>3
  <2>3. Arrived(Host)' = Arrived(Host)
    BY <1>6, NodeFacts
  <2>q. QED
    BY <2>1, <2>2, <2>3, RelayKeeps
<1>q. QED
  BY <1>11, <1>12, <1>13, <1>14

LEMMA HostCaptureOrders ==
    ASSUME IInv, OrderInv, HostCapture
    PROVE  (SeenOK /\ EmptyOK /\ AheadOK /\ RelayOK)'
<1>1. Host \in Nodes /\ authority \in 1..MaxSeq /\ StoreCapture(Host, authority)
  BY NodeFacts DEF IInv, CountersOK, HostCapture
<1>2. Now = authority /\ Now' = Now
  BY DEF HostCapture, Now
<1>3. hot[Host][Host].seq <= authority
  <2>1. CASE Held(Host, Host)
    <3>1. Key(Host, hot[Host][Host]) \in Around
      BY <1>1, <2>1, EntryFacts DEF Around, Got
    <3>q. QED
      BY <1>2, <3>1 DEF OrderInv, SeenOK, Key
  <2>2. CASE ~Held(Host, Host)
    BY <1>1, <2>2 DEF Held
  <2>q. QED
    BY <2>1, <2>2
<1>4. authority <= Now
  BY <1>1, <1>2
<1>q. QED
  BY <1>1, <1>2, <1>3, <1>4, CaptureOrders DEF HostCapture

LEMMA EndCaptureOrders ==
    ASSUME IInv, OrderInv, NEW n \in Members, EndCapture(n)
    PROVE  (SeenOK /\ EmptyOK /\ AheadOK /\ RelayOK)'
<1>1. n \in Nodes /\ n # Host /\ game[n] \in 1..MaxSeq
  BY NodeFacts, BoundsAssumption DEF IInv, CountersOK, EndCapture
<1>2. Now' = Now
  <2>1. game'[Host] = game[Host] /\ authority' = authority
    BY <1>1 DEF IInv, CountersOK, EndCapture
  <2>q. QED
    BY <2>1 DEF Now
<1>3. game[n] <= Now /\ hot[n][n].seq <= game[n]
  <2>1. game[n] # 0 /\ receipt[n] \in Int
    BY <1>1 DEF EndCapture, IInv, CountersOK
  <2>q. QED
    BY <1>1, <2>1, NowFacts DEF OrderInv, LagOK
<1>q. QED
  BY <1>1, <1>2, <1>3, CaptureOrders DEF EndCapture

\* A commit changes the generation, which nothing around has yet.
LEMMA CommitOrders ==
    ASSUME IInv, OrderInv, Commit
    PROVE  (SeenOK /\ EmptyOK /\ AheadOK /\ RelayOK)'
<1>1. history'.made = history.made /\ history'.blank = history.blank
  BY DEF IInv, HistoryOK, Histories, Commit, Upset
<1>2. /\ authority \in Nat /\ authority' = authority + 1 /\ Now = authority /\ Now' = Now
  <2>1. authority \in Nat /\ authority' = authority + 1 /\ game[Host] = 0 /\ game'[Host] = 1
    BY NodeFacts, BoundsAssumption DEF IInv, CountersOK, Commit
  <2>q. QED
    BY <2>1 DEF Now
<1>3. \A k \in Nodes : Got(k)' = Got(k) /\ Passed(k)' = Passed(k)
  <2>1. \A k \in Nodes : Copies(k)' = Copies(k) /\ Arrived(k)' = Arrived(k)
    BY DEF Copies, Held, Arrived, Commit
  <2>2. /\ \A k \in Nodes : Carried(k)' = Carried(k)
        /\ \A k, l \in Nodes : OnLink(k, l)' = OnLink(k, l)
    BY DEF Carried, OnLink, Commit
  <2>q. QED
    BY <2>1, <2>2 DEF Got, Passed
<1>4. Around' \subseteq Around /\ \A m : Beyond(m)' \subseteq Beyond(m)
  BY <1>3, NothingNew
<1>5. \A k, o \in Nodes : SameKey(hot'[k][o], hot[k][o])
  BY DEF SameKey, Commit
<1>6. SeenOK' /\ AheadOK'
  BY <1>1, <1>2, <1>4, <1>5, NowFacts, AroundKeeps
<1>7. EmptyOK'
  BY <1>3, <1>5, NodeFacts, SentKeeps
<1>8. RelayOK'
  <2>1. SUFFICES ASSUME NEW m \in Members, NEW key \in Beyond(m), key.seq = authority + 1
                 PROVE  FALSE
    BY <1>2, <1>4 DEF RelayOK
  <2>2. key \in Around
    BY BeyondFacts
  <2>q. QED
    BY <1>2, <2>1, <2>2 DEF OrderInv, SeenOK
<1>q. QED
  BY <1>6, <1>7, <1>8

\* What the host rebinds is of a generation no capture was made in.
LEMMA ReconcileOrders ==
    ASSUME IInv, OrderInv, Reconcile
    PROVE  (SeenOK /\ EmptyOK /\ AheadOK /\ RelayOK)'
<1>1. /\ authority \in Nat /\ authority # 0 /\ authority' = authority
      /\ Now = authority - 1 /\ Now' = authority
  <2>1. authority \in Nat \ {0} /\ authority' = authority /\ game[Host] = 1 /\ game'[Host] = 0
    <3>1. /\ authority' = authority /\ game[Host] = 1
          /\ game' = [game EXCEPT ![Host] = 0]
      BY DEF Reconcile
    <3>2. authority \in Nat \ {0} /\ game \in [Nodes -> 0..MaxSeq]
      BY BoundsAssumption DEF IInv, CountersOK
    <3>q. QED
      BY <3>1, <3>2, NodeFacts
  <2>q. QED
    BY <2>1 DEF Now
<1>2. /\ \A o \in Nodes : /\ Held(Host, o) => hot'[Host][o].seq = authority
                          /\ ~Held(Host, o) => hot'[Host][o] = hot[Host][o]
      /\ \A k \in Members, o \in Nodes : hot'[k][o] = hot[k][o]
  <2>1. hot \in [Nodes -> [Nodes -> Snapshots]]
    BY DEF IInv, HotOK
  <2>2. ASSUME NEW k \in Nodes, NEW o \in Nodes
        PROVE  hot'[k][o] = IF k = Host /\ Held(k, o)
                            THEN [hot[k][o] EXCEPT !.seq = authority, !.pending = TRUE]
                            ELSE hot[k][o]
    BY <2>1, NodeFacts DEF Reconcile
  <2>3. \A e \in Snapshots : [e EXCEPT !.seq = authority, !.pending = TRUE].seq = authority
    BY DEF Snapshots
  <2>q. QED
    <3>1. ASSUME NEW o \in Nodes, Held(Host, o) PROVE hot'[Host][o].seq = authority
      <4>1. hot'[Host][o] = [hot[Host][o] EXCEPT !.seq = authority, !.pending = TRUE]
        BY <2>2, <3>1, NodeFacts
      <4>q. QED
        BY <2>1, <2>3, <4>1, NodeFacts
    <3>2. ASSUME NEW o \in Nodes, ~Held(Host, o) PROVE hot'[Host][o] = hot[Host][o]
      BY <2>2, <3>2, NodeFacts
    <3>3. ASSUME NEW k \in Members, NEW o \in Nodes PROVE hot'[k][o] = hot[k][o]
      BY <2>2, <3>3, NodeFacts
    <3>q. QED
      BY <3>1, <3>2, <3>3
<1>3. /\ \A k \in Nodes : Carried(k)' = Carried(k) /\ Arrived(k)' = Arrived(k)
      /\ \A k, l \in Nodes : OnLink(k, l)' = OnLink(k, l)
  BY DEF Carried, Arrived, OnLink, Reconcile
<1>4. \A k \in Members, o \in Nodes : SameKey(hot'[k][o], hot[k][o])
  BY <1>2 DEF SameKey
<1>5. \A key \in Copies(Host)' : key.seq = authority
  BY <1>2 DEF Copies, Held, Key
<1>6. /\ \A k \in Nodes : Passed(k)' = Passed(k)
      /\ \A k \in Members : Got(k)' = Got(k)
      /\ \A key \in Got(Host)' : key \in Got(Host) \/ key.seq = authority
  <2>1. \A k \in Nodes : Passed(k)' = Passed(k)
    BY <1>3 DEF Passed
  <2>2. ASSUME NEW k \in Members PROVE Got(k)' = Got(k)
    <3>1. Copies(k)' = Copies(k)
      BY <1>4, NodeFacts, CopiesStay
    <3>q. QED
      BY <1>3, <3>1, NodeFacts DEF Got
  <2>3. ASSUME NEW key \in Got(Host)' PROVE key \in Got(Host) \/ key.seq = authority
    BY <1>3, <1>5, NodeFacts DEF Got
  <2>q. QED
    BY <2>1, <2>2, <2>3
<1>7. \A key \in Around' : key \in Around \/ key.seq = authority
  <2>1. SUFFICES ASSUME NEW k \in Nodes, NEW key \in Got(k)' \cup Passed(k)'
                 PROVE  key \in Around \/ key.seq = authority
    BY DEF Around
  <2>2. k \in Members \/ k = Host
    BY DEF Nodes
  <2>q. QED
    BY <1>6, <2>1, <2>2 DEF Around
<1>8. history'.made = history.made /\ history'.blank = history.blank
  BY DEF Reconcile
<1>9. ASSUME NEW key \in Around PROVE key.seq \in Nat /\ key.owner \in Nodes
  BY AroundIsGenuine, GenuineFacts DEF Around
<1>10. ASSUME NEW o \in Nodes, NEW key \in history.made[o] PROVE key.seq \in Nat
  BY BoundsAssumption DEF IInv, HistoryOK, Histories, Keys
<1>11. SeenOK'
  <2>1. \A key \in Around' : key.seq <= Now'
    BY <1>1, <1>7, <1>9 DEF OrderInv, SeenOK
  <2>2. \A o \in Nodes : \A key \in history'.made[o] : key.seq <= Now'
    BY <1>1, <1>8, <1>10 DEF OrderInv, SeenOK
  <2>q. QED
    BY <2>1, <2>2 DEF SeenOK
<1>12. AheadOK'
  <2>1. SUFFICES ASSUME NEW key \in Around', key \in history.made[key.owner],
                        key.owner \notin history.blank, key.owner \in Nodes
                 PROVE  Behind(key)'
    <3>1. \A key \in Around' : key.owner \in Nodes
      <4>1. SUFFICES ASSUME NEW k \in Nodes, NEW key \in Got(k)' \cup Passed(k)'
                     PROVE  key.owner \in Nodes
        BY DEF Around
      <4>2. k \in Members \/ k = Host
        BY DEF Nodes
      <4>3. key \in Around \/ key \in Copies(Host)'
        BY <1>3, <1>6, <4>1, <4>2, NodeFacts DEF Around, Got
      <4>q. QED
        BY <1>9, <4>3 DEF Copies, Key
    <3>q. QED
      BY <1>8, <3>1 DEF AheadOK, Behind
  <2>2. key.seq <= authority - 1 /\ key.seq \in Nat
    BY <1>1, <1>10, <2>1 DEF OrderInv, SeenOK
  <2>3. key \in Around
    BY <1>1, <1>7, <2>1, <2>2
  <2>4. /\ hot[key.owner][key.owner].seq # 0
        /\ \/ key.seq < hot[key.owner][key.owner].seq
           \/ key.seq = hot[key.owner][key.owner].seq /\ Ahead(hot[key.owner][key.owner], key)
    BY <2>1, <2>3 DEF OrderInv, AheadOK, Behind
  <2>5. CASE key.owner = Host
    <3>1. hot'[Host][Host].seq = authority
      BY <1>2, <2>4, <2>5, NodeFacts DEF Held
    <3>q. QED
      BY <1>1, <2>2, <2>5, <3>1 DEF Behind
  <2>6. CASE key.owner # Host
    <3>1. hot'[key.owner][key.owner] = hot[key.owner][key.owner]
      BY <1>2, <2>1, <2>6 DEF Nodes
    <3>q. QED
      BY <2>4, <3>1 DEF Behind, Ahead
  <2>q. QED
    BY <2>5, <2>6
<1>13. EmptyOK'
  BY <1>4, <1>6, NodeFacts, SentKeeps
<1>14. RelayOK'
  <2>1. SUFFICES ASSUME NEW m \in Members, NEW key \in Beyond(m)', key.seq = authority
                 PROVE  FALSE
    BY <1>1 DEF RelayOK
  <2>2. \/ \E p \in Members \ {m} : key \in Got(p)'
        \/ \E p \in Nodes \ {m} : key \in Passed(p)'
    BY <2>1 DEF Beyond
  <2>3. key \in Beyond(m)
    BY <1>6, <2>2, BeyondFacts
  <2>4. key \in Around
    BY <2>3, BeyondFacts
  <2>q. QED
    BY <1>1, <2>1, <2>4 DEF OrderInv, SeenOK
<1>q. QED
  BY <1>11, <1>12, <1>13, <1>14

-----------------------------------------------------------------------------
(* The routes of keys, and the generations of members. *)

\* What it takes for the routes to stay as they are.
LEMMA FlowFrom ==
    ASSUME FlowOK,
           \A n \in Nodes : n \notin peers'[n] /\ n \notin ctl'[n].peers,
           \A n \in Nodes : ctl'[n].pc = "send" =>
              ctl'[n].left \subseteq Destinations(n, ctl'[n].key),
           \A m, n \in Nodes : \A key \in OnLink(m, n)' :
              key \in OnLink(m, n) \/ n \in Destinations(m, key),
           \A n \in Nodes : \A key \in Arrived(n)' :
              key \in Arrived(n) \/ \E m \in Nodes : key \in OnLink(m, n)
    PROVE  FlowOK'
<1>1. \A m, n \in Nodes : \A key \in OnLink(m, n)' : n \in Destinations(m, key)
  BY DEF FlowOK
<1>2. ASSUME NEW m \in Nodes, NEW n \in Nodes, NEW key \in OnLink(m, n)
      PROVE  key.owner # n
  <2>1. n \in Destinations(m, key)
    BY DEF FlowOK
  <2>q. QED
    BY <2>1, NodeFacts DEF Destinations
<1>3. \A n \in Nodes : \A key \in Arrived(n)' : key.owner # n
  BY <1>2 DEF FlowOK
<1>q. QED
  BY <1>1, <1>3 DEF FlowOK, Destinations

\* A step of other parts, or one that only loses what is on links.
LEMMA FlowStays ==
    ASSUME FlowOK, UNCHANGED <<ctl, peers>>,
           \A m, n \in Nodes : OnLink(m, n)' \subseteq OnLink(m, n)
    PROVE  FlowOK'
<1>1. \A n \in Nodes : Arrived(n)' = Arrived(n)
  BY DEF Arrived
<1>2. /\ \A n \in Nodes : n \notin peers'[n] /\ n \notin ctl'[n].peers
      /\ \A n \in Nodes : ctl'[n].pc = "send" =>
            ctl'[n].left \subseteq Destinations(n, ctl'[n].key)
  BY DEF FlowOK
<1>q. QED
  BY <1>1, <1>2, FlowFrom

\* A round picks targets that its key may go to.
LEMMA NextKeyRoutes ==
    ASSUME IInv, FlowOK, NEW n \in Nodes, NEW round \in Rounds, NextKey(n, round),
           n \notin round.peers, UNCHANGED <<net, peers>>
    PROVE  FlowOK'
<1>1. /\ ctl'[n].pc \in {"idle", "send"}
      /\ ctl'[n].peers \in {round.peers, {}}
      /\ ctl'[n].pc = "send" => ctl'[n].left = Targets(n, round, ctl'[n].key)
      /\ \A k \in Nodes \ {n} : ctl'[k] = ctl[k]
  BY NextKeyFlows
<1>2. \A key : Targets(n, round, key) \subseteq Destinations(n, key)
  BY NodeFacts DEF Targets, Destinations, Rounds
<1>3. ASSUME NEW k \in Nodes
      PROVE  /\ k \notin peers'[k] /\ k \notin ctl'[k].peers
             /\ ctl'[k].pc = "send" => ctl'[k].left \subseteq Destinations(k, ctl'[k].key)
  <2>1. CASE k = n
    BY <1>1, <1>2, <2>1 DEF FlowOK
  <2>2. CASE k # n
    BY <1>1, <2>2 DEF FlowOK
  <2>q. QED
    BY <2>1, <2>2
<1>4. \A k, l \in Nodes : OnLink(k, l)' = OnLink(k, l)
  BY DEF OnLink
<1>5. \A k \in Nodes : Arrived(k)' \subseteq Arrived(k)
  BY <1>1 DEF Arrived
<1>q. QED
  BY <1>3, <1>4, <1>5, FlowFrom

LEMMA CollectPeersRoutes ==
    ASSUME IInv, FlowOK, NEW n \in Nodes, CollectPeers(n) PROVE FlowOK'
<1>1. PICK round : round = [ctl[n] EXCEPT !.peers = peers[n]]
  OBVIOUS
<1>2. round \in Rounds /\ round.peers = peers[n]
  <2>1. ctl[n] \in Rounds /\ peers[n] \in SUBSET Nodes
    BY DEF IInv, CountersOK, CtlOK
  <2>q. QED
    BY <1>1, <2>1 DEF Rounds
<1>3. NextKey(n, round) /\ n \notin round.peers /\ UNCHANGED <<net, peers>>
  BY <1>1, <1>2 DEF CollectPeers, FlowOK
<1>q. QED
  BY <1>2, <1>3, NextKeyRoutes

LEMMA FinishKeyRoutes ==
    ASSUME IInv, FlowOK, NEW n \in Nodes, FinishKey(n) PROVE FlowOK'
<1>1. /\ ctl[n] \in Rounds /\ NextKey(n, ctl[n]) /\ n \notin ctl[n].peers
      /\ UNCHANGED <<net, peers>>
  BY DEF IInv, CtlOK, FinishKey, FlowOK
<1>q. QED
  BY <1>1, NextKeyRoutes

LEMMA SendRoutes == ASSUME IInv, FlowOK, NEW n \in Nodes, Send(n) PROVE FlowOK'
<1>1. PICK p \in ctl[n].left :
         /\ OnLink(n, p)' \subseteq OnLink(n, p) \cup {ctl[n].key}
         /\ \A k, l \in Nodes : <<k, l>> # <<n, p>> => OnLink(k, l)' = OnLink(k, l)
         /\ \A k \in Nodes : /\ ctl'[k].pc = ctl[k].pc
                             /\ ctl'[k].key = ctl[k].key /\ ctl'[k].peers = ctl[k].peers
                             /\ ctl'[k].left \subseteq ctl[k].left
  BY SendFlows
<1>2. p \in Destinations(n, ctl[n].key)
  BY DEF FlowOK, Send
<1>3. ASSUME NEW k \in Nodes, NEW l \in Nodes, NEW key \in OnLink(k, l)'
      PROVE  key \in OnLink(k, l) \/ l \in Destinations(k, key)
  BY <1>1, <1>2, <1>3
<1>4. \A k \in Nodes : Arrived(k)' = Arrived(k)
  BY <1>1 DEF Arrived
<1>5. /\ \A k \in Nodes : k \notin peers'[k] /\ k \notin ctl'[k].peers
      /\ \A k \in Nodes : ctl'[k].pc = "send" =>
            ctl'[k].left \subseteq Destinations(k, ctl'[k].key)
  BY <1>1 DEF FlowOK, Send
<1>q. QED
  BY <1>3, <1>4, <1>5, FlowFrom

LEMMA TakeChunkRoutes ==
    ASSUME IInv, FlowOK, NEW n \in Nodes, NEW m \in Nodes, TakeChunk(n, m) PROVE FlowOK'
<1>1. PICK key \in OnLink(m, n) :
         /\ \A k, l \in Nodes : OnLink(k, l)' \subseteq OnLink(k, l)
         /\ \A k \in Nodes \ {n} : Arrived(k)' = Arrived(k)
         /\ Arrived(n)' = {} \/ (Arrived(n)' = {key} /\ Accepts(n, m, key))
         /\ ctl'[n].pc \in {"idle", "store"}
         /\ \A k \in Nodes : ctl'[k].peers = ctl[k].peers /\ (k # n => ctl'[k] = ctl[k])
  BY ChunkFlows
<1>2. /\ \A k \in Nodes : k \notin peers'[k] /\ k \notin ctl'[k].peers
      /\ \A k \in Nodes : ctl'[k].pc = "send" =>
            ctl'[k].left \subseteq Destinations(k, ctl'[k].key)
  BY <1>1 DEF FlowOK, TakeChunk
<1>q. QED
  BY <1>1, <1>2, FlowFrom

\* A thread that is idle, or only has something to do, sends to nobody.
LEMMA IdleRoutes ==
    ASSUME IInv, FlowOK, NEW n \in Nodes, NEW r \in Rounds, ctl' = [ctl EXCEPT ![n] = r],
           r.pc \in {"idle", "peers"}, r.peers = {},
           \A k \in Nodes : peers'[k] \subseteq peers[k],
           \A k, l \in Nodes : OnLink(k, l)' \subseteq OnLink(k, l)
    PROVE  FlowOK'
<1>1. ctl'[n] = r /\ \A k \in Nodes \ {n} : ctl'[k] = ctl[k]
  BY DEF IInv, CtlOK
<1>2. \A k \in Nodes : Arrived(k)' \subseteq Arrived(k)
  BY <1>1 DEF Arrived
<1>3. /\ \A k \in Nodes : k \notin peers'[k] /\ k \notin ctl'[k].peers
      /\ \A k \in Nodes : ctl'[k].pc = "send" =>
            ctl'[k].left \subseteq Destinations(k, ctl'[k].key)
  BY <1>1 DEF FlowOK
<1>q. QED
  BY <1>2, <1>3, FlowFrom

\* A step that leaves the members' generations alone.
LEMMA LagStays ==
    ASSUME IInv, LagOK, Now \in Int, Now' \in Int, Now <= Now',
           \A m \in Members : /\ receipt'[m] = receipt[m] /\ game'[m] = game[m]
                              /\ hot'[m][m].seq = hot[m][m].seq
    PROVE  LagOK'
<1>1. \A m \in Members : receipt[m] \in Int
  BY NodeFacts DEF IInv, CountersOK
<1>q. QED
  BY <1>1 DEF LagOK

\* A step that changes those of one member, in order.
LEMMA LagMoves ==
    ASSUME IInv, LagOK, NEW n \in Members, Now' = Now,
           \A m \in Members \ {n} : /\ receipt'[m] = receipt[m] /\ game'[m] = game[m]
                                    /\ hot'[m][m].seq = hot[m][m].seq,
           /\ receipt'[n] <= Now /\ game'[n] <= receipt'[n] /\ hot'[n][n].seq <= receipt'[n]
           /\ game'[n] # 0 => hot'[n][n].seq <= game'[n]
    PROVE  LagOK'
BY DEF LagOK

-----------------------------------------------------------------------------
(* Every step keeps the order. *)

\* A calm step that leaves the routes and the generations alone.
LEMMA CalmOrders ==
    ASSUME IInv, IInv', OrderInv, Calm, FlowOK',
           UNCHANGED <<receipt, game>> \/ LagOK'
    PROVE  OrderInv'
<1>1. (SeenOK /\ EmptyOK /\ AheadOK /\ RelayOK)'
  BY CalmKeeps
<1>2. CASE UNCHANGED <<receipt, game>>
  <2>1. \A m \in Members : hot'[m][m].seq = hot[m][m].seq
    BY NodeFacts DEF Calm, SameKey
  <2>2. Now \in Int /\ Now' = Now
    BY NowFacts DEF Calm
  <2>3. LagOK'
    BY <1>2, <2>1, <2>2, LagStays DEF OrderInv
  <2>q. QED
    BY <1>1, <2>3 DEF OrderInv
<1>q. QED
  BY <1>1, <1>2 DEF OrderInv

\* What only touches the links leaves the routes.
LEMMA LinksStay ==
    ASSUME UNCHANGED net PROVE \A k, l \in Nodes : OnLink(k, l)' = OnLink(k, l)
BY DEF OnLink

LEMMA GameOrders ==
    ASSUME IInv, IInv', OrderInv, NEW n \in Nodes, GameStep(n) PROVE OrderInv'
<1>1. UNCHANGED <<ctl, peers, net, authority>>
  BY DEF GameStep, Play, BeginCapture, EndCapture
<1>2. FlowOK'
  BY <1>1, LinksStay, FlowStays DEF OrderInv
<1>3. CASE Play(n)
  <2>1. UNCHANGED <<hot, receipt, game, history>>
    BY <1>3 DEF Play
  <2>q. QED
    BY <1>1, <1>2, <2>1, IdleIsCalm, CalmOrders
<1>4. CASE n \in Members /\ BeginCapture(n)
  <2>1. /\ UNCHANGED <<hot, receipt, history>> /\ game' = [game EXCEPT ![n] = receipt[n]]
    BY <1>4 DEF BeginCapture
  <2>2. /\ game'[n] = receipt[n] /\ n # Host
        /\ \A k \in Nodes \ {n} : game'[k] = game[k]
    BY <1>4, <2>1, NodeFacts DEF IInv, CountersOK
  <2>3. Now' = Now /\ Calm
    BY <1>1, <2>1, <2>2, NodeFacts, IdleIsCalm DEF Now
  <2>4. receipt[n] <= Now /\ hot[n][n].seq <= receipt[n] /\ receipt[n] \in Int
    BY <1>4 DEF OrderInv, LagOK, IInv, CountersOK
  <2>5. LagOK'
    BY <1>4, <2>1, <2>2, <2>3, <2>4, NodeFacts, LagMoves DEF OrderInv
  <2>q. QED
    BY <1>2, <2>3, <2>5, CalmOrders
<1>5. CASE n \in Members /\ EndCapture(n)
  <2>1. (SeenOK /\ EmptyOK /\ AheadOK /\ RelayOK)'
    BY <1>5, EndCaptureOrders
  <2>2. game[n] \in 1..MaxSeq /\ StoreCapture(n, game[n])
    BY <1>5, BoundsAssumption DEF EndCapture, IInv, CountersOK
  <2>3. PICK new \in Snapshots :
           hot' = [hot EXCEPT ![n][n] = new] /\ new.seq = game[n]
    <3>1. PICK seq \in 1..MaxSeq : seq = game[n] /\ StoreCapture(n, seq)
      BY <2>2
    <3>2. PICK new \in Snapshots :
             /\ hot' = [hot EXCEPT ![n][n] = new] /\ new.seq = seq
             /\ hot[n][n].seq = seq => new.rev > hot[n][n].rev \/ SameKey(new, hot[n][n])
             /\ history'.made = [history.made EXCEPT ![n] = @ \cup {Key(n, new)}]
             /\ history'.blank = history.blank
      BY <3>1, CaptureFlows
    <3>q. QED
      BY <3>1, <3>2
  <2>4. /\ UNCHANGED receipt /\ game'[n] = 0 /\ n # Host
        /\ \A k \in Nodes \ {n} : game'[k] = game[k]
    BY <1>5, NodeFacts DEF IInv, CountersOK, EndCapture
  <2>5. /\ hot'[n][n] = new /\ \A k \in Members \ {n} : hot'[k][k] = hot[k][k]
    BY <2>3, NodeFacts DEF IInv, HotOK
  <2>6. Now' = Now
    BY <1>1, <2>4, NodeFacts DEF Now
  <2>7. receipt[n] <= Now /\ game[n] <= receipt[n] /\ receipt[n] \in Nat
    BY <1>5, BoundsAssumption DEF OrderInv, LagOK, IInv, CountersOK
  <2>8. LagOK'
    BY <1>5, <2>3, <2>4, <2>5, <2>6, <2>7, NodeFacts, LagMoves DEF OrderInv
  <2>q. QED
    BY <1>2, <2>1, <2>8 DEF OrderInv
<1>q. QED
  BY <1>3, <1>4, <1>5 DEF GameStep

LEMMA ControlOrders ==
    ASSUME IInv, IInv', OrderInv, NEW n \in Nodes, ControlStep(n) PROVE OrderInv'
<1>0. FlowOK /\ LagOK
  BY DEF OrderInv
<1>1. CASE CollectPeers(n)
  <2>1. UNCHANGED <<receipt, game>>
    BY <1>1 DEF CollectPeers
  <2>q. QED
    BY <1>0, <1>1, <2>1, CollectPeersIsCalm, CollectPeersRoutes, CalmOrders
<1>2. CASE Send(n)
  <2>1. UNCHANGED <<receipt, game>>
    BY <1>2 DEF Send
  <2>q. QED
    BY <1>0, <1>2, <2>1, SendIsCalm, SendRoutes, CalmOrders
<1>3. CASE FinishKey(n)
  <2>1. UNCHANGED <<receipt, game>>
    BY <1>3 DEF FinishKey
  <2>q. QED
    BY <1>0, <1>3, <2>1, FinishKeyIsCalm, FinishKeyRoutes, CalmOrders
<1>4. CASE CollectKeys(n)
  <2>1. (SeenOK /\ EmptyOK /\ AheadOK /\ RelayOK)'
    BY <1>4, CollectKeysOrders
  <2>2. UNCHANGED <<hot, authority, receipt, game, peers, net>>
    BY <1>4 DEF CollectKeys
  <2>3. LagOK'
    BY <1>0, <2>2, NowFacts, LagStays DEF Now
  <2>4. PICK r : r = [Idle EXCEPT !.pc = "peers", !.todo = Pending(n)]
    OBVIOUS
  <2>5. r \in Rounds /\ r.pc = "peers" /\ r.peers = {}
    BY <2>4, Defaults, PendingIsGenuine DEF IInv, Rounds, Idle
  <2>6. ctl' = [ctl EXCEPT ![n] = r]
    BY <1>4, <2>4 DEF CollectKeys
  <2>7. FlowOK'
    BY <1>0, <2>2, <2>5, <2>6, LinksStay, IdleRoutes
  <2>q. QED
    BY <2>1, <2>3, <2>7 DEF OrderInv
<1>5. CASE StoreReceived(n)
  <2>1. (SeenOK /\ EmptyOK /\ AheadOK /\ RelayOK)'
    BY <1>5, StoreReceivedOrders
  <2>2. UNCHANGED <<authority, receipt, game, peers, net>> /\ ctl' = [ctl EXCEPT ![n] = Idle]
    BY <1>5 DEF StoreReceived
  <2>3. ASSUME NEW m \in Members PROVE hot'[m][m].seq = hot[m][m].seq
    <3>1. PICK key \in Arrived(n), new \in Snapshots :
             key.owner \in Nodes /\ hot' = [hot EXCEPT ![n][key.owner] = new]
      BY <1>5, ReceivedFlows
    <3>2. key.owner # n
      BY <1>0 DEF FlowOK
    <3>q. QED
      BY <3>1, <3>2, NodeFacts DEF IInv, HotOK
  <2>4. LagOK'
    BY <1>0, <2>2, <2>3, NowFacts, LagStays DEF Now
  <2>5. Idle \in Rounds /\ Idle.pc = "idle" /\ Idle.peers = {}
    BY Defaults DEF Idle
  <2>6. FlowOK'
    BY <1>0, <2>2, <2>5, LinksStay, IdleRoutes
  <2>q. QED
    BY <2>1, <2>4, <2>6 DEF OrderInv
<1>6. ASSUME NEW m \in Nodes, TakeChunk(n, m) PROVE OrderInv'
  <2>1. (SeenOK /\ EmptyOK /\ AheadOK /\ RelayOK)'
    BY <1>6, TakeChunkOrders
  <2>2. FlowOK'
    BY <1>0, <1>6, TakeChunkRoutes
  <2>3. PICK key \in OnLink(m, n) :
           \/ receipt' = receipt
           \/ /\ n # Host /\ receipt[n] <= key.seq
              /\ receipt' = [receipt EXCEPT ![n] = key.seq]
    BY <1>6, ChunkFlows
  <2>4. UNCHANGED <<hot, authority, game>> /\ Now' = Now
    BY <1>6 DEF TakeChunk, Now
  <2>5. CASE receipt' = receipt
    <3>1. LagOK'
      BY <1>0, <2>4, <2>5, NowFacts, LagStays
    <3>q. QED
      BY <2>1, <2>2, <3>1 DEF OrderInv
  <2>6. CASE /\ n # Host /\ receipt[n] <= key.seq
             /\ receipt' = [receipt EXCEPT ![n] = key.seq]
    <3>1. n \in Members
      BY <2>6 DEF Nodes
    <3>2. key.seq <= Now /\ key.seq \in Nat
      <4>1. key \in Passed(m)
        BY DEF Passed
      <4>2. key \in Around
        BY <4>1 DEF Around
      <4>q. QED
        BY <4>1, <4>2, AroundIsGenuine, GenuineFacts DEF OrderInv, SeenOK
    <3>3. /\ receipt'[n] = key.seq /\ \A k \in Members \ {n} : receipt'[k] = receipt[k]
          /\ receipt[n] \in Nat /\ game[n] \in Nat /\ hot[n][n].seq \in Nat
      BY <2>6, NodeFacts, EntryFacts, BoundsAssumption DEF IInv, CountersOK
    <3>4. /\ game[n] <= receipt[n] /\ hot[n][n].seq <= receipt[n]
          /\ game[n] # 0 => hot[n][n].seq <= game[n]
      BY <1>0, <3>1 DEF LagOK
    <3>5. LagOK'
      <4>1. receipt'[n] <= Now
        BY <3>2, <3>3
      <4>2. game'[n] <= receipt'[n] /\ hot'[n][n].seq <= receipt'[n]
        BY <2>4, <2>6, <3>2, <3>3, <3>4
      <4>3. game'[n] # 0 => hot'[n][n].seq <= game'[n]
        BY <2>4, <3>4
      <4>4. \A k \in Members \ {n} : /\ receipt'[k] = receipt[k] /\ game'[k] = game[k]
                                     /\ hot'[k][k].seq = hot[k][k].seq
        BY <2>4, <3>3
      <4>q. QED
        BY <1>0, <2>4, <3>1, <4>1, <4>2, <4>3, <4>4, LagMoves
    <3>q. QED
      BY <2>1, <2>2, <3>5 DEF OrderInv
  <2>q. QED
    BY <2>3, <2>5, <2>6
<1>q. QED
  BY <1>1, <1>2, <1>3, <1>4, <1>5, <1>6 DEF ControlStep

LEMMA CallbackOrders ==
    ASSUME IInv, IInv', OrderInv, NEW n \in Nodes, CallbackStep(n) PROVE OrderInv'
<1>0. FlowOK
  BY DEF OrderInv
<1>1. PICK m \in Nodes \ {n} : AddPeer(n, m) \/ LosePeer(n, m)
                               \/ MarkForPublish(n, m) \/ ClearTransport(n, m)
  BY DEF CallbackStep
<1>2. UNCHANGED <<authority, receipt, game, net, ctl, history>>
  BY <1>1 DEF AddPeer, LosePeer, MarkForPublish, ClearTransport
<1>3. CASE AddPeer(n, m) \/ LosePeer(n, m)
  <2>1. UNCHANGED hot /\ (peers' = [peers EXCEPT ![n] = @ \cup {m}]
                          \/ peers' = [peers EXCEPT ![n] = @ \ {m}])
    BY <1>3 DEF AddPeer, LosePeer
  <2>2. Calm
    BY <1>2, <2>1, IdleIsCalm
  <2>3. \A k \in Nodes : k \notin peers'[k] /\ k \notin ctl'[k].peers
    BY <1>0, <1>2, <2>1 DEF FlowOK, IInv, CountersOK
  <2>4. /\ \A k \in Nodes : ctl'[k].pc = "send" =>
              ctl'[k].left \subseteq Destinations(k, ctl'[k].key)
        /\ \A k \in Nodes : Arrived(k)' = Arrived(k)
    BY <1>0, <1>2 DEF FlowOK, Arrived
  <2>5. FlowOK'
    BY <1>0, <1>2, <2>3, <2>4, LinksStay, FlowFrom
  <2>q. QED
    BY <1>2, <2>2, <2>5, CalmOrders
<1>4. CASE MarkForPublish(n, m)
  <2>1. Calm /\ UNCHANGED peers
    BY <1>4, MarkIsCalm DEF MarkForPublish
  <2>2. FlowOK'
    BY <1>0, <1>2, <2>1, LinksStay, FlowStays
  <2>q. QED
    BY <1>2, <2>1, <2>2, CalmOrders
<1>5. CASE ClearTransport(n, m)
  <2>1. UNCHANGED <<hot, peers>>
    BY <1>5 DEF ClearTransport
  <2>2. Calm
    BY <1>2, <2>1, IdleIsCalm
  <2>3. FlowOK'
    BY <1>0, <1>2, <2>1, LinksStay, FlowStays
  <2>q. QED
    BY <1>2, <2>2, <2>3, CalmOrders
<1>q. QED
  BY <1>1, <1>3, <1>4, <1>5

LEMMA HostOrders ==
    ASSUME IInv, IInv', OrderInv, HostCapture \/ Commit \/ Reconcile PROVE OrderInv'
<1>1. (SeenOK /\ EmptyOK /\ AheadOK /\ RelayOK)'
  BY HostCaptureOrders, CommitOrders, ReconcileOrders
<1>2. UNCHANGED <<ctl, peers, net>>
  BY DEF HostCapture, Commit, Reconcile
<1>3. FlowOK'
  BY <1>2, LinksStay, FlowStays DEF OrderInv
<1>4. \A m \in Members : receipt'[m] = receipt[m] /\ game'[m] = game[m]
  <2>1. /\ receipt' = receipt \/ receipt' = [receipt EXCEPT ![Host] = authority]
        /\ \/ game' = game
           \/ game' = [game EXCEPT ![Host] = 1]
           \/ game' = [game EXCEPT ![Host] = 0]
    BY DEF HostCapture, Commit, Reconcile
  <2>q. QED
    BY <2>1, NodeFacts DEF IInv, CountersOK
<1>5. \A m \in Members : hot'[m][m] = hot[m][m]
  <2>1. CASE HostCapture
    <3>1. PICK seq \in 1..MaxSeq : StoreCapture(Host, seq)
      BY <2>1, NodeFacts DEF HostCapture, IInv, CountersOK
    <3>2. PICK new \in Snapshots : hot' = [hot EXCEPT ![Host][Host] = new]
      BY <3>1, NodeFacts, CaptureFlows
    <3>q. QED
      BY <3>2, NodeFacts DEF IInv, HotOK
  <2>2. CASE Commit
    BY <2>2 DEF Commit
  <2>3. CASE Reconcile
    BY <2>3, NodeFacts DEF Reconcile, IInv, HotOK
  <2>q. QED
    BY <2>1, <2>2, <2>3
<1>6. Now \in Int /\ Now' \in Int /\ Now <= Now'
  <2>1. \/ UNCHANGED <<authority, game>>
        \/ /\ game[Host] = 0 /\ authority' = authority + 1
           /\ game' = [game EXCEPT ![Host] = 1]
        \/ /\ game[Host] = 1 /\ authority' = authority
           /\ game' = [game EXCEPT ![Host] = 0]
    BY DEF HostCapture, Commit, Reconcile
  <2>2. authority \in Nat /\ game \in [Nodes -> 0..MaxSeq]
    BY BoundsAssumption DEF IInv, CountersOK
  <2>q. QED
    BY <2>1, <2>2, NodeFacts DEF Now
<1>7. LagOK'
  BY <1>4, <1>5, <1>6, LagStays DEF OrderInv
<1>q. QED
  BY <1>1, <1>3, <1>7 DEF OrderInv

LEMMA EnvironmentOrders ==
    ASSUME IInv, IInv', OrderInv, NEW m \in Members,
           Break(m) \/ Reconnect(m) \/ Restart(m) \/ Restore(m)
    PROVE  OrderInv'
<1>0. FlowOK /\ LagOK /\ m \in Nodes /\ m # Host
  BY NodeFacts DEF OrderInv
<1>1. CASE Break(m)
  <2>1. UNCHANGED <<ctl, peers, receipt, game>> /\ net' = Lost(m)
    BY <1>1 DEF Break
  <2>2. FlowOK'
    BY <1>0, <2>1, LostLinks, FlowStays
  <2>q. QED
    BY <1>1, <2>1, <2>2, BreakIsCalm, CalmOrders
<1>2. CASE Reconnect(m)
  <2>1. UNCHANGED <<hot, ctl, net, authority, history, peers, receipt, game>>
    BY <1>2 DEF Reconnect
  <2>2. FlowOK'
    BY <1>0, <2>1, LinksStay, FlowStays
  <2>q. QED
    BY <2>1, <2>2, IdleIsCalm, CalmOrders
<1>3. CASE Restart(m)
  <2>1. (SeenOK /\ EmptyOK /\ AheadOK /\ RelayOK)'
    BY <1>3, RestartOrders
  <2>2. /\ peers' = [peers EXCEPT ![m] = {}] /\ net' = Lost(m)
        /\ ctl' = [ctl EXCEPT ![m] = Idle]
    BY <1>3 DEF Restart
  <2>3. \A k \in Nodes : peers'[k] \subseteq peers[k]
    BY <2>2 DEF IInv, CountersOK
  <2>4. Idle \in Rounds /\ Idle.pc = "idle" /\ Idle.peers = {}
    BY Defaults DEF Idle
  <2>5. FlowOK'
    BY <1>0, <2>2, <2>3, <2>4, LostLinks, IdleRoutes
  <2>6. /\ receipt' = [receipt EXCEPT ![m] = 0] /\ game' = [game EXCEPT ![m] = 0]
        /\ authority' = authority
        /\ hot' = [hot EXCEPT ![m] = [o \in Nodes |-> NoSnapshot]]
    BY <1>3 DEF Restart
  <2>7. /\ receipt'[m] = 0 /\ game'[m] = 0 /\ hot'[m][m].seq = 0
        /\ \A k \in Nodes \ {m} : receipt'[k] = receipt[k] /\ game'[k] = game[k]
                                  /\ hot'[k][k] = hot[k][k]
    BY <1>0, <2>6 DEF IInv, CountersOK, HotOK, NoSnapshot
  <2>8. Now' = Now
    BY <1>0, <2>6, <2>7, NodeFacts DEF Now
  <2>9. receipt[m] <= Now /\ receipt[m] \in Nat /\ Now \in Int
    BY <1>0, NowFacts, BoundsAssumption DEF LagOK, IInv, CountersOK
  <2>10. LagOK'
    <3>1. 0 <= Now
      BY <2>9
    <3>q. QED
      BY <1>0, <2>7, <2>8, <3>1, NodeFacts, LagMoves
  <2>q. QED
    BY <2>1, <2>5, <2>10 DEF OrderInv
<1>4. CASE Restore(m)
  <2>1. (SeenOK /\ EmptyOK /\ AheadOK /\ RelayOK)'
    BY <1>4, RestoreOrders
  <2>2. UNCHANGED <<ctl, peers, net, authority, game>> /\ game[m] = 0
    BY <1>4 DEF Restore
  <2>3. FlowOK'
    BY <1>0, <2>2, LinksStay, FlowStays
  <2>4. PICK copy : copy = hot[Host][m]
    OBVIOUS
  <2>5. /\ copy.seq = authority
        /\ hot' = [hot EXCEPT ![m][m] =
                     Replaced(@, copy.seq, copy.rev, copy.val, FALSE)]
        /\ receipt' = [receipt EXCEPT ![m] = copy.seq]
    BY <1>4, <2>4 DEF Restore
  <2>6. \A old : Replaced(old, copy.seq, copy.rev, copy.val, FALSE).seq = authority
    BY <2>5 DEF Replaced, Snapshot
  <2>7. /\ receipt'[m] = authority /\ hot'[m][m].seq = authority
        /\ \A k \in Nodes \ {m} : receipt'[k] = receipt[k] /\ hot'[k][k] = hot[k][k]
    BY <1>0, <2>5, <2>6 DEF IInv, CountersOK, HotOK
  <2>8. authority <= Now /\ authority \in Nat
    <3>1. authority \in Nat \ {0}
      BY BoundsAssumption DEF IInv, CountersOK
    <3>2. Held(Host, m)
      BY <2>4, <2>5, <3>1 DEF Held
    <3>3. Key(m, copy) \in Around
      BY <1>0, <2>4, <3>2, NodeFacts, EntryFacts DEF Around, Got
    <3>q. QED
      BY <2>5, <3>1, <3>3 DEF OrderInv, SeenOK, Key
  <2>9. LagOK'
    BY <1>0, <2>2, <2>7, <2>8, NodeFacts, LagMoves DEF Now
  <2>q. QED
    BY <2>1, <2>3, <2>9 DEF OrderInv
<1>q. QED
  BY <1>1, <1>2, <1>3, <1>4

LEMMA StutterOrders == ASSUME IInv, IInv', OrderInv, UNCHANGED vars PROVE OrderInv'
<1>1. UNCHANGED <<hot, ctl, net, authority, game, history, peers, receipt>>
  BY DEF vars
<1>2. Calm
  BY <1>1, IdleIsCalm
<1>3. FlowOK'
  BY <1>1, LinksStay, FlowStays DEF OrderInv
<1>q. QED
  BY <1>1, <1>2, <1>3, CalmOrders

LEMMA InitOrderInv == Init => OrderInv
<1> SUFFICES ASSUME Init PROVE OrderInv
  OBVIOUS
<1>1. IInv
  BY InitIInv
<1>2. Len(<<>>) = 0
  BY EmptySeq
<1>3. \A n \in Nodes : Copies(n) = {}
  BY DEF Init, Copies, Held, NoSnapshot
<1>4. \A n \in Nodes : Arrived(n) = {} /\ Carried(n) = {}
  BY Defaults DEF Init, Arrived, Carried
<1>5. \A m, n \in Nodes : OnLink(m, n) = {}
  BY <1>2 DEF Init, OnLink
<1>6. \A n \in Nodes : Got(n) = {} /\ Passed(n) = {}
  BY <1>3, <1>4, <1>5 DEF Got, Passed
<1>7. Around = {} /\ \A m \in Members : Beyond(m) = {}
  BY <1>6, NodeFacts DEF Around, Beyond
<1>8. FlowOK
  <2>1. ASSUME NEW n \in Nodes PROVE n \notin peers[n] /\ n \notin ctl[n].peers
    BY NodeFacts DEF Init, Idle, Nodes
  <2>2. \A n \in Nodes : ctl[n].pc # "send"
    BY Defaults DEF Init
  <2>q. QED
    BY <1>4, <1>5, <2>1, <2>2 DEF FlowOK
<1>9. SeenOK
  BY <1>7 DEF Init, SeenOK
<1>10. LagOK
  <2>1. ASSUME NEW m \in Members
        PROVE  receipt[m] = 0 /\ game[m] = 0 /\ hot[m][m].seq = 0
    BY NodeFacts DEF Init, NoSnapshot
  <2>2. Now = 1
    BY NodeFacts DEF Init, Now
  <2>q. QED
    BY <2>1, <2>2 DEF LagOK
<1>11. EmptyOK /\ AheadOK /\ RelayOK
  BY <1>6, <1>7, NodeFacts DEF EmptyOK, AheadOK, RelayOK
<1>q. QED
  BY <1>8, <1>9, <1>10, <1>11 DEF OrderInv

\* Every step keeps every key behind its owner, wherever it is: no relay that is
\* late, no chunk of a process that ended and no recommit brings one ahead of it.
THEOREM OwnersStayAhead == Spec => []OrderInv
<1>1. ASSUME IInv, IInv', OrderInv, Next PROVE OrderInv'
  BY <1>1, GameOrders, ControlOrders, CallbackOrders, HostOrders, EnvironmentOrders DEF Next
<1>2. IInv /\ IInv' /\ OrderInv /\ [Next]_vars => OrderInv'
  BY <1>1, StutterOrders
<1>q. QED
  BY <1>2, InitOrderInv, OnlyGenuineSnapshots, PTL DEF Spec

\* Hence a copy filed under the generation it was captured in is never newer than
\* what its owner holds, and the same at the same revision, even when the owner
\* has started again from the host's revision.
THEOREM OwnerIsAlwaysNewest == Spec => []OwnerIsNewest
<1>1. ASSUME IInv, OrderInv PROVE OwnerIsNewest
  <2>1. SUFFICES ASSUME NEW n \in Nodes, NEW o \in Nodes, Held(n, o), Held(o, o),
                        hot[o][o].seq = hot[n][o].seq, o \notin history.blank,
                        Key(o, hot[n][o]) \in history.made[o]
                 PROVE  \/ hot[n][o].rev < hot[o][o].rev
                        \/ hot[n][o].rev = hot[o][o].rev /\ hot[n][o].val = hot[o][o].val
    BY DEF OwnerIsNewest
  <2>2. PICK key : key = Key(o, hot[n][o])
    OBVIOUS
  <2>3. /\ key.owner = o /\ key.seq = hot[n][o].seq /\ key.rev = hot[n][o].rev
        /\ key.val = hot[n][o].val
    BY <2>2 DEF Key
  <2>4. key \in Around
    BY <1>1, <2>1, <2>2, EntryFacts DEF Around, Got
  <2>5. key.seq < hot[o][o].seq \/ Ahead(hot[o][o], key)
    BY <1>1, <2>1, <2>2, <2>3, <2>4 DEF OrderInv, AheadOK, Behind
  <2>6. hot[o][o].seq \in Nat
    BY <1>1, EntryFacts
  <2>q. QED
    BY <2>1, <2>3, <2>5, <2>6 DEF Ahead
<1>q. QED
  BY <1>1, OwnersStayAhead, OnlyGenuineSnapshots, PTL
=============================================================================
