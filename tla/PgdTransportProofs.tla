------------------------- MODULE PgdTransportProofs -------------------------
(***************************************************************************)
(* PgdTransport implements SnapshotReplica, for every number of members    *)
(* and every value of the bounds.                                          *)
(*                                                                         *)
(* The refinement needs an inductive invariant: every copy in a hot store, *)
(* every packet under way and every key a control thread carries names a   *)
(* snapshot that its owner captured.                                       *)
(***************************************************************************)
EXTENDS PgdTransport, SequenceTheorems, FiniteSetTheorems, TLAPS

Captures == [rev : 1..MaxRev, val : 0..MaxVal]

\* The capture a key stands for has happened, under some generation.
Genuine(key) ==
    /\ key.owner \in Nodes /\ key.seq \in 1..MaxSeq
    /\ key.rev \in 1..MaxRev /\ key.val \in 0..MaxVal
    /\ [rev |-> key.rev, val |-> key.val] \in history.captured[key.owner]

GenuineEntry(o, entry) == entry = NoSnapshot \/ Genuine(Key(o, entry))

Rounds == [pc : {"idle", "peers", "send", "store"}, todo : SUBSET Keys,
           peers : SUBSET Nodes, left : SUBSET Nodes, key : Keys, ok : BOOLEAN]

Histories == [captured : [Nodes -> SUBSET Captures], made : [Nodes -> SUBSET Keys],
              blank : SUBSET Nodes, upset : SUBSET Nodes, upsets : Nat]

CountersOK ==
    /\ pgd \in [Nodes -> 0..MaxVal]
    /\ authority \in 1..MaxSeq
    /\ receipt \in [Nodes -> 0..MaxSeq]
    /\ game \in [Nodes -> 0..MaxSeq]
    /\ peers \in [Nodes -> SUBSET Nodes]

HistoryOK == history \in Histories

HotOK ==
    /\ hot \in [Nodes -> [Nodes -> Snapshots]]
    /\ \A n, o \in Nodes : GenuineEntry(o, hot[n][o])

NetOK ==
    /\ net \in [Nodes -> [Nodes -> Seq(Packets)]]
    /\ \A m, n \in Nodes : \A i \in 1..Len(net[m][n]) : Genuine(net[m][n][i].key)

CtlOK ==
    /\ ctl \in [Nodes -> Rounds]
    /\ \A n \in Nodes : \A key \in ctl[n].todo : Genuine(key)
    /\ \A n \in Nodes : ctl[n].pc \in {"send", "store"} => Genuine(ctl[n].key)

\* The inductive invariant.
IInv == CountersOK /\ HistoryOK /\ HotOK /\ NetOK /\ CtlOK

-----------------------------------------------------------------------------
(* Small facts. *)

\* The host is a node, members are nodes and not the host.
LEMMA NodeFacts == Host \in Nodes /\ Members \subseteq Nodes /\ Host \notin Members
BY NodesAssumption DEF Nodes

\* What holds of nothing yet: the empty entry and an idle control thread.
LEMMA Defaults ==
    /\ NoSnapshot \in Snapshots
    /\ \A o \in Nodes, s \in Snapshots : Key(o, s) \in Keys
    /\ NoKey \in Keys
    /\ Idle \in Rounds /\ Idle.todo = {} /\ Idle.pc = "idle"
<1>1. NoSnapshot \in Snapshots
  BY BoundsAssumption DEF NoSnapshot, Snapshots
<1>2. \A o \in Nodes, s \in Snapshots : Key(o, s) \in Keys
  BY DEF Key, Keys, Snapshots
<1>3. NoKey \in Keys
  BY <1>1, <1>2, NodeFacts DEF NoKey
<1>4. Idle \in Rounds /\ Idle.todo = {} /\ Idle.pc = "idle"
  BY <1>3 DEF Idle, Rounds
<1>q. QED
  BY <1>1, <1>2, <1>3, <1>4

\* An entry that is held is genuine; one that is not is empty.
LEMMA HeldIsGenuine ==
    ASSUME HotOK, NEW n \in Nodes, NEW o \in Nodes
    PROVE  /\ hot[n][o] \in Snapshots
           /\ Held(n, o) => Genuine(Key(o, hot[n][o]))
           /\ ~Held(n, o) => hot[n][o] = NoSnapshot
<1>1. hot[n][o] \in Snapshots
  BY DEF HotOK
<1>2. CASE hot[n][o] = NoSnapshot
  BY <1>1, <1>2 DEF NoSnapshot, Held
<1>3. CASE Genuine(Key(o, hot[n][o]))
  BY <1>1, <1>3 DEF Genuine, Key, Held
<1>q. QED
  BY <1>1, <1>2, <1>3 DEF HotOK, GenuineEntry

\* What was captured stays captured: a key once genuine remains so.
LEMMA GenuineStays ==
    ASSUME \A o \in Nodes : history.captured[o] \subseteq history'.captured[o],
           NEW key, Genuine(key)
    PROVE  Genuine(key)'
BY DEF Genuine

\* So do the stores, the packets and the rounds that do not change.
LEMMA UntouchedStays ==
    ASSUME \A o \in Nodes : history.captured[o] \subseteq history'.captured[o]
    PROVE  /\ HotOK /\ UNCHANGED hot => HotOK'
           /\ NetOK /\ UNCHANGED net => NetOK'
           /\ CtlOK /\ UNCHANGED ctl => CtlOK'
<1>1. ASSUME HotOK, UNCHANGED hot PROVE HotOK'
  <2>1. \A o \in Nodes, e \in Snapshots : GenuineEntry(o, e) => GenuineEntry(o, e)'
    BY GenuineStays DEF GenuineEntry, Key, NoSnapshot
  <2>q. QED
    BY <1>1, <2>1 DEF HotOK, GenuineEntry
<1>2. ASSUME NetOK, UNCHANGED net PROVE NetOK'
  BY <1>2, GenuineStays DEF NetOK
<1>3. ASSUME CtlOK, UNCHANGED ctl PROVE CtlOK'
  BY <1>3, GenuineStays DEF CtlOK
<1>q. QED
  BY <1>1, <1>2, <1>3

-----------------------------------------------------------------------------
(* The stores. *)

\* Nothing changes the captures.
SameCaptures == history'.captured = history.captured

\* Entry d may take the place of c: newer, or another generation, or the same.
Newer(d, c) == d.seq = c.seq => d.rev > c.rev \/ (d.rev = c.rev /\ d.val = c.val)

\* The copies of other nodes' snapshots only ever become newer.
Advances ==
    \A n, o \in Nodes : n # o /\ Held(n, o) => Newer(hot'[n][o], hot[n][o])

\* An upset changes neither the captures nor the type of the history.
LEMMA UpsetFacts ==
    ASSUME HistoryOK, NEW who \in SUBSET Nodes, Upset(who)
    PROVE  HistoryOK' /\ SameCaptures
<1>1. history' = [history EXCEPT !.upsets = history.upsets + 1,
                                 !.upset = history.upset \cup who]
  BY DEF Upset
<1>2. history.upsets + 1 \in Nat /\ history.upset \cup who \in SUBSET Nodes
  BY DEF HistoryOK, Histories
<1>q. QED
  BY <1>1, <1>2 DEF HistoryOK, Histories, SameCaptures

\* Storing one genuine entry keeps the stores genuine.
LEMMA EntryStored ==
    ASSUME HotOK, NEW n \in Nodes, NEW o \in Nodes, NEW entry \in Snapshots,
           \A p \in Nodes : history.captured[p] \subseteq history'.captured[p],
           hot' = [hot EXCEPT ![n][o] = entry], Genuine(Key(o, entry))'
    PROVE  HotOK'
<1>1. \A p \in Nodes, e \in Snapshots : GenuineEntry(p, e) => GenuineEntry(p, e)'
  BY GenuineStays DEF GenuineEntry, Key, NoSnapshot
<1>2. hot' \in [Nodes -> [Nodes -> Snapshots]]
  BY DEF HotOK
<1>3. GenuineEntry(o, hot[n][o])'
  BY DEF HotOK, GenuineEntry, Key
<1>4. ASSUME NEW m \in Nodes, NEW p \in Nodes, <<m, p>> # <<n, o>>
      PROVE  hot'[m][p] = hot[m][p]
  BY <1>4 DEF HotOK
<1>5. ASSUME NEW m \in Nodes, NEW p \in Nodes
      PROVE  GenuineEntry(p, hot[m][p])'
  <2>1. CASE m = n /\ p = o
    BY <2>1, <1>3
  <2>2. CASE <<m, p>> # <<n, o>>
    BY <2>2, <1>1, <1>4 DEF HotOK, GenuineEntry
  <2>q. QED
    BY <2>1, <2>2
<1>q. QED
  BY <1>2, <1>5 DEF HotOK

\* What is pending is held.
LEMMA PendingIsGenuine ==
    ASSUME HotOK, NEW n \in Nodes
    PROVE  Pending(n) \subseteq Keys /\ \A key \in Pending(n) : Genuine(key)
<1>1. SUFFICES ASSUME NEW o \in Nodes, hot[n][o].pending
               PROVE  Key(o, hot[n][o]) \in Keys /\ Genuine(Key(o, hot[n][o]))
  BY DEF Pending
<1>2. Held(n, o)
  BY <1>1, HeldIsGenuine DEF NoSnapshot
<1>q. QED
  BY <1>2, HeldIsGenuine, Defaults

\* Stored returns the old entry, or a new one with the revision asked for; for
\* revision 0 it is the next one.
LEMMA StoredResult ==
    ASSUME NEW old, NEW seq, NEW rev, NEW val, NEW pending, NEW new,
           old \in Snapshots, seq \in 1..MaxSeq, rev \in 0..MaxRev,
           val \in 0..MaxVal, pending \in BOOLEAN,
           new = Stored(old, seq, rev, val, pending)
    PROVE  \/ new = old /\ old.seq = seq
           \/ \E r \in Nat \ {0} :
                 /\ new = [seq |-> seq, rev |-> r, val |-> val, pending |-> pending]
                 /\ rev # 0 => r = rev
                 /\ old.seq = seq => r > old.rev \/ (r = old.rev /\ val = old.val)
<1>1. old.rev \in Nat /\ old.val \in Nat /\ old.seq \in Nat /\ rev \in Nat /\ val \in Nat
  BY BoundsAssumption DEF Snapshots
<1>2. NoSnapshot.rev = 0
  BY DEF NoSnapshot
<1>q. QED
  BY <1>1, <1>2 DEF Stored, Refused, Unchanged, Numbered, Snapshot

-----------------------------------------------------------------------------
(* The invariant holds initially and every action keeps it. *)

LEMMA InitIInv == Init => IInv
<1> SUFFICES ASSUME Init PROVE IInv
  OBVIOUS
<1>1. CountersOK
  BY BoundsAssumption, NodeFacts DEF Init, CountersOK, Nodes
<1>2. HistoryOK
  BY DEF Init, HistoryOK, Histories
<1>3. HotOK
  BY Defaults DEF Init, HotOK, GenuineEntry
<1>4. NetOK
  <2>1. <<>> \in Seq(Packets) /\ Len(<<>>) = 0
    BY EmptySeq
  <2>2. net \in [Nodes -> [Nodes -> Seq(Packets)]]
    BY <2>1 DEF Init
  <2>3. \A m, n \in Nodes : 1..Len(net[m][n]) = {}
    BY <2>1 DEF Init
  <2>q. QED
    BY <2>2, <2>3 DEF NetOK
<1>5. CtlOK
  BY Defaults DEF Init, CtlOK
<1>q. QED
  BY <1>1, <1>2, <1>3, <1>4, <1>5 DEF IInv

\* A step that leaves stores, packets and rounds alone.
LEMMA CountersMove ==
    ASSUME IInv, UNCHANGED <<hot, net, ctl>>, HistoryOK', SameCaptures, CountersOK'
    PROVE  IInv'
BY UntouchedStays DEF IInv, SameCaptures

LEMMA PlayKeeps == ASSUME IInv, NEW n \in Nodes, Play(n) PROVE IInv' /\ SameCaptures
<1>1. CountersOK'
  BY BoundsAssumption DEF IInv, CountersOK, Play
<1>q. QED
  BY <1>1, CountersMove DEF IInv, HistoryOK, SameCaptures, Play

LEMMA BeginCaptureKeeps ==
    ASSUME IInv, NEW n \in Nodes, BeginCapture(n) PROVE IInv' /\ SameCaptures
<1>1. CountersOK'
  BY DEF IInv, CountersOK, BeginCapture
<1>q. QED
  BY <1>1, CountersMove DEF IInv, HistoryOK, SameCaptures, BeginCapture

LEMMA PeersKeep ==
    ASSUME IInv, NEW n \in Nodes, NEW m \in Nodes, AddPeer(n, m) \/ LosePeer(n, m)
    PROVE  IInv' /\ SameCaptures
<1>1. CountersOK'
  BY DEF IInv, CountersOK, AddPeer, LosePeer
<1>q. QED
  BY <1>1, CountersMove DEF IInv, HistoryOK, SameCaptures, AddPeer, LosePeer

LEMMA ClearTransportKeeps ==
    ASSUME IInv, NEW n \in Nodes, NEW m \in Nodes, ClearTransport(n, m)
    PROVE  IInv' /\ SameCaptures
<1>1. CountersOK'
  BY DEF IInv, CountersOK, ClearTransport
<1>q. QED
  BY <1>1, CountersMove DEF IInv, HistoryOK, SameCaptures, ClearTransport

LEMMA ReconnectKeeps ==
    ASSUME IInv, NEW m \in Members, Reconnect(m) PROVE IInv' /\ SameCaptures
<1>1. CountersOK'
  BY DEF IInv, CountersOK, Reconnect
<1>q. QED
  BY <1>1, CountersMove DEF IInv, HistoryOK, SameCaptures, Reconnect

LEMMA CommitKeeps == ASSUME IInv, Commit PROVE IInv' /\ SameCaptures
<1>1. HistoryOK' /\ SameCaptures
  BY UpsetFacts DEF IInv, Commit
<1>2. CountersOK'
  BY BoundsAssumption, NodeFacts DEF IInv, CountersOK, Commit
<1>q. QED
  BY <1>1, <1>2, CountersMove DEF Commit

\* The store takes the next revision of the owner's own data.
LEMMA StoreCaptureKeeps ==
    ASSUME IInv, NEW n \in Nodes, NEW seq \in 1..MaxSeq, StoreCapture(n, seq)
    PROVE  /\ HotOK' /\ HistoryOK'
           /\ \A o \in Nodes : history.captured[o] \subseteq history'.captured[o]
           /\ \A m, o \in Nodes : m # o => hot'[m][o] = hot[m][o]
           /\ \E c \in Captures :
                 history'.captured = [history.captured EXCEPT ![n] = @ \cup {c}]
<1>0. PICK flag \in BOOLEAN : flag = TRUE
  OBVIOUS
<1>1. PICK new : new = Stored(hot[n][n], seq, 0, pgd[n], flag)
  OBVIOUS
<1> DEFINE c == [rev |-> new.rev, val |-> new.val]
<1>2. /\ new.rev <= MaxRev
      /\ hot' = [hot EXCEPT ![n][n] = new]
      /\ history' = [history EXCEPT !.captured[n] = @ \cup {c},
                                    !.made[n] = @ \cup {Key(n, new)}]
  BY <1>0, <1>1 DEF StoreCapture
<1>3. pgd[n] \in 0..MaxVal /\ hot[n][n] \in Snapshots /\ 0 \in 0..MaxRev
  BY BoundsAssumption DEF IInv, CountersOK, HotOK
<1>4. new \in Snapshots /\ new.rev \in 1..MaxRev /\ new.val \in 0..MaxVal /\ new.seq = seq
  <2>1. CASE new = hot[n][n] /\ hot[n][n].seq = seq
    <3>1. Held(n, n)
      BY <2>1 DEF Held
    <3>q. QED
      BY <2>1, <3>1, <1>3, HeldIsGenuine DEF IInv, Genuine, Key
  <2>2. ASSUME NEW r \in Nat \ {0},
               new = [seq |-> seq, rev |-> r, val |-> pgd[n], pending |-> flag]
        PROVE  new \in Snapshots /\ new.rev \in 1..MaxRev /\ new.val \in 0..MaxVal /\ new.seq = seq
    BY <2>2, <1>2, <1>3, BoundsAssumption DEF Snapshots
  <2>3. \/ new = hot[n][n] /\ hot[n][n].seq = seq
        \/ \E r \in Nat \ {0} :
              new = [seq |-> seq, rev |-> r, val |-> pgd[n], pending |-> flag]
    <3>1. PICK old, rev, val : old = hot[n][n] /\ rev = 0 /\ val = pgd[n]
      OBVIOUS
    <3>2. new = Stored(old, seq, rev, val, flag)
      BY <1>1, <3>1
    <3>3. old \in Snapshots /\ seq \in 1..MaxSeq /\ rev \in 0..MaxRev
          /\ val \in 0..MaxVal /\ flag \in BOOLEAN
      BY <1>3, <3>1
    <3>4. \/ new = old /\ old.seq = seq
          \/ \E r \in Nat \ {0} :
                 /\ new = [seq |-> seq, rev |-> r, val |-> val, pending |-> flag]
                 /\ rev # 0 => r = rev
                 /\ old.seq = seq => r > old.rev \/ (r = old.rev /\ val = old.val)
      BY <3>2, <3>3, StoredResult
    <3>q. QED
      BY <3>1, <3>4
  <2>q. QED
    BY <2>1, <2>2, <2>3
<1>5. c \in Captures /\ Key(n, new) \in Keys
  BY <1>4, Defaults DEF Captures
<1>6. HistoryOK' /\ history'.captured = [history.captured EXCEPT ![n] = @ \cup {c}]
  BY <1>2, <1>5 DEF IInv, HistoryOK, Histories
<1>7. \A o \in Nodes : history.captured[o] \subseteq history'.captured[o]
  BY <1>6 DEF IInv, HistoryOK, Histories
<1>8. Genuine(Key(n, new))'
  BY <1>4, <1>6 DEF Genuine, Key, IInv, HistoryOK, Histories
<1>9. HotOK'
  BY <1>2, <1>4, <1>7, <1>8, EntryStored DEF IInv
<1>10. \A m, o \in Nodes : m # o => hot'[m][o] = hot[m][o]
  BY <1>2 DEF IInv, HotOK
<1>q. QED
  BY <1>5, <1>6, <1>7, <1>9, <1>10

\* A capture is recorded, and stored nowhere but at its owner.
CaptureStep ==
    /\ \E o \in Nodes, c \in Captures :
          history'.captured = [history.captured EXCEPT ![o] = @ \cup {c}]
    /\ \A m, o \in Nodes : m # o => hot'[m][o] = hot[m][o]

LEMMA HostCaptureKeeps == ASSUME IInv, HostCapture PROVE IInv' /\ CaptureStep
<1>1. CountersOK'
  BY NodeFacts DEF IInv, CountersOK, HostCapture
<1>2. /\ HotOK' /\ HistoryOK'
      /\ \A o \in Nodes : history.captured[o] \subseteq history'.captured[o]
      /\ CaptureStep
  BY NodeFacts, StoreCaptureKeeps DEF IInv, CountersOK, HostCapture, CaptureStep
<1>q. QED
  BY <1>1, <1>2, UntouchedStays DEF IInv, HostCapture

LEMMA EndCaptureKeeps ==
    ASSUME IInv, NEW n \in Nodes, EndCapture(n) PROVE IInv' /\ CaptureStep
<1>1. CountersOK'
  BY BoundsAssumption DEF IInv, CountersOK, EndCapture
<1>2. game[n] \in 1..MaxSeq
  BY BoundsAssumption DEF IInv, CountersOK, EndCapture
<1>3. /\ HotOK' /\ HistoryOK'
      /\ \A o \in Nodes : history.captured[o] \subseteq history'.captured[o]
      /\ CaptureStep
  BY <1>2, StoreCaptureKeeps DEF EndCapture, CaptureStep
<1>q. QED
  BY <1>1, <1>3, UntouchedStays DEF IInv, EndCapture

\* Marks, and the generation of what the host rebinds, leave captures genuine.
LEMMA ReconcileKeeps ==
    ASSUME IInv, Reconcile PROVE IInv' /\ SameCaptures /\ Advances
<1>1. CountersOK' /\ HistoryOK' /\ SameCaptures
  <2>1. authority \in 0..MaxSeq /\ 0 \in 0..MaxSeq
    BY BoundsAssumption DEF IInv, CountersOK
  <2>q. QED
    BY <2>1 DEF IInv, CountersOK, HistoryOK, SameCaptures, Reconcile
<1>2. ASSUME NEW n \in Nodes, NEW o \in Nodes
      PROVE  hot'[n][o] = IF n = Host /\ Held(n, o)
                          THEN [hot[n][o] EXCEPT !.seq = authority, !.pending = TRUE]
                          ELSE hot[n][o]
  BY NodeFacts DEF IInv, HotOK, Reconcile
<1>3. ASSUME NEW n \in Nodes, NEW o \in Nodes
      PROVE  hot'[n][o] \in Snapshots /\ GenuineEntry(o, hot[n][o])'
  <2>1. CASE n = Host /\ Held(n, o)
    <3>1. hot[n][o] \in Snapshots /\ Genuine(Key(o, hot[n][o])) /\ authority \in 1..MaxSeq
      BY <2>1, HeldIsGenuine DEF IInv, CountersOK
    <3>2. authority \in 0..MaxSeq
      BY BoundsAssumption DEF IInv, CountersOK
    <3>3. /\ hot'[n][o] \in Snapshots /\ hot'[n][o].seq = authority
          /\ hot'[n][o].rev = hot[n][o].rev /\ hot'[n][o].val = hot[n][o].val
      BY <1>2, <2>1, <3>1, <3>2 DEF Snapshots
    <3>q. QED
      BY <1>1, <3>1, <3>3 DEF GenuineEntry, Genuine, Key, SameCaptures
  <2>2. CASE ~(n = Host /\ Held(n, o))
    BY <1>1, <1>2, <2>2 DEF IInv, HotOK, GenuineEntry, Genuine, SameCaptures
  <2>q. QED
    BY <2>1, <2>2
<1>4. hot' = [hot EXCEPT ![Host] = [o \in Nodes |-> hot'[Host][o]]]
  BY NodeFacts DEF IInv, HotOK, Reconcile
<1>5. HotOK'
  BY <1>3, <1>4, NodeFacts DEF IInv, HotOK
<1>6. Advances
  <2>1. SUFFICES ASSUME NEW n \in Nodes, NEW o \in Nodes
                 PROVE  /\ hot'[n][o].rev = hot[n][o].rev
                        /\ hot'[n][o].val = hot[n][o].val
    BY DEF Advances, Newer
  <2>2. hot[n][o] \in Snapshots
    BY DEF IInv, HotOK
  <2>q. QED
    BY <1>2, <2>2 DEF Snapshots
<1>q. QED
  BY <1>1, <1>5, <1>6, UntouchedStays DEF IInv, SameCaptures, Reconcile

LEMMA MarkForPublishKeeps ==
    ASSUME IInv, NEW n \in Nodes, NEW m \in Nodes, MarkForPublish(n, m)
    PROVE  IInv' /\ SameCaptures /\ Advances
<1>1. CountersOK' /\ HistoryOK' /\ SameCaptures
  BY DEF IInv, CountersOK, HistoryOK, SameCaptures, MarkForPublish
<1>2. ASSUME NEW k \in Nodes, NEW o \in Nodes
      PROVE  hot'[k][o] = IF k = n /\ Held(k, o) /\ n \in {Host, o}
                          THEN [hot[k][o] EXCEPT !.pending = TRUE] ELSE hot[k][o]
  BY DEF IInv, HotOK, MarkForPublish
<1>3. ASSUME NEW k \in Nodes, NEW o \in Nodes
      PROVE  hot'[k][o] \in Snapshots /\ GenuineEntry(o, hot[k][o])'
  <2>1. CASE k = n /\ Held(k, o) /\ n \in {Host, o}
    <3>1. hot[k][o] \in Snapshots /\ Genuine(Key(o, hot[k][o]))
      BY <2>1, HeldIsGenuine DEF IInv
    <3>2. /\ hot'[k][o] \in Snapshots /\ hot'[k][o].seq = hot[k][o].seq
          /\ hot'[k][o].rev = hot[k][o].rev /\ hot'[k][o].val = hot[k][o].val
      BY <1>2, <2>1, <3>1, ZenonT(60) DEF Snapshots
    <3>q. QED
      BY <1>1, <3>1, <3>2 DEF GenuineEntry, Genuine, Key, SameCaptures
  <2>2. CASE ~(k = n /\ Held(k, o) /\ n \in {Host, o})
    <3>1. hot'[k][o] = hot[k][o] /\ hot[k][o] \in Snapshots /\ GenuineEntry(o, hot[k][o])
      BY <1>2, <2>2 DEF IInv, HotOK
    <3>q. QED
      BY <1>1, <3>1 DEF GenuineEntry, Genuine, Key, NoSnapshot, SameCaptures
  <2>q. QED
    BY <2>1, <2>2
<1>4. hot' = [hot EXCEPT ![n] = [o \in Nodes |-> hot'[n][o]]]
  BY DEF IInv, HotOK, MarkForPublish
<1>5. HotOK'
  BY <1>3, <1>4 DEF IInv, HotOK
<1>6. Advances
  <2>1. SUFFICES ASSUME NEW k \in Nodes, NEW o \in Nodes
                 PROVE  /\ hot'[k][o].rev = hot[k][o].rev
                        /\ hot'[k][o].val = hot[k][o].val
    BY DEF Advances, Newer
  <2>2. hot[k][o] \in Snapshots
    BY DEF IInv, HotOK
  <2>3. PICK entry : entry = [hot[k][o] EXCEPT !.pending = TRUE]
    OBVIOUS
  <2>4. entry.rev = hot[k][o].rev /\ entry.val = hot[k][o].val
    BY <2>2, <2>3 DEF Snapshots
  <2>5. hot'[k][o] = entry \/ hot'[k][o] = hot[k][o]
    BY <1>2, <2>3
  <2>q. QED
    BY <2>4, <2>5
<1>q. QED
  BY <1>1, <1>5, <1>6, UntouchedStays DEF IInv, SameCaptures, MarkForPublish

-----------------------------------------------------------------------------
(* The control thread. *)

LEMMA CollectKeysKeeps ==
    ASSUME IInv, NEW n \in Nodes, CollectKeys(n) PROVE IInv' /\ SameCaptures
<1>1. CountersOK' /\ HistoryOK' /\ SameCaptures
  BY DEF IInv, CountersOK, HistoryOK, SameCaptures, CollectKeys
<1>2. PICK round : round = [Idle EXCEPT !.pc = "peers", !.todo = Pending(n)]
  OBVIOUS
<1>3. round \in Rounds /\ round.pc = "peers" /\ \A key \in round.todo : Genuine(key)
  BY <1>2, Defaults, PendingIsGenuine DEF IInv, Rounds
<1>4. ctl' = [ctl EXCEPT ![n] = round]
  BY <1>2 DEF CollectKeys
<1>5. CtlOK'
  BY <1>1, <1>3, <1>4 DEF IInv, CtlOK, Genuine, SameCaptures
<1>q. QED
  BY <1>1, <1>5, UntouchedStays DEF IInv, SameCaptures, CollectKeys

\* A round goes on to one of its keys, which are genuine.
LEMMA NextKeyKeeps ==
    ASSUME IInv, NEW n \in Nodes, NEW round \in Rounds,
           \A key \in round.todo : Genuine(key), NextKey(n, round), SameCaptures
    PROVE  CtlOK'
<1>1. ASSUME NEW r \in Rounds, ctl' = [ctl EXCEPT ![n] = r],
             \A key \in r.todo : Genuine(key), r.pc = "send" => Genuine(r.key), r.pc # "store"
      PROVE  CtlOK'
  BY <1>1 DEF IInv, CtlOK, Genuine, SameCaptures
<1>2. CASE ctl' = [ctl EXCEPT ![n] = Idle]
  BY <1>1, <1>2, Defaults
<1>3. ASSUME NEW key \in round.todo, NEW left, left = Targets(n, round, key),
             ctl' = [ctl EXCEPT ![n] =
                       [round EXCEPT !.pc = "send", !.key = key, !.todo = round.todo \ {key},
                                     !.left = left, !.ok = n = Host \/ left # {}]]
      PROVE  CtlOK'
  <2>1. left \in SUBSET Nodes
    BY <1>3, NodeFacts DEF Targets, Rounds, IInv, CountersOK
  <2>2. PICK r :
           r = [round EXCEPT !.pc = "send", !.key = key, !.todo = round.todo \ {key},
                             !.left = left, !.ok = n = Host \/ left # {}]
    OBVIOUS
  <2>3. /\ r \in Rounds /\ r.pc = "send" /\ r.key = key /\ r.todo = round.todo \ {key}
    BY <2>1, <2>2 DEF Rounds
  <2>4. ctl' = [ctl EXCEPT ![n] = r]
    BY <1>3, <2>2
  <2>q. QED
    BY <1>1, <2>3, <2>4
<1>q. QED
  BY <1>2, <1>3 DEF NextKey

LEMMA CollectPeersKeeps ==
    ASSUME IInv, NEW n \in Nodes, CollectPeers(n) PROVE IInv' /\ SameCaptures
<1>1. CountersOK' /\ HistoryOK' /\ SameCaptures
  BY DEF IInv, CountersOK, HistoryOK, SameCaptures, CollectPeers
<1>2. PICK round : round = [ctl[n] EXCEPT !.peers = peers[n]]
  OBVIOUS
<1>3. round \in Rounds /\ round.todo = ctl[n].todo
  <2>1. ctl[n] \in Rounds /\ peers[n] \in SUBSET Nodes
    BY DEF IInv, CountersOK, CtlOK
  <2>q. QED
    BY <1>2, <2>1 DEF Rounds
<1>4. CtlOK'
  BY <1>1, <1>2, <1>3, NextKeyKeeps DEF IInv, CtlOK, CollectPeers
<1>q. QED
  BY <1>1, <1>4, UntouchedStays DEF IInv, SameCaptures, CollectPeers

\* The chunks of a genuine key, all or the first, may go under way.
LEMMA ChunksAreGenuine ==
    ASSUME NEW key \in Keys, Genuine(key), NEW sent \in 0..2
    PROVE  LET chunks == SubSeq(Chunks(key), 1, sent) IN
           /\ chunks \in Seq(Packets)
           /\ \A i \in 1..Len(chunks) : Genuine(chunks[i].key)
<1>1. \A i \in 1..sent : /\ Chunks(key)[i] \in Packets /\ Chunks(key)[i].key = key
  BY DEF Chunks, Packets, Parts, Genuine
<1>2. /\ SubSeq(Chunks(key), 1, sent) \in Seq(Packets)
      /\ Len(SubSeq(Chunks(key), 1, sent)) = sent
      /\ \A i \in 1..sent : SubSeq(Chunks(key), 1, sent)[i] = Chunks(key)[i]
  BY <1>1, SubSeqProperties
<1>q. QED
  BY <1>1, <1>2

\* A link that gets genuine packets, or loses some, stays genuine.
LEMMA LinkChanged ==
    ASSUME NetOK, SameCaptures, NEW m \in Nodes, NEW n, NEW q \in Seq(Packets),
           \A i \in 1..Len(q) : Genuine(q[i].key),
           net' = [net EXCEPT ![m][n] = q]
    PROVE  NetOK'
<1>1. net' \in [Nodes -> [Nodes -> Seq(Packets)]]
  BY DEF NetOK
<1>2. ASSUME NEW k \in Nodes, NEW l \in Nodes
      PROVE  net'[k][l] = q \/ net'[k][l] = net[k][l]
  BY DEF NetOK
<1>3. ASSUME NEW k \in Nodes, NEW l \in Nodes, NEW i \in 1..Len(net'[k][l])
      PROVE  Genuine(net'[k][l][i].key)
  BY <1>2, <1>3 DEF NetOK
<1>q. QED
  BY <1>1, <1>3, ZenonT(60) DEF NetOK, Genuine, SameCaptures

LEMMA SendKeeps ==
    ASSUME IInv, NEW n \in Nodes, Send(n) PROVE IInv' /\ SameCaptures
<1>1. PICK p \in ctl[n].left, sent \in 0..2 :
         /\ UNCHANGED history \/ Upset({})
         /\ net' = [net EXCEPT ![n][p] = @ \o SubSeq(Chunks(ctl[n].key), 1, sent)]
         /\ ctl' = [ctl EXCEPT ![n].left = @ \ {p}, ![n].ok = @ /\ sent = 2]
  BY DEF Send
<1>2. HistoryOK' /\ SameCaptures
  BY <1>1, UpsetFacts DEF IInv, HistoryOK, SameCaptures
<1>3. CountersOK'
  BY DEF IInv, CountersOK, Send
<1>4. /\ ctl[n] \in Rounds /\ p \in Nodes
      /\ ctl[n].key \in Keys /\ Genuine(ctl[n].key)
  BY DEF IInv, CtlOK, Rounds, Send
<1>5. CtlOK'
  <2>1. ctl' \in [Nodes -> Rounds]
    <3>1. PICK r : r = [ctl[n] EXCEPT !.left = @ \ {p}, !.ok = @ /\ sent = 2]
      OBVIOUS
    <3>2. r \in Rounds
      BY <1>4, <3>1 DEF Rounds
    <3>3. ctl' = [ctl EXCEPT ![n] = r]
      BY <1>1, <1>4, <3>1 DEF IInv, CtlOK, Rounds
    <3>q. QED
      BY <3>2, <3>3 DEF IInv, CtlOK
  <2>2. \A k \in Nodes : /\ ctl'[k].pc = ctl[k].pc /\ ctl'[k].todo = ctl[k].todo
                         /\ ctl'[k].key = ctl[k].key
    BY <1>1 DEF IInv, CtlOK, Rounds
  <2>q. QED
    BY <1>2, <2>1, <2>2 DEF IInv, CtlOK, Genuine, SameCaptures
<1>6. NetOK'
  <2>1. PICK chunks : chunks = SubSeq(Chunks(ctl[n].key), 1, sent)
    OBVIOUS
  <2>2. chunks \in Seq(Packets) /\ \A i \in 1..Len(chunks) : Genuine(chunks[i].key)
    BY <1>4, <2>1, ChunksAreGenuine
  <2>3. net[n][p] \in Seq(Packets)
    BY <1>4 DEF IInv, NetOK
  <2>4. /\ net[n][p] \o chunks \in Seq(Packets)
        /\ Len(net[n][p] \o chunks) = Len(net[n][p]) + Len(chunks)
        /\ \A i \in 1..Len(net[n][p]) + Len(chunks) :
              (net[n][p] \o chunks)[i] = IF i <= Len(net[n][p]) THEN net[n][p][i]
                                         ELSE chunks[i - Len(net[n][p])]
    BY <2>2, <2>3, ConcatProperties
  <2>5. Len(net[n][p]) \in Nat /\ Len(chunks) \in Nat
    BY <2>2, <2>3, LenProperties
  <2>6. \A i \in 1..Len(net[n][p] \o chunks) : Genuine((net[n][p] \o chunks)[i].key)
    <3>1. SUFFICES ASSUME NEW i \in 1..Len(net[n][p]) + Len(chunks)
                   PROVE  Genuine((net[n][p] \o chunks)[i].key)
      BY <2>4
    <3>2. CASE i <= Len(net[n][p])
      BY <1>4, <2>4, <2>5, <3>2 DEF IInv, NetOK
    <3>3. CASE i > Len(net[n][p])
      <4>1. i - Len(net[n][p]) \in 1..Len(chunks)
        BY <2>5, <3>3
      <4>q. QED
        BY <2>2, <2>4, <2>5, <3>3, <4>1
    <3>q. QED
      BY <2>5, <3>2, <3>3
  <2>7. net' = [net EXCEPT ![n][p] = net[n][p] \o chunks]
    BY <1>1, <2>1
  <2>q. QED
    BY <1>2, <2>4, <2>6, <2>7, LinkChanged DEF IInv
<1>q. QED
  BY <1>2, <1>3, <1>5, <1>6, UntouchedStays DEF IInv, SameCaptures, Send

LEMMA FinishKeyKeeps ==
    ASSUME IInv, NEW n \in Nodes, FinishKey(n)
    PROVE  IInv' /\ SameCaptures /\ Advances
<1>1. CountersOK' /\ HistoryOK' /\ SameCaptures
  BY DEF IInv, CountersOK, HistoryOK, SameCaptures, FinishKey
<1>2. CtlOK'
  BY <1>1, NextKeyKeeps DEF IInv, CtlOK, FinishKey
<1>3. PICK o : o = ctl[n].key.owner
  OBVIOUS
<1>4. o \in Nodes
  BY <1>3 DEF IInv, CtlOK, Genuine, FinishKey
<1>5. \/ hot' = hot
      \/ Held(n, o) /\ hot' = [hot EXCEPT ![n][o].pending = FALSE]
  BY <1>3 DEF FinishKey, MarksPublished, StillStored
<1>6. CASE hot' = hot
  BY <1>1, <1>2, <1>6, UntouchedStays DEF IInv, SameCaptures, FinishKey, Advances, Newer
<1>7. CASE Held(n, o) /\ hot' = [hot EXCEPT ![n][o].pending = FALSE]
  <2>1. PICK entry : entry = [hot[n][o] EXCEPT !.pending = FALSE]
    OBVIOUS
  <2>2. hot[n][o] \in Snapshots /\ Genuine(Key(o, hot[n][o]))
    BY <1>4, <1>7, HeldIsGenuine DEF IInv
  <2>3. entry \in Snapshots /\ Key(o, entry) = Key(o, hot[n][o])
    BY <2>1, <2>2 DEF Snapshots, Key
  <2>4. hot' = [hot EXCEPT ![n][o] = entry]
    BY <1>4, <1>7, <2>1 DEF IInv, HotOK
  <2>5. Genuine(Key(o, entry))'
    BY <1>1, <2>2, <2>3 DEF Genuine, SameCaptures
  <2>6. HotOK'
    BY <1>1, <1>4, <2>3, <2>4, <2>5, EntryStored DEF IInv, SameCaptures
  <2>7. Advances
    BY <1>4, <2>1, <2>2, <2>4 DEF IInv, HotOK, Snapshots, Advances, Newer
  <2>q. QED
    BY <1>1, <1>2, <2>6, <2>7, UntouchedStays DEF IInv, SameCaptures, FinishKey
<1>q. QED
  BY <1>5, <1>6, <1>7

\* What the rest of a queue names is genuine, if the queue is.
LEMMA TailIsGenuine ==
    ASSUME NetOK, NEW m \in Nodes, NEW n \in Nodes, net[m][n] # <<>>
    PROVE  /\ Head(net[m][n]) \in Packets /\ Genuine(Head(net[m][n]).key)
           /\ Tail(net[m][n]) \in Seq(Packets)
           /\ \A i \in 1..Len(Tail(net[m][n])) : Genuine(Tail(net[m][n])[i].key)
<1>1. PICK q \in Seq(Packets) : q = net[m][n]
  BY DEF NetOK
<1>2. Len(q) \in Nat /\ Len(q) # 0
  BY <1>1, EmptySeq, LenProperties
<1>3. /\ Head(q) \in Packets /\ Tail(q) \in Seq(Packets) /\ Len(Tail(q)) = Len(q) - 1
      /\ \A i \in 1..Len(Tail(q)) : Tail(q)[i] = q[i + 1]
  BY <1>1, HeadTailProperties
<1>4. \A i \in 1..Len(q) : Genuine(q[i].key)
  BY <1>1 DEF NetOK
<1>5. Head(q) = q[1]
  BY <1>1, HeadTailProperties
<1>6. \A i \in 1..Len(Tail(q)) : i + 1 \in 1..Len(q)
  BY <1>2, <1>3
<1>q. QED
  BY <1>1, <1>2, <1>3, <1>4, <1>5, <1>6

\* A whole body with the announced hash has the announced value.
LEMMA BodyIsAnnounced ==
    ASSUME NEW a, NEW key, Complete(a), Exact(a, key) PROVE Body(a) = key.val
<1>1. PICK g \in a.got : g[1] = "last"
  BY DEF Complete, Parts
<1>q. QED
  BY <1>1 DEF Body, Exact

\* Taking a chunk hands over, at most, the key of that chunk.
LEMMA TakeChunkKeeps ==
    ASSUME IInv, NEW n \in Nodes, NEW m \in Nodes, TakeChunk(n, m)
    PROVE  IInv' /\ SameCaptures
<1>1. PICK chunk : chunk = Head(net[m][n])
  OBVIOUS
<1>2. chunk \in Packets /\ Genuine(chunk.key) /\ chunk.key \in Keys
  BY <1>1, TailIsGenuine DEF IInv, TakeChunk, Packets
<1>3. Drop(n, m, chunk) \/ Assemble(n, m, chunk)
  BY <1>1 DEF TakeChunk
<1>4. HistoryOK' /\ SameCaptures
  <2>1. \E lost \in SUBSET Members :
           \/ UNCHANGED history
           \/ Upset(lost)
           \/ history' = [history EXCEPT !.upset = @ \cup lost]
    BY <1>3 DEF Drop, Assemble, Discarded
  <2>2. PICK lost \in SUBSET Nodes :
           \/ UNCHANGED history
           \/ Upset(lost)
           \/ history' = [history EXCEPT !.upset = history.upset \cup lost]
    BY <2>1, NodeFacts
  <2>3. history.upset \cup lost \in SUBSET Nodes
    BY DEF IInv, HistoryOK, Histories
  <2>q. QED
    BY <2>2, <2>3, UpsetFacts DEF IInv, HistoryOK, Histories, SameCaptures
<1>5. CountersOK'
  <2>1. receipt' = receipt \/ receipt' = [receipt EXCEPT ![n] = chunk.key.seq]
    BY <1>3 DEF Drop, Assemble
  <2>2. chunk.key.seq \in 0..MaxSeq
    BY <1>2 DEF Keys
  <2>q. QED
    BY <2>1, <2>2 DEF IInv, CountersOK, TakeChunk
<1>6. CtlOK'
  <2>1. ctl' = ctl \/ ctl' = [ctl EXCEPT ![n].pc = "store", ![n].key = chunk.key]
    <3>1. CASE Drop(n, m, chunk)
      BY <3>1 DEF Drop
    <3>2. CASE Assemble(n, m, chunk)
      <4>1. PICK a, body :
               \/ ctl' = ctl
               \/ /\ Complete(a) /\ Exact(a, chunk.key) /\ body = Body(a)
                  /\ ctl' = [ctl EXCEPT ![n].pc = "store", ![n].key =
                               [chunk.key EXCEPT !.val = body]]
        BY <3>2 DEF Assemble
      <4>2. CASE ctl' = ctl
        BY <4>2
      <4>3. CASE /\ Complete(a) /\ Exact(a, chunk.key) /\ body = Body(a)
                 /\ ctl' = [ctl EXCEPT ![n].pc = "store", ![n].key =
                              [chunk.key EXCEPT !.val = body]]
        <5>1. body = chunk.key.val
          BY <4>3, BodyIsAnnounced
        <5>2. [chunk.key EXCEPT !.val = body] = chunk.key
          BY <1>2, <5>1 DEF Keys
        <5>q. QED
          BY <4>3, <5>2
      <4>q. QED
        BY <4>1, <4>2, <4>3
    <3>q. QED
      BY <1>3, <3>1, <3>2
  <2>2. CASE ctl' = ctl
    BY <1>4, <2>2 DEF IInv, CtlOK, Genuine, SameCaptures
  <2>3. CASE ctl' = [ctl EXCEPT ![n].pc = "store", ![n].key = chunk.key]
    <3>1. ctl' \in [Nodes -> Rounds]
      <4>1. PICK r : r = [ctl[n] EXCEPT !.pc = "store", !.key = chunk.key]
        OBVIOUS
      <4>2. ctl[n] \in Rounds
        BY DEF IInv, CtlOK
      <4>3. r \in Rounds
        BY <1>2, <4>1, <4>2 DEF Rounds
      <4>4. ctl' = [ctl EXCEPT ![n] = r]
        BY <2>3, <4>1, <4>2 DEF IInv, CtlOK, Rounds
      <4>q. QED
        BY <4>3, <4>4 DEF IInv, CtlOK
    <3>2. \A k \in Nodes :
             /\ ctl'[k].todo = ctl[k].todo
             /\ \/ ctl'[k].pc = ctl[k].pc /\ ctl'[k].key = ctl[k].key
                \/ ctl'[k].key = chunk.key
      BY <2>3 DEF IInv, CtlOK, Rounds
    <3>q. QED
      BY <1>2, <1>4, <3>1, <3>2 DEF IInv, CtlOK, Genuine, SameCaptures
  <2>q. QED
    BY <2>1, <2>2, <2>3
<1>7. NetOK'
  BY <1>4, TailIsGenuine, LinkChanged DEF IInv, TakeChunk
<1>q. QED
  BY <1>4, <1>5, <1>6, <1>7, UntouchedStays DEF IInv, SameCaptures, TakeChunk

\* What a finished assembly brings is stored under its owner, if it is newer.
LEMMA StoreReceivedKeeps ==
    ASSUME IInv, NEW n \in Nodes, StoreReceived(n)
    PROVE  IInv' /\ SameCaptures /\ Advances
<1>1. CountersOK' /\ HistoryOK' /\ SameCaptures
  BY DEF IInv, CountersOK, HistoryOK, SameCaptures, StoreReceived
<1>2. PICK key, flag : key = ctl[n].key /\ flag \in BOOLEAN /\ flag = (n = Host)
  <2>1. (n = Host) \in BOOLEAN
    OBVIOUS
  <2>q. QED
    BY <2>1
<1>3. PICK o, rev, val, seq, old : /\ o = key.owner /\ rev = key.rev /\ val = key.val
                                   /\ seq = key.seq /\ old = hot[n][o]
  OBVIOUS
<1>4. Genuine(key)
  BY <1>2 DEF IInv, CtlOK, StoreReceived
<1>5. /\ o \in Nodes /\ seq \in 1..MaxSeq /\ rev \in 0..MaxRev /\ rev # 0
      /\ val \in 0..MaxVal /\ old \in Snapshots
  BY <1>3, <1>4, BoundsAssumption DEF Genuine, IInv, HotOK
<1>6. PICK new : new = Stored(old, seq, rev, val, flag)
  OBVIOUS
<1>7. hot' = [hot EXCEPT ![n][o] = new]
  BY <1>2, <1>3, <1>5, <1>6 DEF StoreReceived, IInv, HotOK
<1>8. \/ new = old /\ old.seq = seq
      \/ \E r \in Nat \ {0} :
            /\ new = [seq |-> seq, rev |-> r, val |-> val, pending |-> flag]
            /\ rev # 0 => r = rev
            /\ old.seq = seq => r > old.rev \/ (r = old.rev /\ val = old.val)
  <2>1. flag \in BOOLEAN
    BY <1>2
  <2>2. /\ old \in Snapshots /\ seq \in 1..MaxSeq /\ rev \in 0..MaxRev
        /\ val \in 0..MaxVal
    BY <1>5
  <2>q. QED
    BY <1>6, <2>1, <2>2, StoredResult
<1>9. /\ new \in Snapshots /\ Genuine(Key(o, new))
      /\ Newer(new, old)
  <2>1. CASE new = old /\ old.seq = seq
    <3>1. Held(n, o)
      BY <1>3, <1>5, <2>1 DEF Held
    <3>q. QED
      BY <1>3, <1>5, <2>1, <3>1, HeldIsGenuine DEF IInv, Newer
  <2>2. CASE /\ new = [seq |-> seq, rev |-> rev, val |-> val, pending |-> flag]
             /\ old.seq = seq => rev > old.rev \/ (rev = old.rev /\ val = old.val)
    <3>1. new \in Snapshots
      BY <1>2, <1>5, <2>2, BoundsAssumption DEF Snapshots
    <3>2. Key(o, new) = [owner |-> o, seq |-> seq, rev |-> rev, val |-> val]
      BY <2>2 DEF Key
    <3>q. QED
      BY <1>3, <1>4, <2>2, <3>1, <3>2 DEF Genuine, Newer
  <2>q. QED
    BY <1>5, <1>8, <2>1, <2>2
<1>10. Genuine(Key(o, new))'
  BY <1>1, <1>9 DEF Genuine, Key, SameCaptures
<1>11. HotOK'
  BY <1>1, <1>5, <1>7, <1>9, <1>10, EntryStored DEF IInv, SameCaptures
<1>12. CtlOK'
  BY <1>1, Defaults DEF IInv, CtlOK, Genuine, SameCaptures, StoreReceived
<1>13. Advances
  BY <1>3, <1>5, <1>7, <1>9 DEF IInv, HotOK, Advances, Newer
<1>q. QED
  BY <1>1, <1>11, <1>12, <1>13, UntouchedStays DEF IInv, SameCaptures, StoreReceived
-----------------------------------------------------------------------------
(* The environment. *)

\* A broken link, and a process that ends, lose packets: others stay.
LEMMA LostKeeps ==
    ASSUME NetOK, SameCaptures, NEW m \in Nodes, net' = Lost(m)
    PROVE  NetOK'
<1>1. <<>> \in Seq(Packets) /\ Len(<<>>) = 0
  BY EmptySeq
<1>2. net' \in [Nodes -> [Nodes -> Seq(Packets)]]
  BY <1>1 DEF NetOK, Lost
<1>3. ASSUME NEW k \in Nodes, NEW l \in Nodes
      PROVE  net'[k][l] = <<>> \/ net'[k][l] = net[k][l]
  BY NodeFacts DEF NetOK, Lost
<1>4. ASSUME NEW k \in Nodes, NEW l \in Nodes, NEW i \in 1..Len(net'[k][l])
      PROVE  Genuine(net'[k][l][i].key)
  BY <1>1, <1>3, <1>4 DEF NetOK
<1>q. QED
  BY <1>2, <1>4, ZenonT(60) DEF NetOK, Genuine, SameCaptures

LEMMA BreakKeeps ==
    ASSUME IInv, NEW m \in Members, Break(m) PROVE IInv' /\ SameCaptures
<1>1. m \in Nodes /\ {m} \in SUBSET Nodes
  BY NodeFacts
<1>2. HistoryOK' /\ SameCaptures
  BY <1>1, UpsetFacts DEF IInv, Break
<1>3. CountersOK'
  BY DEF IInv, CountersOK, Break
<1>4. NetOK'
  BY <1>1, <1>2, LostKeeps DEF IInv, Break
<1>q. QED
  BY <1>2, <1>3, <1>4, UntouchedStays DEF IInv, SameCaptures, Break

\* A new process holds nothing, and its control thread is idle.
LEMMA RestartKeeps ==
    ASSUME IInv, NEW m \in Members, Restart(m)
    PROVE  IInv' /\ SameCaptures /\ Advances
<1>1. m \in Nodes
  BY NodeFacts
<1>2. HistoryOK' /\ SameCaptures
  <2>1. history' = [history EXCEPT !.upsets = history.upsets + 1,
                                   !.upset = history.upset \cup {m},
                                   !.blank = history.blank \cup {m}]
    BY DEF Restart
  <2>2. /\ history.upsets + 1 \in Nat /\ history.upset \cup {m} \in SUBSET Nodes
        /\ history.blank \cup {m} \in SUBSET Nodes
    BY <1>1 DEF IInv, HistoryOK, Histories
  <2>q. QED
    BY <2>1, <2>2 DEF IInv, HistoryOK, Histories, SameCaptures
<1>3. CountersOK'
  <2>1. 0 \in 0..MaxVal /\ 0 \in 0..MaxSeq
    BY BoundsAssumption
  <2>q. QED
    BY <2>1 DEF IInv, CountersOK, Restart
<1>4. ASSUME NEW n \in Nodes, NEW o \in Nodes
      PROVE  hot'[n][o] = IF n = m THEN NoSnapshot ELSE hot[n][o]
  BY <1>1 DEF IInv, HotOK, Restart
<1>5. HotOK'
  <2>1. hot' \in [Nodes -> [Nodes -> Snapshots]]
    BY Defaults DEF IInv, HotOK, Restart
  <2>2. \A n, o \in Nodes : GenuineEntry(o, hot[n][o])'
    BY <1>2, <1>4 DEF IInv, HotOK, GenuineEntry, Genuine, SameCaptures, NoSnapshot
  <2>q. QED
    BY <2>1, <2>2 DEF HotOK
<1>6. NetOK'
  BY <1>1, <1>2, LostKeeps DEF IInv, Restart
<1>7. CtlOK'
  BY <1>2, Defaults DEF IInv, CtlOK, Genuine, SameCaptures, Restart
<1>8. Advances
  BY <1>4 DEF Advances, Newer, Held, NoSnapshot
<1>q. QED
  BY <1>2, <1>3, <1>5, <1>6, <1>7, <1>8 DEF IInv

\* A restore gives the member the host's genuine copy of its data.
LEMMA RestoreKeeps ==
    ASSUME IInv, NEW m \in Members, Restore(m)
    PROVE  IInv' /\ SameCaptures /\ Advances
<1>1. m \in Nodes /\ Host \in Nodes
  BY NodeFacts
<1>2. HistoryOK' /\ SameCaptures
  BY DEF IInv, HistoryOK, Histories, SameCaptures, Restore
<1>3. PICK copy : copy = hot[Host][m]
  OBVIOUS
<1>4. copy \in Snapshots /\ copy.seq \in 1..MaxSeq /\ Genuine(Key(m, copy))
  <2>1. copy \in Snapshots /\ copy.seq \in 1..MaxSeq
    BY <1>1, <1>3 DEF IInv, HotOK, CountersOK, Restore
  <2>2. Held(Host, m)
    BY <1>3, <2>1 DEF Held
  <2>q. QED
    BY <1>1, <1>3, <2>1, <2>2, HeldIsGenuine DEF IInv
<1>5. PICK entry : entry = Snapshot(copy.seq, copy.rev, copy.val, FALSE)
  OBVIOUS
<1>6. hot' = [hot EXCEPT ![m][m] = entry]
  <2>1. copy.rev \in 1..MaxRev
    BY <1>4 DEF Genuine, Key
  <2>q. QED
    <3>1. copy.rev # 0
      BY <2>1
    <3>2. \A old : Replaced(old, copy.seq, copy.rev, copy.val, FALSE) = entry
      BY <1>5, <3>1 DEF Replaced, Numbered
    <3>3. hot' = [hot EXCEPT ![m][m] =
                    Replaced(@, copy.seq, copy.rev, copy.val, FALSE)]
      BY <1>3 DEF Restore
    <3>q. QED
      BY <3>2, <3>3
<1>7. entry \in Snapshots /\ Key(m, entry) = Key(m, copy)
  BY <1>4, <1>5 DEF Snapshot, Snapshots, Key
<1>8. Genuine(Key(m, entry))'
  BY <1>2, <1>4, <1>7 DEF Genuine, Key, SameCaptures
<1>9. HotOK'
  BY <1>1, <1>2, <1>6, <1>7, <1>8, EntryStored DEF IInv, SameCaptures
<1>10. CountersOK'
  BY <1>3, <1>4 DEF IInv, CountersOK, Restore, Snapshots
<1>11. Advances
  BY <1>6 DEF IInv, HotOK, Advances, Newer
<1>q. QED
  BY <1>2, <1>9, <1>10, <1>11, UntouchedStays DEF IInv, SameCaptures, Restore

-----------------------------------------------------------------------------
(* The theorems. *)

\* A step that leaves every store alone advances every copy, trivially.
LEMMA StoresStay == ASSUME UNCHANGED hot PROVE Advances
BY DEF Advances, Newer

\* Every step keeps the invariant; it is a capture, or captures nothing and
\* brings every node, at most, newer copies.
LEMMA StepKeepsIInv ==
    ASSUME IInv, Next
    PROVE  IInv' /\ (CaptureStep \/ (SameCaptures /\ Advances))
<1>1. ASSUME NEW n \in Nodes, GameStep(n)
      PROVE  IInv' /\ (CaptureStep \/ (SameCaptures /\ Advances))
  <2>1. CASE Play(n)
    BY <2>1, PlayKeeps, StoresStay DEF Play
  <2>2. CASE BeginCapture(n)
    BY <2>2, BeginCaptureKeeps, StoresStay DEF BeginCapture
  <2>3. CASE EndCapture(n)
    BY <2>3, EndCaptureKeeps
  <2>q. QED
    BY <1>1, <2>1, <2>2, <2>3 DEF GameStep
<1>2. ASSUME NEW n \in Nodes, ControlStep(n)
      PROVE  IInv' /\ SameCaptures /\ Advances
  <2>1. CASE CollectKeys(n)
    BY <2>1, CollectKeysKeeps, StoresStay DEF CollectKeys
  <2>2. CASE CollectPeers(n)
    BY <2>2, CollectPeersKeeps, StoresStay DEF CollectPeers
  <2>3. CASE Send(n)
    BY <2>3, SendKeeps, StoresStay DEF Send
  <2>4. CASE FinishKey(n)
    BY <2>4, FinishKeyKeeps
  <2>5. CASE StoreReceived(n)
    BY <2>5, StoreReceivedKeeps
  <2>6. ASSUME NEW m \in Nodes, TakeChunk(n, m)
        PROVE  IInv' /\ SameCaptures /\ Advances
    BY <2>6, TakeChunkKeeps, StoresStay DEF TakeChunk
  <2>q. QED
    BY <1>2, <2>1, <2>2, <2>3, <2>4, <2>5, <2>6 DEF ControlStep
<1>3. ASSUME NEW n \in Nodes, CallbackStep(n)
      PROVE  IInv' /\ SameCaptures /\ Advances
  <2>1. PICK m \in Nodes : AddPeer(n, m) \/ LosePeer(n, m)
                           \/ MarkForPublish(n, m) \/ ClearTransport(n, m)
    BY <1>3 DEF CallbackStep
  <2>2. CASE AddPeer(n, m) \/ LosePeer(n, m)
    BY <2>2, PeersKeep, StoresStay DEF AddPeer, LosePeer
  <2>3. CASE MarkForPublish(n, m)
    BY <2>3, MarkForPublishKeeps
  <2>4. CASE ClearTransport(n, m)
    BY <2>4, ClearTransportKeeps, StoresStay DEF ClearTransport
  <2>q. QED
    BY <2>1, <2>2, <2>3, <2>4
<1>4. CASE HostCapture
  BY <1>4, HostCaptureKeeps
<1>5. CASE Commit
  BY <1>5, CommitKeeps, StoresStay DEF Commit
<1>6. CASE Reconcile
  BY <1>6, ReconcileKeeps
<1>7. ASSUME NEW m \in Members, Break(m) \/ Reconnect(m)
      PROVE  IInv' /\ SameCaptures /\ Advances
  BY <1>7, BreakKeeps, ReconnectKeeps, StoresStay DEF Break, Reconnect
<1>8. ASSUME NEW m \in Members, Restart(m) \/ Restore(m)
      PROVE  IInv' /\ SameCaptures /\ Advances
  BY <1>8, RestartKeeps, RestoreKeeps
<1>q. QED
  BY <1>1, <1>2, <1>3, <1>4, <1>5, <1>6, <1>7, <1>8 DEF Next

\* The invariant also survives steps that change nothing.
LEMMA StutterKeepsIInv ==
    ASSUME IInv, UNCHANGED vars PROVE IInv'
BY UntouchedStays DEF IInv, CountersOK, HistoryOK, vars

\* Whatever a node holds, a control thread carries or a link has under way is,
\* whole, a snapshot that its owner captured under some generation: no order of
\* chunks, evictions, recommits and restarts makes a body of two snapshots.
THEOREM OnlyGenuineSnapshots == Spec => []IInv
<1>1. IInv /\ [Next]_vars => IInv'
  BY StepKeepsIInv, StutterKeepsIInv
<1>q. QED
  BY <1>1, InitIInv, PTL DEF Spec

-----------------------------------------------------------------------------
(* The refinement. *)

\* What n holds of o, as SnapshotReplica sees it.
Copy(n, o) ==
    IF n = o \/ ~Held(n, o) THEN {}
    ELSE {[rev |-> hot[n][o].rev, val |-> hot[n][o].val, seq |-> hot[n][o].seq]}

\* A step that captures nothing and advances the copies is an exchange.
LEMMA AdvanceIsExchange ==
    ASSUME IInv, IInv', SameCaptures, Advances
    PROVE  Replica!Exchange
<1>1. ASSUME NEW n \in Nodes, NEW o \in Nodes, NEW d \in Copy(n, o)'
      PROVE  /\ n # o /\ Held(n, o)' /\ Genuine(Key(o, hot[n][o]))'
             /\ d = [rev |-> hot'[n][o].rev, val |-> hot'[n][o].val,
                     seq |-> hot'[n][o].seq]
  <2>1. /\ n # o /\ Held(n, o)'
        /\ d = [rev |-> hot'[n][o].rev, val |-> hot'[n][o].val,
                seq |-> hot'[n][o].seq]
    BY <1>1 DEF Copy
  <2>2. GenuineEntry(o, hot[n][o])'
    BY DEF IInv, HotOK
  <2>q. QED
    BY <2>1, <2>2 DEF GenuineEntry, Held, NoSnapshot
<1>2. ASSUME NEW n \in Nodes, NEW o \in Nodes, NEW d \in Copy(n, o)'
      PROVE  /\ d \in Replica!Copies
             /\ Replica!CaptureOf(d) \in history.captured[o]
             /\ \A c \in Copy(n, o) : Replica!Replaces(d, c)
             /\ \A c \in Copy(n, o)' : c = d
  <2>1. /\ d.rev \in 1..MaxRev /\ d.val \in 0..MaxVal /\ d.seq \in 1..MaxSeq
        /\ [rev |-> d.rev, val |-> d.val] \in history.captured[o]
    <3>1. /\ d = [rev |-> hot'[n][o].rev, val |-> hot'[n][o].val,
                   seq |-> hot'[n][o].seq]
          /\ Genuine(Key(o, hot[n][o]))'
      BY <1>1, <1>2
    <3>q. QED
      BY <3>1 DEF Genuine, Key, SameCaptures
  <2>2. \A c \in Copy(n, o)' : c = d
    BY <1>1, <1>2 DEF Copy
  <2>3. ASSUME NEW c \in Copy(n, o) PROVE Replica!Replaces(d, c)
    <3>1. /\ n # o /\ Held(n, o)
          /\ c = [rev |-> hot[n][o].rev, val |-> hot[n][o].val, seq |-> hot[n][o].seq]
      BY <2>3 DEF Copy
    <3>2. Newer(hot'[n][o], hot[n][o])
      BY <3>1 DEF Advances
    <3>q. QED
      BY <1>1, <1>2, <3>1, <3>2 DEF Newer, Replica!Replaces, Replica!CaptureOf
  <2>4. d \in Replica!Copies
    BY <1>1, <1>2, <2>1 DEF Replica!Copies
  <2>q. QED
    BY <2>1, <2>2, <2>3, <2>4 DEF Replica!CaptureOf
<1>3. \A n, o \in Nodes : Copy(n, o)' \in SUBSET Replica!Copies
  BY <1>2
<1>q. QED
  BY <1>2, <1>3 DEF Copy, SameCaptures, Replica!Exchange

\* A capture is one of the abstract owner.
LEMMA CaptureIsCapture ==
    ASSUME IInv, IInv', CaptureStep
    PROVE  Replica!Capture
<1>1. \A n, o \in Nodes : Copy(n, o)' = Copy(n, o)
  BY DEF Copy, CaptureStep, Held
<1>2. \E o \in Nodes, c \in Replica!Captures :
         history'.captured = [history.captured EXCEPT ![o] = @ \cup {c}]
  BY DEF CaptureStep, Captures, Replica!Captures
<1>q. QED
  BY <1>1, <1>2 DEF Copy, Replica!Capture

\* Chunks, assemblies, the publication rounds of every thread, recommits,
\* breaks and restarts implement the exchange of whole, ever newer copies.
THEOREM Implementation == Spec => ImplementsReplica
<1>1. Init => Replica!Init
  BY DEF Init, Held, NoSnapshot, Replica!Init
<1>2. IInv /\ IInv' /\ [Next]_vars => [Replica!Next]_(Replica!vars)
  <2>1. ASSUME IInv, IInv', Next PROVE Replica!Next
    BY <2>1, StepKeepsIInv, AdvanceIsExchange, CaptureIsCapture DEF Replica!Next
  <2>2. ASSUME UNCHANGED vars PROVE UNCHANGED Replica!vars
    BY <2>2 DEF vars, Replica!vars, Held
  <2>q. QED
    BY <2>1, <2>2
<1>q. QED
  BY <1>1, <1>2, OnlyGenuineSnapshots, PTL DEF Spec, ImplementsReplica, Replica!Spec

-----------------------------------------------------------------------------
(* The types that the refinement does without: the assembly tables, which  *)
(* never outgrow their places, the callbacks and the history.              *)

Bodies == [from : Nodes, key : Keys, got : SUBSET (Parts \X (0..MaxVal))]

TableOK ==
    /\ assembly \in [Nodes -> Seq(Bodies)]
    /\ \A n \in Nodes : Len(assembly[n]) <= AssemblyCap

Marks == SUBSET ({"mark", "clear"} \X Nodes)

PeopleOK ==
    /\ callback \in [Nodes -> Marks]
    /\ up \subseteq Members
    /\ history.upset \subseteq Members /\ history.blank \subseteq Members
    /\ history.upsets \in 0..MaxUpset

TypeInv == TableOK /\ PeopleOK

\* A table with an assembly removed, and with another one in its place.
LEMMA Removed ==
    ASSUME NEW table \in Seq(Bodies), NEW i \in 1..Len(table)
    PROVE  RemoveAt(table, i) \in Seq(Bodies) /\ Len(RemoveAt(table, i)) = Len(table) - 1
<1>1. Len(table) \in Nat /\ \A j \in 1..Len(table) : table[j] \in Bodies
  BY LenProperties, ElementOfSeq
<1>2. PICK a, b : a = SubSeq(table, 1, i - 1) /\ b = SubSeq(table, i + 1, Len(table))
  OBVIOUS
<1>3. a \in Seq(Bodies) /\ Len(a) = i - 1
  <2>1. \A j \in 1..(i - 1) : table[j] \in Bodies
    BY <1>1
  <2>q. QED
    BY <1>1, <1>2, <2>1, SubSeqProperties
<1>4. b \in Seq(Bodies) /\ Len(b) = Len(table) - i
  <2>1. \A j \in (i + 1)..Len(table) : table[j] \in Bodies
    BY <1>1
  <2>2. PICK c, d : c = i + 1 /\ d = Len(table)
    OBVIOUS
  <2>3. c \in Int /\ d \in Int /\ \A j \in c..d : table[j] \in Bodies
    BY <1>1, <2>1, <2>2
  <2>4. SubSeq(table, c, d) \in Seq(Bodies)
        /\ Len(SubSeq(table, c, d)) = IF c <= d THEN d - c + 1 ELSE 0
    BY <2>3, SubSeqProperties
  <2>q. QED
    BY <1>1, <1>2, <2>2, <2>4
<1>5. a \o b \in Seq(Bodies) /\ Len(a \o b) = Len(a) + Len(b)
  BY <1>3, <1>4, ConcatProperties
<1>6. RemoveAt(table, i) = a \o b
  BY <1>2 DEF RemoveAt
<1>7. Len(a) + Len(b) = Len(table) - 1
  BY <1>1, <1>3, <1>4
<1>q. QED
  BY <1>5, <1>6, <1>7

\* The table after a chunk has its bodies whole, and room for them.
LEMMA ChunkFits ==
    ASSUME NEW table \in Seq(Bodies), Len(table) <= AssemblyCap,
           NEW from \in Nodes, NEW chunk \in Packets
    PROVE  /\ WithChunk(table, from, chunk) \in Seq(Bodies)
           /\ Len(WithChunk(table, from, chunk)) \in 1..AssemblyCap
<1>1. AssemblyCap \in Nat \ {0}
  BY BoundsAssumption
<1>2. /\ Len(table) \in Nat /\ DOMAIN table = 1..Len(table)
      /\ \A j \in 1..Len(table) : table[j] \in Bodies
  BY LenProperties, ElementOfSeq
<1>3. PICK part, mine : /\ part = <<chunk.part, chunk.val>>
                        /\ mine = {i \in DOMAIN table : Matches(table[i], from, chunk.key)}
  OBVIOUS
<1>4. part \in Parts \X (0..MaxVal) /\ chunk.key \in Keys
  BY <1>3 DEF Packets
<1>5. \A t \in Seq(Bodies), b \in Bodies :
         Append(t, b) \in Seq(Bodies) /\ Len(Append(t, b)) = Len(t) + 1
  BY AppendProperties
<1>6. CASE mine = {}
  <2>1. PICK b : b = [from |-> from, key |-> chunk.key, got |-> {part}]
    OBVIOUS
  <2>2. b \in Bodies
    BY <1>4, <2>1 DEF Bodies
  <2>3. Places(table) \in Seq(Bodies) /\ Len(Places(table)) \in 0..(AssemblyCap - 1)
    <3>1. CASE Len(table) < AssemblyCap
      BY <1>1, <1>2, <3>1 DEF Places
    <3>2. CASE ~(Len(table) < AssemblyCap)
      <4>1. table # <<>>
        BY <1>1, <3>2, EmptySeq
      <4>2. Tail(table) \in Seq(Bodies) /\ Len(Tail(table)) = Len(table) - 1
        BY <4>1, HeadTailProperties
      <4>q. QED
        BY <1>1, <1>2, <3>2, <4>2 DEF Places
    <3>q. QED
      BY <3>1, <3>2
  <2>4. WithChunk(table, from, chunk) = Append(Places(table), b)
    BY <1>3, <1>6, <2>1 DEF WithChunk
  <2>q. QED
    BY <1>1, <1>5, <2>2, <2>3, <2>4
<1>7. CASE mine # {}
  <2>1. PICK i : i = CHOOSE k \in mine : TRUE
    OBVIOUS
  <2>2. i \in mine
    BY <1>7, <2>1
  <2>3. i \in 1..Len(table) /\ table[i] \in Bodies
    BY <1>2, <1>3, <2>2
  <2>4. PICK got : got = {g \in table[i].got : g[1] # chunk.part}
    OBVIOUS
  <2>5. PICK b : b = [table[i] EXCEPT !.got = got \cup {part}]
    OBVIOUS
  <2>6. b \in Bodies
    <3>1. got \cup {part} \in SUBSET (Parts \X (0..MaxVal))
      BY <1>4, <2>3, <2>4 DEF Bodies
    <3>q. QED
      BY <2>3, <2>5, <3>1 DEF Bodies
  <2>7. PICK rest : rest = RemoveAt(table, i)
    OBVIOUS
  <2>8. rest \in Seq(Bodies) /\ Len(rest) = Len(table) - 1
    BY <2>3, <2>7, Removed
  <2>9. WithChunk(table, from, chunk) = Append(rest, b)
    BY <1>3, <1>7, <2>1, <2>4, <2>5, <2>7 DEF WithChunk
  <2>q. QED
    BY <1>1, <1>2, <1>5, <2>3, <2>6, <2>8, <2>9
<1>q. QED
  BY <1>6, <1>7

\* What is left of a table when the first ones expire, or the last is whole.
LEMMA Shortened ==
    ASSUME NEW table \in Seq(Bodies), NEW first \in 1..(Len(table) + 1),
           NEW last \in 0..Len(table)
    PROVE  /\ SubSeq(table, first, last) \in Seq(Bodies)
           /\ Len(SubSeq(table, first, last)) <= Len(table)
<1>1. /\ Len(table) \in Nat /\ first \in Int /\ last \in Int
      /\ \A j \in first..last : table[j] \in Bodies
  <2>1. Len(table) \in Nat
    BY LenProperties
  <2>2. \A j \in 1..Len(table) : table[j] \in Bodies
    BY ElementOfSeq
  <2>q. QED
    BY <2>1, <2>2
<1>q. QED
  BY <1>1, SubSeqProperties

\* A peer's assemblies leave the table, the others stay in their order.
LEMMA ClearTransportFits ==
    ASSUME IInv, TableOK, NEW n \in Nodes, NEW m \in Nodes, ClearTransport(n, m)
    PROVE  TableOK'
<1>1. PICK table : table = assembly[n]
  OBVIOUS
<1>2. table \in Seq(Bodies) /\ Len(table) <= AssemblyCap
  BY <1>1 DEF TableOK
<1>3. /\ Len(table) \in Nat /\ DOMAIN table = 1..Len(table)
      /\ \A j \in 1..Len(table) : table[j] \in Bodies
  BY <1>2, LenProperties, ElementOfSeq
<1>4. PICK keep : keep = {i \in DOMAIN table : table[i].from # m}
  OBVIOUS
<1>5. PICK place \in [1..Cardinality(keep) -> keep] :
         assembly' = [assembly EXCEPT ![n] = [i \in DOMAIN place |-> table[place[i]]]]
  <2>1. keep = {i \in DOMAIN assembly[n] : assembly[n][i].from # m}
    BY <1>1, <1>4
  <2>2. PICK place \in [1..Cardinality(keep) -> keep] :
           assembly' = [assembly EXCEPT ![n] =
                          [i \in DOMAIN place |-> assembly[n][place[i]]]]
    BY <2>1 DEF ClearTransport
  <2>q. QED
    BY <1>1, <2>2
<1>6. Cardinality(keep) \in Nat /\ Cardinality(keep) <= Len(table)
  <2>1. IsFiniteSet(1..Len(table)) /\ Cardinality(1..Len(table)) = Len(table)
    BY <1>3, FS_Interval
  <2>2. keep \in SUBSET (1..Len(table))
    BY <1>3, <1>4
  <2>3. IsFiniteSet(keep) /\ Cardinality(keep) <= Cardinality(1..Len(table))
    BY <2>1, <2>2, FS_Subset
  <2>4. Cardinality(keep) \in Nat
    BY <2>3, FS_CardinalityType
  <2>q. QED
    BY <2>1, <2>3, <2>4
<1>7. PICK c, kept : c = Cardinality(keep) /\ kept = [i \in DOMAIN place |-> table[place[i]]]
  OBVIOUS
<1>8. kept \in [1..c -> Bodies]
  BY <1>3, <1>4, <1>7
<1>9. kept \in Seq(Bodies) /\ Len(kept) = c
  <2>1. kept \in Seq(Bodies)
    BY <1>6, <1>7, <1>8, SeqDef
  <2>2. DOMAIN kept = 1..c /\ DOMAIN kept = 1..Len(kept) /\ Len(kept) \in Nat
    BY <1>8, <2>1, LenProperties
  <2>q. QED
    BY <1>6, <1>7, <2>1, <2>2
<1>10. assembly' = [assembly EXCEPT ![n] = kept]
  BY <1>5, <1>7
<1>q. QED
  BY <1>2, <1>3, <1>6, <1>7, <1>9, <1>10, BoundsAssumption DEF TableOK

\* A chunk goes into a table that has room for it, after any expiry; a whole
\* body leaves it again.
LEMMA TakeChunkFits ==
    ASSUME IInv, TableOK, NEW n \in Nodes, NEW m \in Nodes, TakeChunk(n, m)
    PROVE  TableOK'
<1>1. PICK chunk : chunk = Head(net[m][n])
  OBVIOUS
<1>2. chunk \in Packets
  BY <1>1, TailIsGenuine DEF IInv, TakeChunk
<1>3. CASE assembly' = assembly
  BY <1>3 DEF TableOK
<1>4. CASE Assemble(n, m, chunk)
  <2>1. PICK old : old = assembly[n]
    OBVIOUS
  <2>2. old \in Seq(Bodies) /\ Len(old) <= AssemblyCap /\ Len(old) \in Nat
    BY <2>1, LenProperties DEF TableOK
  <2>3a. PICK expired \in 0..Len(old) :
            \E table :
              /\ table = WithChunk(SubSeq(old, expired + 1, Len(old)), m, chunk)
              /\ \/ assembly' = [assembly EXCEPT ![n] = Front(table)]
                 \/ assembly' = [assembly EXCEPT ![n] = table]
    BY <1>4, <2>1 DEF Assemble
  <2>3. PICK table :
              /\ table = WithChunk(SubSeq(old, expired + 1, Len(old)), m, chunk)
              /\ \/ assembly' = [assembly EXCEPT ![n] = Front(table)]
                 \/ assembly' = [assembly EXCEPT ![n] = table]
    BY <2>3a
  <2>4. PICK rest : rest = SubSeq(old, expired + 1, Len(old))
    OBVIOUS
  <2>5. rest \in Seq(Bodies) /\ Len(rest) <= AssemblyCap
    <3>1. PICK first, last : first = expired + 1 /\ last = Len(old)
      OBVIOUS
    <3>2. first \in 1..(Len(old) + 1) /\ last \in 0..Len(old)
      BY <2>2, <3>1
    <3>3. SubSeq(old, first, last) \in Seq(Bodies) /\ Len(SubSeq(old, first, last)) <= Len(old)
      BY <2>2, <3>2, Shortened
    <3>4. rest \in Seq(Bodies) /\ Len(rest) <= Len(old)
      BY <2>4, <3>1, <3>3
    <3>5. Len(rest) \in Nat
      BY <3>4, LenProperties
    <3>q. QED
      BY <2>2, <3>4, <3>5, BoundsAssumption
  <2>6. table \in Seq(Bodies) /\ Len(table) \in 1..AssemblyCap
    BY <1>2, <2>3, <2>4, <2>5, ChunkFits
  <2>7. Front(table) \in Seq(Bodies) /\ Len(Front(table)) <= AssemblyCap
    <3>1. PICK first, last : first = 1 /\ last = Len(table) - 1
      OBVIOUS
    <3>2. first \in 1..(Len(table) + 1) /\ last \in 0..Len(table)
      BY <2>6, <3>1, BoundsAssumption
    <3>3. SubSeq(table, first, last) \in Seq(Bodies) /\ Len(SubSeq(table, first, last)) <= Len(table)
      BY <2>6, <3>2, Shortened
    <3>4. Front(table) \in Seq(Bodies) /\ Len(Front(table)) <= Len(table)
      BY <3>1, <3>3 DEF Front
    <3>5. Len(Front(table)) \in Nat
      BY <3>4, LenProperties
    <3>q. QED
      BY <2>6, <3>4, <3>5, BoundsAssumption
  <2>8. PICK new \in Seq(Bodies) :
           Len(new) <= AssemblyCap /\ assembly' = [assembly EXCEPT ![n] = new]
    <3>1. Len(table) <= AssemblyCap
      BY <2>6
    <3>q. QED
      BY <2>3, <2>6, <2>7, <3>1
  <2>q. QED
    BY <2>8 DEF TableOK
<1>q. QED
  BY <1>1, <1>3, <1>4 DEF TakeChunk, Drop

\* Every step keeps the tables within their bounds.
LEMMA NextTable == ASSUME IInv, TableOK, Next PROVE TableOK'
<1>1. CASE assembly' = assembly
  BY <1>1 DEF TableOK
<1>2. ASSUME NEW n \in Nodes, NEW m \in Nodes, TakeChunk(n, m) PROVE TableOK'
  BY <1>2, TakeChunkFits
<1>3. ASSUME NEW n \in Nodes, NEW m \in Nodes, ClearTransport(n, m) PROVE TableOK'
  BY <1>3, ClearTransportFits
<1>4. ASSUME NEW m \in Members, Restart(m) PROVE TableOK'
  <2>1. <<>> \in Seq(Bodies) /\ Len(<<>>) = 0
    BY EmptySeq
  <2>2. assembly' = [assembly EXCEPT ![m] = <<>>]
    BY <1>4 DEF Restart
  <2>3. assembly' \in [Nodes -> Seq(Bodies)]
    BY <2>1, <2>2 DEF TableOK
  <2>4. 0 <= AssemblyCap
    BY BoundsAssumption
  <2>5. ASSUME NEW n \in Nodes PROVE Len(assembly'[n]) <= AssemblyCap
    <3>1. assembly'[n] = <<>> \/ assembly'[n] = assembly[n]
      BY <2>2 DEF TableOK
    <3>q. QED
      BY <2>1, <2>4, <3>1 DEF TableOK
  <2>q. QED
    BY <2>3, <2>5 DEF TableOK
<1>5. ASSUME NEW n \in Nodes, GameStep(n) \/ ControlStep(n) \/ CallbackStep(n)
      PROVE  TableOK'
  <2>1. CASE GameStep(n)
    BY <2>1, <1>1 DEF GameStep, Play, BeginCapture, EndCapture
  <2>2. CASE ControlStep(n)
    BY <2>2, <1>1, <1>2 DEF ControlStep, CollectKeys, CollectPeers, Send, FinishKey,
                            StoreReceived
  <2>3. CASE CallbackStep(n)
    BY <2>3, <1>1, <1>3 DEF CallbackStep, AddPeer, LosePeer, MarkForPublish
  <2>q. QED
    BY <1>5, <2>1, <2>2, <2>3
<1>6. CASE HostCapture \/ Commit \/ Reconcile
  BY <1>6, <1>1 DEF HostCapture, Commit, Reconcile
<1>7. ASSUME NEW m \in Members, Break(m) \/ Reconnect(m) \/ Restart(m) \/ Restore(m)
      PROVE  TableOK'
  BY <1>7, <1>1, <1>4 DEF Break, Reconnect, Restore
<1>q. QED
  BY <1>5, <1>6, <1>7 DEF Next

\* An upset touches members only, and is counted.
LEMMA UpsetPeople ==
    ASSUME HistoryOK, PeopleOK, NEW who \in SUBSET Members, Upset(who)
    PROVE  /\ history'.upset \subseteq Members /\ history'.blank \subseteq Members
           /\ history'.upsets \in 0..MaxUpset
<1>1. /\ history' = [history EXCEPT !.upsets = history.upsets + 1,
                                    !.upset = history.upset \cup who]
      /\ history.upsets < MaxUpset /\ history.upsets \in Nat /\ MaxUpset \in Nat
  BY BoundsAssumption DEF Upset, PeopleOK
<1>2. /\ history'.upset = history.upset \cup who /\ history'.blank = history.blank
      /\ history'.upsets = history.upsets + 1
  BY <1>1 DEF HistoryOK, Histories
<1>q. QED
  BY <1>1, <1>2 DEF PeopleOK

\* A step of the game threads.
LEMMA CapturePeople ==
    ASSUME HistoryOK, PeopleOK, NEW n \in Nodes, NEW seq, StoreCapture(n, seq),
           UNCHANGED <<callback, up>>
    PROVE  PeopleOK'
<1>1. PICK a, b : history' = [history EXCEPT !.captured[n] = a, !.made[n] = b]
  BY DEF StoreCapture
<1>2. /\ history'.upset = history.upset /\ history'.blank = history.blank
      /\ history'.upsets = history.upsets
  BY <1>1 DEF HistoryOK, Histories
<1>q. QED
  BY <1>2 DEF PeopleOK

\* Every step keeps the callbacks, the links and the history within their types.
LEMMA NextPeople == ASSUME IInv, PeopleOK, Next PROVE PeopleOK'
<1>0. HistoryOK
  BY DEF IInv
<1>1. CASE UNCHANGED <<callback, up, history>>
  BY <1>1 DEF PeopleOK
<1>2. ASSUME UNCHANGED <<callback, up>>,
             \E who \in SUBSET Members :
                \/ Upset(who)
                \/ history' = [history EXCEPT !.upset = @ \cup who]
      PROVE  PeopleOK'
  <2>1. PICK who \in SUBSET Members :
           \/ Upset(who)
           \/ history' = [history EXCEPT !.upset = history.upset \cup who]
    BY <1>2
  <2>2. CASE Upset(who)
    BY <1>0, <1>2, <2>2, UpsetPeople DEF PeopleOK
  <2>3. CASE history' = [history EXCEPT !.upset = history.upset \cup who]
    <3>1. /\ history'.upset = history.upset \cup who
          /\ history'.blank = history.blank /\ history'.upsets = history.upsets
      BY <1>0, <2>3 DEF HistoryOK, Histories
    <3>q. QED
      BY <1>2, <3>1 DEF PeopleOK
  <2>q. QED
    BY <2>1, <2>2, <2>3
<1>3. ASSUME NEW n \in Nodes, GameStep(n) PROVE PeopleOK'
  BY <1>0, <1>1, <1>3, CapturePeople DEF GameStep, Play, BeginCapture, EndCapture
<1>4. ASSUME NEW n \in Nodes, ControlStep(n) PROVE PeopleOK'
  <2>1. CASE CollectKeys(n) \/ CollectPeers(n) \/ FinishKey(n) \/ StoreReceived(n)
    BY <1>1, <2>1 DEF CollectKeys, CollectPeers, FinishKey, StoreReceived
  <2>2. CASE Send(n)
    <3>1. \/ UNCHANGED history
          \/ Upset({})
      BY <2>2 DEF Send
    <3>2. {} \in SUBSET Members /\ UNCHANGED <<callback, up>>
      BY <2>2 DEF Send
    <3>q. QED
      BY <1>1, <1>2, <3>1, <3>2
  <2>3. ASSUME NEW m \in Nodes, TakeChunk(n, m) PROVE PeopleOK'
    <3>1. UNCHANGED <<callback, up>>
      BY <2>3 DEF TakeChunk
    <3>2. \E lost \in SUBSET Members :
             \/ UNCHANGED history
             \/ Upset(lost)
             \/ history' = [history EXCEPT !.upset = @ \cup lost]
      BY <2>3 DEF TakeChunk, Drop, Assemble, Discarded
    <3>q. QED
      BY <1>1, <1>2, <3>1, <3>2
  <2>q. QED
    BY <1>4, <2>1, <2>2, <2>3 DEF ControlStep
<1>5. ASSUME NEW n \in Nodes, CallbackStep(n) PROVE PeopleOK'
  <2>1. PICK m \in Nodes : AddPeer(n, m) \/ LosePeer(n, m)
                           \/ MarkForPublish(n, m) \/ ClearTransport(n, m)
    BY <1>5 DEF CallbackStep
  <2>2. callback[n] \in Marks
    BY DEF PeopleOK
  <2>3. PICK mine \in Marks : callback' = [callback EXCEPT ![n] = mine]
    <3>1. /\ callback[n] \cup {<<"mark", m>>} \in Marks
          /\ callback[n] \cup {<<"clear", m>>} \in Marks
          /\ callback[n] \ {<<"mark", m>>} \in Marks
          /\ callback[n] \ {<<"clear", m>>} \in Marks
      BY <2>2 DEF Marks
    <3>q. QED
      BY <2>1, <3>1 DEF AddPeer, LosePeer, MarkForPublish, ClearTransport
  <2>4. UNCHANGED <<up, history>>
    BY <2>1 DEF AddPeer, LosePeer, MarkForPublish, ClearTransport
  <2>q. QED
    BY <2>3, <2>4 DEF PeopleOK
<1>6. CASE HostCapture
  BY <1>0, <1>6, NodeFacts, CapturePeople DEF HostCapture
<1>7. CASE Commit \/ Reconcile
  <2>1. {} \in SUBSET Members
    OBVIOUS
  <2>q. QED
    BY <1>1, <1>2, <1>7, <2>1 DEF Commit, Reconcile
<1>8. ASSUME NEW m \in Members, Break(m) PROVE PeopleOK'
  <2>1. Upset({m}) /\ {m} \in SUBSET Members /\ up' = up \ {m} /\ UNCHANGED callback
    BY <1>8 DEF Break
  <2>q. QED
    BY <1>0, <2>1, UpsetPeople DEF PeopleOK
<1>9. ASSUME NEW m \in Members, Reconnect(m) PROVE PeopleOK'
  BY <1>9 DEF PeopleOK, Reconnect
<1>10. ASSUME NEW m \in Members, Restart(m) PROVE PeopleOK'
  <2>1. /\ callback' = [callback EXCEPT ![m] = {}] /\ up' = up \ {m}
        /\ history' = [history EXCEPT !.upsets = history.upsets + 1,
                                      !.upset = history.upset \cup {m},
                                      !.blank = history.blank \cup {m}]
        /\ history.upsets < MaxUpset /\ history.upsets \in Nat /\ MaxUpset \in Nat
    BY <1>10, BoundsAssumption DEF Restart, PeopleOK
  <2>2. /\ history'.upset = history.upset \cup {m}
        /\ history'.blank = history.blank \cup {m}
        /\ history'.upsets = history.upsets + 1
    BY <1>0, <2>1 DEF HistoryOK, Histories
  <2>3. callback' \in [Nodes -> Marks]
    BY <2>1 DEF PeopleOK, Marks
  <2>q. QED
    BY <2>1, <2>2, <2>3 DEF PeopleOK
<1>11. ASSUME NEW m \in Members, Restore(m) PROVE PeopleOK'
  <2>1. history' = [history EXCEPT !.blank = history.blank \ {m}]
        /\ UNCHANGED <<callback, up>>
    BY <1>11 DEF Restore
  <2>2. /\ history'.upset = history.upset /\ history'.upsets = history.upsets
        /\ history'.blank = history.blank \ {m}
    BY <1>0, <2>1 DEF HistoryOK, Histories
  <2>q. QED
    BY <2>1, <2>2 DEF PeopleOK
<1>q. QED
  BY <1>3, <1>4, <1>5, <1>6, <1>7, <1>8, <1>9, <1>10, <1>11 DEF Next

LEMMA InitTypeInv == Init => TypeInv
<1> SUFFICES ASSUME Init PROVE TypeInv
  OBVIOUS
<1>1. <<>> \in Seq(Bodies) /\ Len(<<>>) = 0
  BY EmptySeq
<1>2. TableOK
  BY <1>1, BoundsAssumption DEF Init, TableOK
<1>3. PeopleOK
  BY BoundsAssumption DEF Init, PeopleOK, Marks
<1>q. QED
  BY <1>2, <1>3 DEF TypeInv

\* Every variable keeps its type: no table of assemblies outgrows its places,
\* whatever chunks, expiries and lost peers it sees.
THEOREM TransportTypeCorrect == Spec => []TypeOK
<1>1. IInv /\ TypeInv /\ [Next]_vars => TypeInv'
  <2>1. ASSUME IInv, TypeInv, Next PROVE TypeInv'
    BY <2>1, NextTable, NextPeople DEF TypeInv
  <2>2. ASSUME TypeInv, UNCHANGED vars PROVE TypeInv'
    BY <2>2 DEF TypeInv, TableOK, PeopleOK, vars
  <2>q. QED
    BY <2>1, <2>2
<1>2. ASSUME IInv, TypeInv PROVE TypeOK
  <2>1. ASSUME NEW n \in Nodes
        PROVE  /\ Len(assembly[n]) <= AssemblyCap
               /\ \A i \in 1..Len(assembly[n]) :
                     /\ assembly[n][i].from \in Nodes /\ assembly[n][i].key \in Keys
                     /\ assembly[n][i].got \subseteq Parts \X (0..MaxVal)
    <3>1. PICK table \in Seq(Bodies) : table = assembly[n]
      BY <1>2 DEF TypeInv, TableOK
    <3>2. \A i \in 1..Len(table) : table[i] \in Bodies
      BY ElementOfSeq
    <3>q. QED
      BY <1>2, <3>1, <3>2 DEF TypeInv, TableOK, Bodies
  <2>2. ASSUME NEW m \in Nodes, NEW n \in Nodes PROVE ToSet(net[m][n]) \subseteq Packets
    <3>1. PICK q \in Seq(Packets) : q = net[m][n]
      BY <1>2 DEF IInv, NetOK
    <3>2. DOMAIN q = 1..Len(q) /\ \A i \in 1..Len(q) : q[i] \in Packets
      BY LenProperties, ElementOfSeq
    <3>q. QED
      BY <3>1, <3>2 DEF ToSet
  <2>3. ASSUME NEW n \in Nodes
        PROVE  /\ ctl[n].pc \in {"idle", "peers", "send", "store"}
               /\ ctl[n].todo \subseteq Keys /\ ctl[n].key \in Keys
               /\ ctl[n].peers \cup ctl[n].left \subseteq Nodes /\ ctl[n].ok \in BOOLEAN
    BY <1>2 DEF IInv, CtlOK, Rounds
  <2>4. /\ pgd \in [Nodes -> 0..MaxVal] /\ hot \in [Nodes -> [Nodes -> Snapshots]]
        /\ authority \in 1..MaxSeq /\ receipt \in [Nodes -> 0..MaxSeq]
        /\ peers \in [Nodes -> SUBSET Nodes] /\ game \in [Nodes -> 0..MaxSeq]
    BY <1>2 DEF IInv, CountersOK, HotOK
  <2>5. /\ callback \in [Nodes -> SUBSET ({"mark", "clear"} \X Nodes)]
        /\ up \subseteq Members
        /\ history.upset \cup history.blank \subseteq Members
        /\ history.upsets \in 0..MaxUpset
    BY <1>2 DEF TypeInv, PeopleOK, Marks
  <2>q. QED
    BY <2>1, <2>2, <2>3, <2>4, <2>5 DEF TypeOK
<1>q. QED
  BY <1>1, <1>2, InitTypeInv, OnlyGenuineSnapshots, PTL DEF Spec
=============================================================================
