------------------------- MODULE PgdDeliveryProofs -------------------------
(***************************************************************************)
(* In PgdTransport a member that nothing has gone wrong for, and that has  *)
(* nothing left to publish, has its data at the host: for every number of  *)
(* members and every value of the bounds.                                  *)
(*                                                                         *)
(* What is marked published is, at first, on its way only.  The invariant  *)
(* follows it: its last chunk on the link, its first one before it or in   *)
(* the table of the host; then whole, in the hands of the host's control   *)
(* thread; then in the host's store.                                       *)
(***************************************************************************)
EXTENDS PgdOrderProofs

\* A table has one body of a key and sender, and nothing that was not announced.
Neat(table) ==
    /\ \A i \in 1..Len(table) : \A g \in table[i].got : g[2] = table[i].key.val
    /\ \A i, j \in 1..Len(table) :
          table[i].from = table[j].from /\ table[i].key = table[j].key => i = j

\* Chunks carry what their key announces, and so do the bodies made of them.
ChunksOK ==
    \A m, n \in Nodes : \A i \in 1..Len(net[m][n]) :
       net[m][n][i].val = net[m][n][i].key.val

TableNeat == Neat(assembly[Host])

\* A member that nothing has gone wrong for is not blank; its link has always
\* been up, so no thread clears what the host has of it.
IntactOK ==
    /\ history.blank \subseteq history.upset
    /\ \A m \in Members \ history.upset : m \in up /\ <<"clear", m>> \notin callback[Host]

\* The keys whose first chunk is in the host's table.
Begun ==
    {key \in Keys : \E i \in 1..Len(assembly[Host]) :
       /\ assembly[Host][i].from = key.owner /\ assembly[Host][i].key = key
       /\ <<"first", key.val>> \in assembly[Host][i].got}

\* The chunk at this place of the owner's link to the host.
At(key, i, part) ==
    net[key.owner][Host][i].key = key /\ net[key.owner][Host][i].part = part

OnWay ==
    {key \in Keys : \E j \in 1..Len(net[key.owner][Host]) :
       /\ At(key, j, "last")
       /\ key \in Begun \/ \E i \in 1..(j - 1) : At(key, i, "first")}

\* The host's copy is as new, and is not about to be replaced by one of an
\* earlier generation.
AtHost ==
    {key \in Keys :
       /\ hot[Host][key.owner].seq = key.seq /\ key.rev <= hot[Host][key.owner].rev
       /\ \A next \in Arrived(Host) : next.owner = key.owner => next.seq = authority}

Sent == OnWay \cup Arrived(Host) \cup AtHost

\* What a member has published, or has just sent to the host.
Published(m) ==
    {key \in {Key(m, hot[m][m])} : Held(m, m) /\ ~hot[m][m].pending}
       \cup {key \in {ctl[m].key} : /\ ctl[m].pc = "send" /\ ctl[m].ok
                                    /\ ctl[m].left = {} /\ key.owner = m}

SentOK ==
    \A m \in Members \ history.upset : \A key \in Published(m) :
       key.seq = authority => key \in Sent

\* The inductive invariant, next to those of PgdTransportProofs and PgdOrderProofs.
DeliveryInv == ChunksOK /\ TableNeat /\ IntactOK /\ SentOK

-----------------------------------------------------------------------------
(* Tables. *)

\* What is made of entries of a neat table, each taken once, is neat.
LEMMA NeatPart ==
    ASSUME NEW t, NEW u, Neat(t), NEW f,
           \A i \in 1..Len(u) : f[i] \in 1..Len(t) /\ u[i] = t[f[i]],
           \A i, j \in 1..Len(u) : f[i] = f[j] => i = j
    PROVE  Neat(u)
<1>1. ASSUME NEW i \in 1..Len(u), NEW g \in u[i].got PROVE g[2] = u[i].key.val
  BY <1>1 DEF Neat
<1>2. ASSUME NEW i \in 1..Len(u), NEW j \in 1..Len(u),
             u[i].from = u[j].from, u[i].key = u[j].key
      PROVE  i = j
  <2>1. f[i] \in 1..Len(t) /\ f[j] \in 1..Len(t) /\ u[i] = t[f[i]] /\ u[j] = t[f[j]]
    OBVIOUS
  <2>2. f[i] = f[j]
    BY <1>2, <2>1 DEF Neat
  <2>q. QED
    BY <2>2
<1>q. QED
  BY <1>1, <1>2 DEF Neat

\* A stretch of a table, entry by entry.
LEMMA Stretch ==
    ASSUME NEW t \in Seq(Bodies), NEW first \in 1..(Len(t) + 1), NEW last \in 0..Len(t)
    PROVE  \E u \in Seq(Bodies) :
              /\ u = SubSeq(t, first, last)
              /\ Len(u) = IF first <= last THEN last - first + 1 ELSE 0
              /\ \A i \in 1..Len(u) : u[i] = t[first + i - 1]
<1>1. /\ Len(t) \in Nat /\ first \in Int /\ last \in Int
      /\ \A j \in first..last : t[j] \in Bodies
  <2>1. Len(t) \in Nat
    BY LenProperties
  <2>2. \A j \in 1..Len(t) : t[j] \in Bodies
    BY ElementOfSeq
  <2>q. QED
    BY <2>1, <2>2
<1>2. PICK u : u = SubSeq(t, first, last)
  OBVIOUS
<1>3. /\ u \in Seq(Bodies) /\ Len(u) = IF first <= last THEN last - first + 1 ELSE 0
      /\ \A i \in 1..(last - first + 1) : u[i] = t[first + i - 1]
  BY <1>1, <1>2, SubSeqProperties
<1>4. \A i \in 1..Len(u) : u[i] = t[first + i - 1]
  BY <1>1, <1>3
<1>q. QED
  BY <1>2, <1>3, <1>4

LEMMA NeatStretch ==
    ASSUME NEW t \in Seq(Bodies), Neat(t),
           NEW first \in 1..(Len(t) + 1), NEW last \in 0..Len(t)
    PROVE  Neat(SubSeq(t, first, last))
<1>1. PICK u \in Seq(Bodies) :
         /\ u = SubSeq(t, first, last)
         /\ Len(u) = IF first <= last THEN last - first + 1 ELSE 0
         /\ \A i \in 1..Len(u) : u[i] = t[first + i - 1]
  BY Stretch
<1>2. PICK f : f = [i \in 1..Len(u) |-> first + i - 1]
  OBVIOUS
<1>3. Len(t) \in Nat
  BY LenProperties
<1>4. \A i \in 1..Len(u) : f[i] = first + i - 1 /\ f[i] \in 1..Len(t)
  BY <1>1, <1>2, <1>3
<1>5. \A i \in 1..Len(u) : f[i] \in 1..Len(t) /\ u[i] = t[f[i]]
  BY <1>1, <1>4
<1>6. \A i, j \in 1..Len(u) : f[i] = f[j] => i = j
  BY <1>4
<1>7. Neat(u)
  BY <1>5, <1>6, NeatPart, SMTT(60)
<1>q. QED
  BY <1>1, <1>7

\* A table without one of its entries, entry by entry.
LEMMA Without ==
    ASSUME NEW t \in Seq(Bodies), Neat(t), NEW k \in 1..Len(t)
    PROVE  \E u \in Seq(Bodies) :
              /\ u = RemoveAt(t, k) /\ Neat(u)
              /\ \A i \in 1..Len(u) : \E j \in 1..Len(t) \ {k} : u[i] = t[j]
<1>1. Len(t) \in Nat
  BY LenProperties
<1>2. PICK n, k0, k1 : n = Len(t) /\ k0 = k - 1 /\ k1 = k + 1
  OBVIOUS
<1>3. PICK a \in Seq(Bodies) :
         /\ a = SubSeq(t, 1, k0)
         /\ Len(a) = IF 1 <= k0 THEN k0 - 1 + 1 ELSE 0
         /\ \A i \in 1..Len(a) : a[i] = t[1 + i - 1]
  <2>1. 1 \in 1..(Len(t) + 1) /\ k0 \in 0..Len(t)
    BY <1>1, <1>2
  <2>q. QED
    BY <2>1, Stretch
<1>4. PICK b \in Seq(Bodies) :
         /\ b = SubSeq(t, k1, n)
         /\ Len(b) = IF k1 <= n THEN n - k1 + 1 ELSE 0
         /\ \A i \in 1..Len(b) : b[i] = t[k1 + i - 1]
  <2>1. k1 \in 1..(Len(t) + 1) /\ n \in 0..Len(t)
    BY <1>1, <1>2
  <2>q. QED
    BY <2>1, Stretch
<1>5. PICK u : u = a \o b
  OBVIOUS
<1>6. u = RemoveAt(t, k)
  BY <1>2, <1>3, <1>4, <1>5 DEF RemoveAt
<1>7. /\ u \in Seq(Bodies) /\ Len(u) = Len(a) + Len(b)
      /\ \A i \in 1..Len(u) : u[i] = IF i <= Len(a) THEN a[i] ELSE b[i - Len(a)]
  BY <1>5, ConcatProperties
<1>8. Len(a) = k - 1 /\ Len(b) = n - k /\ Len(u) = n - 1 /\ n = Len(t) /\ n \in Nat
  <2>1. n \in Nat /\ n = Len(t) /\ k \in 1..n
    BY <1>1, <1>2
  <2>2. Len(a) = k - 1
    BY <1>2, <1>3, <2>1
  <2>3. Len(b) = n - k
    BY <1>2, <1>4, <2>1
  <2>q. QED
    BY <1>7, <2>1, <2>2, <2>3
<1>9. PICK f : f = [i \in 1..Len(u) |-> IF i < k THEN i ELSE i + 1]
  OBVIOUS
<1>10. ASSUME NEW i \in 1..Len(u)
       PROVE  f[i] \in 1..Len(t) /\ f[i] # k /\ u[i] = t[f[i]]
  <2>1. CASE i < k
    <3>1. f[i] = i /\ i \in 1..Len(a)
      BY <1>8, <1>9, <2>1
    <3>2. u[i] = a[i] /\ a[i] = t[1 + i - 1] /\ 1 + i - 1 = i
      BY <1>3, <1>7, <1>8, <3>1
    <3>q. QED
      BY <1>8, <2>1, <3>1, <3>2
  <2>2. CASE ~(i < k)
    <3>1. f[i] = i + 1 /\ i - Len(a) \in 1..Len(b) /\ ~(i <= Len(a))
      BY <1>8, <1>9, <2>2
    <3>2. PICK j : j = i - Len(a)
      OBVIOUS
    <3>3. u[i] = b[j] /\ b[j] = t[k1 + j - 1]
      BY <1>4, <1>7, <3>1, <3>2
    <3>4. k1 + j - 1 = i + 1
      BY <1>2, <1>8, <3>2
    <3>5. i + 1 \in (1..Len(t)) \ {k}
      BY <1>8, <2>2
    <3>6. u[i] = t[i + 1]
      BY <3>3, <3>4
    <3>q. QED
      BY <3>1, <3>5, <3>6
  <2>q. QED
    BY <2>1, <2>2
<1>11. \A i, j \in 1..Len(u) : f[i] = f[j] => i = j
  BY <1>8, <1>9
<1>12. Neat(u)
  BY <1>10, <1>11, NeatPart, SMTT(60)
<1>13. \A i \in 1..Len(u) : \E j \in 1..Len(t) \ {k} : u[i] = t[j]
  BY <1>10
<1>q. QED
  BY <1>6, <1>7, <1>12, <1>13

\* A body goes behind those of other keys and senders.
LEMMA NeatAppend ==
    ASSUME NEW t \in Seq(Bodies), Neat(t), NEW b \in Bodies,
           \A g \in b.got : g[2] = b.key.val,
           \A i \in 1..Len(t) : t[i].from # b.from \/ t[i].key # b.key
    PROVE  Neat(Append(t, b)) /\ Append(t, b)[Len(Append(t, b))] = b
<1>1. PICK u : u = Append(t, b)
  OBVIOUS
<1>2. /\ Len(t) \in Nat /\ Len(u) = Len(t) + 1 /\ u[Len(t) + 1] = b
      /\ \A i \in 1..Len(t) : u[i] = t[i]
  BY <1>1, AppendProperties, LenProperties
<1>3. \A i \in 1..Len(u) : i \in 1..Len(t) \/ i = Len(t) + 1
  BY <1>2
<1>4. ASSUME NEW i \in 1..Len(u), NEW g \in u[i].got PROVE g[2] = u[i].key.val
  BY <1>2, <1>3, <1>4 DEF Neat
<1>5. ASSUME NEW i \in 1..Len(u), NEW j \in 1..Len(u),
             u[i].from = u[j].from, u[i].key = u[j].key
      PROVE  i = j
  <2>1. CASE i \in 1..Len(t) /\ j \in 1..Len(t)
    BY <1>2, <1>5, <2>1 DEF Neat
  <2>2. CASE i \in 1..Len(t) /\ j = Len(t) + 1
    BY <1>2, <1>5, <2>2
  <2>3. CASE i = Len(t) + 1 /\ j \in 1..Len(t)
    BY <1>2, <1>5, <2>3
  <2>q. QED
    BY <1>3, <2>1, <2>2, <2>3
<1>6. Neat(u)
  BY <1>4, <1>5 DEF Neat
<1>q. QED
  BY <1>1, <1>2, <1>6

\* After a chunk its body is the last of the table, which is still neat.
LEMMA ChunkNeat ==
    ASSUME NEW table \in Seq(Bodies), Neat(table), Len(table) <= AssemblyCap,
           NEW from \in Nodes, NEW chunk \in Packets, chunk.val = chunk.key.val
    PROVE  \E new \in Seq(Bodies), last \in Bodies :
              /\ new = WithChunk(table, from, chunk) /\ Neat(new)
              /\ Len(new) \in Nat \ {0} /\ last = new[Len(new)]
              /\ last.from = from /\ last.key = chunk.key
              /\ <<chunk.part, chunk.val>> \in last.got
<1>1. PICK new : new = WithChunk(table, from, chunk)
  OBVIOUS
<1>2. new \in Seq(Bodies) /\ Len(new) \in Nat \ {0}
  BY <1>1, ChunkFits, BoundsAssumption
<1>3. /\ Len(table) \in Nat /\ DOMAIN table = 1..Len(table)
      /\ \A j \in 1..Len(table) : table[j] \in Bodies
  BY LenProperties, ElementOfSeq
<1>4. PICK part, mine : /\ part = <<chunk.part, chunk.val>>
                        /\ mine = {i \in DOMAIN table : Matches(table[i], from, chunk.key)}
  OBVIOUS
<1>5. /\ part \in Parts \X (0..MaxVal) /\ part[1] = chunk.part /\ part[2] = chunk.key.val
      /\ chunk.key \in Keys
  BY <1>4 DEF Packets
<1>6. CASE mine = {}
  <2>1. PICK b : b = [from |-> from, key |-> chunk.key, got |-> {part}]
    OBVIOUS
  <2>2. /\ b \in Bodies /\ b.from = from /\ b.key = chunk.key /\ b.got = {part}
    BY <1>5, <2>1 DEF Bodies
  <2>3. PICK rest \in Seq(Bodies) :
           /\ rest = Places(table) /\ Neat(rest)
           /\ \A i \in 1..Len(rest) : \E j \in 1..Len(table) : rest[i] = table[j]
    <3>1. CASE Len(table) < AssemblyCap
      BY <3>1 DEF Places
    <3>2. CASE ~(Len(table) < AssemblyCap)
      <4>1. table # <<>>
        BY <1>3, <3>2, EmptySeq, BoundsAssumption
      <4>2. PICK rest : rest = Tail(table)
        OBVIOUS
      <4>3. /\ rest \in Seq(Bodies) /\ Len(rest) = Len(table) - 1
            /\ \A i \in 1..Len(rest) : rest[i] = table[i + 1]
        BY <4>1, <4>2, HeadTailProperties
      <4>4. PICK f : f = [i \in 1..Len(rest) |-> i + 1]
        OBVIOUS
      <4>5. \A i \in 1..Len(rest) : f[i] \in 1..Len(table) /\ rest[i] = table[f[i]]
        BY <1>3, <4>3, <4>4
      <4>6. \A i, j \in 1..Len(rest) : f[i] = f[j] => i = j
        BY <4>4
      <4>7. Neat(rest)
        BY <4>5, <4>6, NeatPart
      <4>8. rest = Places(table)
        BY <3>2, <4>2 DEF Places
      <4>9. \A i \in 1..Len(rest) : \E j \in 1..Len(table) : rest[i] = table[j]
        BY <4>5
      <4>q. QED
        BY <4>3, <4>7, <4>8, <4>9
    <3>q. QED
      BY <3>1, <3>2
  <2>4. new = Append(rest, b)
    BY <1>1, <1>4, <1>6, <2>1, <2>3 DEF WithChunk
  <2>5. \A j \in 1..Len(table) : table[j].from # b.from \/ table[j].key # b.key
    BY <1>3, <1>4, <1>6, <2>2 DEF Matches
  <2>6. \A i \in 1..Len(rest) : rest[i].from # b.from \/ rest[i].key # b.key
    BY <2>3, <2>5
  <2>7. \A g \in b.got : g[2] = b.key.val
    BY <1>5, <2>2
  <2>8. Neat(new) /\ new[Len(new)] = b
    BY <2>2, <2>3, <2>4, <2>6, <2>7, NeatAppend
  <2>q. QED
    BY <1>1, <1>2, <1>4, <2>2, <2>8
<1>7. CASE mine # {}
  <2>1. PICK i : i = CHOOSE k \in mine : TRUE
    OBVIOUS
  <2>2. i \in mine
    BY <1>7, <2>1
  <2>3. /\ i \in 1..Len(table) /\ table[i] \in Bodies
        /\ table[i].from = from /\ table[i].key = chunk.key
    BY <1>3, <1>4, <2>2 DEF Matches
  <2>4. PICK got : got = {g \in table[i].got : g[1] # chunk.part}
    OBVIOUS
  <2>5. PICK b : b = [table[i] EXCEPT !.got = got \cup {part}]
    OBVIOUS
  <2>6. /\ b \in Bodies /\ b.from = from /\ b.key = chunk.key /\ b.got = got \cup {part}
    <3>1. got \cup {part} \in SUBSET (Parts \X (0..MaxVal))
      BY <1>5, <2>3, <2>4 DEF Bodies
    <3>q. QED
      BY <2>3, <2>5, <3>1 DEF Bodies
  <2>7. PICK rest \in Seq(Bodies) :
           /\ rest = RemoveAt(table, i) /\ Neat(rest)
           /\ \A k \in 1..Len(rest) : \E j \in 1..Len(table) \ {i} : rest[k] = table[j]
    BY <2>3, Without
  <2>8. new = Append(rest, b)
    BY <1>1, <1>4, <1>7, <2>1, <2>4, <2>5, <2>7 DEF WithChunk
  <2>9. \A j \in 1..Len(table) \ {i} : table[j].from # b.from \/ table[j].key # b.key
    BY <2>3, <2>6 DEF Neat
  <2>10. \A k \in 1..Len(rest) : rest[k].from # b.from \/ rest[k].key # b.key
    BY <2>7, <2>9
  <2>11. \A g \in b.got : g[2] = b.key.val
    BY <1>5, <2>3, <2>4, <2>6 DEF Neat
  <2>12. Neat(new) /\ new[Len(new)] = b
    BY <2>6, <2>7, <2>8, <2>10, <2>11, NeatAppend
  <2>q. QED
    BY <1>1, <1>2, <1>4, <2>6, <2>12
<1>q. QED
  BY <1>6, <1>7

LEMMA FrontNeat ==
    ASSUME NEW t \in Seq(Bodies), Neat(t), Len(t) \in Nat \ {0}
    PROVE  \E u \in Seq(Bodies) :
              /\ u = Front(t) /\ Neat(u) /\ Len(u) = Len(t) - 1
              /\ \A i \in 1..(Len(t) - 1) : u[i] = t[i]
<1>1. PICK one, n : one = 1 /\ n = Len(t) - 1
  OBVIOUS
<1>2. one \in 1..(Len(t) + 1) /\ n \in 0..Len(t)
  BY <1>1
<1>3. PICK u \in Seq(Bodies) :
         /\ u = SubSeq(t, one, n)
         /\ Len(u) = IF one <= n THEN n - one + 1 ELSE 0
         /\ \A i \in 1..Len(u) : u[i] = t[one + i - 1]
  BY <1>2, Stretch
<1>4. Neat(u)
  BY <1>2, <1>3, NeatStretch
<1>5. u = Front(t)
  BY <1>1, <1>3 DEF Front
<1>6. Len(u) = Len(t) - 1
  BY <1>1, <1>2, <1>3
<1>7. \A i \in 1..(Len(t) - 1) : u[i] = t[i]
  BY <1>1, <1>3, <1>6
<1>q. QED
  BY <1>3, <1>4, <1>5, <1>6, <1>7

\* The chunk at the head of a link to the host, and those behind it.
LEMMA HeadOfLink ==
    ASSUME IInv, ChunksOK, NEW k \in Nodes, NEW n \in Nodes, net[k][n] # <<>>
    PROVE  \E q \in Seq(Packets), chunk \in Packets :
              /\ q = net[k][n] /\ chunk = Head(q) /\ chunk = q[1]
              /\ chunk.val = chunk.key.val /\ Len(q) \in Nat \ {0}
              /\ Tail(q) \in Seq(Packets) /\ Len(Tail(q)) = Len(q) - 1
              /\ \A i \in 1..(Len(q) - 1) : Tail(q)[i] = q[i + 1]
<1>1. PICK q \in Seq(Packets) : q = net[k][n]
  BY DEF IInv, NetOK
<1>2. PICK chunk : chunk = Head(q)
  OBVIOUS
<1>3. /\ Len(q) \in Nat \ {0} /\ chunk = q[1] /\ Tail(q) \in Seq(Packets)
      /\ Len(Tail(q)) = Len(q) - 1 /\ \A i \in 1..Len(Tail(q)) : Tail(q)[i] = q[i + 1]
  BY <1>1, <1>2, EmptySeq, LenProperties, HeadTailProperties
<1>4. 1 \in 1..Len(q)
  BY <1>3
<1>5. chunk \in Packets
  BY <1>3, <1>4, ElementOfSeq
<1>6. chunk.val = chunk.key.val
  BY <1>1, <1>3, <1>4 DEF ChunksOK
<1>q. QED
  BY <1>1, <1>2, <1>3, <1>5, <1>6

-----------------------------------------------------------------------------
(* The host takes a chunk. *)

\* The table stays neat.  What had its first chunk in it still has, or is whole and
\* goes to the store, but for members for which something has gone wrong; the
\* first chunk of a body gets it there, the last one completes it.
LEMMA ChunkAtHost ==
    ASSUME IInv, TypeInv, ChunksOK, TableNeat, NEW k \in Nodes, TakeChunk(Host, k)
    PROVE  /\ TableNeat'
           /\ \A key \in Keys : key.owner \in Members \ history'.upset =>
                 /\ key \in Begun => key \in Begun' \cup Arrived(Host)'
                 /\ key.owner = k /\ key.seq = authority /\ net[k][Host][1].key = key =>
                       /\ net[k][Host][1].part = "first" => key \in Begun' \cup Arrived(Host)'
                       /\ net[k][Host][1].part = "last" /\ key \in Begun
                             => key \in Arrived(Host)'
<1>a. PICK q \in Seq(Packets), chunk \in Packets :
         /\ q = net[k][Host] /\ chunk = Head(q) /\ chunk = q[1]
         /\ chunk.val = chunk.key.val /\ Len(q) \in Nat \ {0}
         /\ Tail(q) \in Seq(Packets) /\ Len(Tail(q)) = Len(q) - 1
         /\ \A i \in 1..(Len(q) - 1) : Tail(q)[i] = q[i + 1]
  BY NodeFacts, HeadOfLink DEF TakeChunk
<1>b. /\ chunk = Head(net[k][Host]) /\ chunk = net[k][Host][1]
      /\ ctl[Host].pc = "idle" /\ chunk.val = chunk.key.val
  BY <1>a DEF TakeChunk
<1>c. Drop(Host, k, chunk) \/ Assemble(Host, k, chunk)
  BY <1>b DEF TakeChunk
<1>d. CASE Drop(Host, k, chunk)
  <2>1. UNCHANGED assembly /\ ~(chunk.key.owner = k /\ chunk.key.seq = authority)
    BY <1>d DEF Drop, Accepts
  <2>2. Begun' = Begun
    BY <2>1 DEF Begun
  <2>3. TableNeat'
    BY <2>1 DEF TableNeat, Neat
  <2>q. QED
    BY <1>b, <2>1, <2>2, <2>3
<1>e. CASE Assemble(Host, k, chunk)
  <2>1. PICK old : old = assembly[Host]
    OBVIOUS
  <2>2. old \in Seq(Bodies) /\ Len(old) <= AssemblyCap /\ Len(old) \in Nat /\ Neat(old)
    BY <2>1, NodeFacts, LenProperties DEF TypeInv, TableOK, TableNeat
  <2>3. PICK expired, table :
           /\ expired \in 0..Len(old)
           /\ table = WithChunk(SubSeq(old, expired + 1, Len(old)), k, chunk)
           /\ IF expired # 0 THEN Upset(Discarded(old, table))
              ELSE history' = [history EXCEPT !.upset = @ \cup Discarded(old, table)]
           /\ assembly' = [assembly EXCEPT ![Host] =
                             IF Complete(Last(table)) THEN Front(table) ELSE table]
           /\ ctl' = IF Complete(Last(table)) /\ Exact(Last(table), chunk.key)
                     THEN [ctl EXCEPT ![Host].pc = "store", ![Host].key =
                             [chunk.key EXCEPT !.val = Body(Last(table))]]
                     ELSE ctl
    BY <1>e, <2>1 DEF Assemble
  <2>4. PICK rest : rest = SubSeq(old, expired + 1, Len(old))
    OBVIOUS
  <2>5. rest \in Seq(Bodies) /\ Len(rest) <= AssemblyCap /\ Neat(rest)
    <3>1. PICK first, end : first = expired + 1 /\ end = Len(old)
      OBVIOUS
    <3>2. first \in 1..(Len(old) + 1) /\ end \in 0..Len(old)
      BY <2>2, <2>3, <3>1
    <3>3. PICK u \in Seq(Bodies) :
             /\ u = SubSeq(old, first, end)
             /\ Len(u) = IF first <= end THEN end - first + 1 ELSE 0
             /\ \A i \in 1..Len(u) : u[i] = old[first + i - 1]
      BY <2>2, <3>2, Stretch
    <3>4. u = rest
      BY <2>4, <3>1, <3>3
    <3>5. Neat(u)
      BY <2>2, <3>2, <3>3, NeatStretch
    <3>6. Len(u) <= AssemblyCap
      BY <2>2, <3>1, <3>2, <3>3, BoundsAssumption
    <3>q. QED
      BY <3>3, <3>4, <3>5, <3>6
  <2>6. PICK new \in Seq(Bodies), last \in Bodies :
           /\ new = WithChunk(rest, k, chunk) /\ Neat(new)
           /\ Len(new) \in Nat \ {0} /\ last = new[Len(new)]
           /\ last.from = k /\ last.key = chunk.key
           /\ <<chunk.part, chunk.val>> \in last.got
    BY <1>b, <2>5, ChunkNeat
  <2>7. table = new /\ Last(table) = last
    BY <2>3, <2>4, <2>6 DEF Last
  <2>8. PICK lost : lost = Discarded(old, table)
    OBVIOUS
  <2>9. history.upset \subseteq history'.upset /\ lost \subseteq history'.upset
    <3>1. CASE Upset(lost)
      <4>1. history' = [history EXCEPT !.upsets = history.upsets + 1,
                                       !.upset = history.upset \cup lost]
        BY <3>1 DEF Upset
      <4>q. QED
        BY <4>1 DEF IInv, HistoryOK, Histories
    <3>2. CASE history' = [history EXCEPT !.upset = history.upset \cup lost]
      BY <3>2 DEF IInv, HistoryOK, Histories
    <3>q. QED
      BY <2>3, <2>8, <3>1, <3>2
  <2>10. ASSUME NEW i \in 1..Len(old), old[i].from \in Members \ history'.upset
         PROVE  \E j \in 1..Len(new) : /\ new[j].from = old[i].from /\ new[j].key = old[i].key
                                       /\ old[i].got \subseteq new[j].got
    <3>1. old[i].from \notin lost
      BY <2>9, <2>10
    <3>2. old[i] \in ToSet(old)
      BY <2>2, LenProperties DEF ToSet
    <3>3. \E b \in ToSet(new) : /\ b.from = old[i].from /\ b.key = old[i].key
                                /\ old[i].got \subseteq b.got
      BY <2>7, <2>8, <2>10, <3>1, <3>2 DEF Discarded, Matches
    <3>4. DOMAIN new = 1..Len(new)
      BY LenProperties
    <3>q. QED
      BY <3>3, <3>4 DEF ToSet
  <2>11. \A g \in last.got : g[2] = chunk.key.val
    <3>1. Len(new) \in 1..Len(new)
      BY <2>6
    <3>2. \A g \in new[Len(new)].got : g[2] = new[Len(new)].key.val
      BY <2>6, <3>1 DEF Neat
    <3>q. QED
      BY <2>6, <3>2
  <2>12. Exact(last, chunk.key)
    BY <2>11 DEF Exact
  <2>13. /\ ctl \in [Nodes -> Rounds] /\ Host \in Nodes /\ chunk.key \in Keys
         /\ assembly \in [Nodes -> Seq(Bodies)]
    BY NodeFacts DEF IInv, CtlOK, Packets, TypeInv, TableOK
  <2>14. \/ /\ Complete(last) /\ assembly'[Host] = Front(new)
            /\ Arrived(Host)' = {chunk.key}
         \/ ~Complete(last) /\ assembly'[Host] = new /\ Arrived(Host)' = {}
    <3>1. CASE Complete(last)
      <4>1. assembly'[Host] = Front(new)
        BY <2>3, <2>7, <2>13, <3>1
      <4>2. PICK body : body = Body(last)
        OBVIOUS
      <4>3. body = chunk.key.val
        BY <2>12, <3>1, <4>2, BodyIsAnnounced
      <4>4. [chunk.key EXCEPT !.val = body] = chunk.key
        BY <2>13, <4>3 DEF Keys
      <4>5. ctl' = [ctl EXCEPT ![Host].pc = "store", ![Host].key = chunk.key]
        BY <2>3, <2>7, <2>12, <3>1, <4>2, <4>4
      <4>6. ctl'[Host].pc = "store" /\ ctl'[Host].key = chunk.key
        BY <2>13, <4>5 DEF Rounds
      <4>7. Arrived(Host)' = {chunk.key}
        BY <4>6 DEF Arrived
      <4>q. QED
        BY <3>1, <4>1, <4>7
    <3>2. CASE ~Complete(last)
      <4>1. assembly'[Host] = new /\ ctl' = ctl
        BY <2>3, <2>7, <2>13, <3>2
      <4>2. Arrived(Host)' = {}
        BY <1>b, <4>1 DEF Arrived
      <4>q. QED
        BY <3>2, <4>1, <4>2
    <3>q. QED
      BY <3>1, <3>2
  <2>15. PICK u \in Seq(Bodies) :
             /\ u = Front(new) /\ Neat(u) /\ Len(u) = Len(new) - 1
             /\ \A i \in 1..(Len(new) - 1) : u[i] = new[i]
    BY <2>6, FrontNeat
  <2>16. PICK left : left = assembly'[Host]
    OBVIOUS
  <2>17. left = u \/ (left = new /\ ~Complete(last))
    BY <2>14, <2>15, <2>16
  <2>18. TableNeat'
    <3>1. Neat(left)
      BY <2>6, <2>15, <2>17
    <3>q. QED
      BY <2>16, <3>1 DEF TableNeat, Neat
  <2>19. ASSUME NEW key \in Keys, NEW j \in 1..Len(new), new[j].from = key.owner,
                new[j].key = key, <<"first", key.val>> \in new[j].got
         PROVE  key \in Begun' \cup Arrived(Host)'
    <3>1. CASE left = new
      BY <2>16, <2>19, <3>1 DEF Begun
    <3>2. CASE left = u /\ j # Len(new)
      <4>1. j \in 1..Len(u) /\ u[j] = new[j]
        BY <2>6, <2>15, <3>2
      <4>q. QED
        BY <2>16, <2>19, <3>2, <4>1 DEF Begun
    <3>3. CASE j = Len(new) /\ left # new
      <4>1. key = chunk.key
        BY <2>6, <2>19, <3>3
      <4>2. Arrived(Host)' = {chunk.key}
        BY <2>14, <2>16, <3>3
      <4>q. QED
        BY <4>1, <4>2
    <3>q. QED
      BY <2>17, <3>1, <3>2, <3>3
  <2>20. ASSUME NEW key \in Keys, key.owner \in Members \ history'.upset, key \in Begun
         PROVE  \E j \in 1..Len(new) : /\ new[j].from = key.owner /\ new[j].key = key
                                       /\ <<"first", key.val>> \in new[j].got
    <3>1. PICK i \in 1..Len(old) : /\ old[i].from = key.owner /\ old[i].key = key
                                   /\ <<"first", key.val>> \in old[i].got
      BY <2>1, <2>20 DEF Begun
    <3>2. PICK j \in 1..Len(new) : /\ new[j].from = old[i].from /\ new[j].key = old[i].key
                                   /\ old[i].got \subseteq new[j].got
      BY <2>10, <2>20, <3>1
    <3>q. QED
      BY <3>1, <3>2
  <2>21. ASSUME NEW key \in Keys, key.owner = k, chunk.key = key, chunk.part = "first"
         PROVE  key \in Begun' \cup Arrived(Host)'
    <3>1. Len(new) \in 1..Len(new)
      BY <2>6
    <3>2. new[Len(new)].from = key.owner /\ new[Len(new)].key = key
      BY <2>6, <2>21
    <3>3. <<chunk.part, chunk.val>> = <<"first", key.val>>
      BY <1>b, <2>21
    <3>4. <<"first", key.val>> \in new[Len(new)].got
      BY <2>6, <3>3
    <3>q. QED
      BY <2>19, <3>1, <3>2, <3>4
  <2>22. ASSUME NEW key \in Keys, key.owner \in Members \ history'.upset, key \in Begun,
                key.owner = k, chunk.key = key, chunk.part = "last"
         PROVE  key \in Arrived(Host)'
    <3>1. PICK j \in 1..Len(new) : /\ new[j].from = key.owner /\ new[j].key = key
                                   /\ <<"first", key.val>> \in new[j].got
      BY <2>20, <2>22
    <3>2. j = Len(new)
      <4>1. Len(new) \in 1..Len(new)
        BY <2>6
      <4>2. new[Len(new)].from = new[j].from /\ new[Len(new)].key = new[j].key
        BY <2>6, <2>22, <3>1
      <4>q. QED
        BY <2>6, <4>1, <4>2 DEF Neat
    <3>3. <<"first", key.val>> \in last.got /\ <<"last", key.val>> \in last.got
      BY <1>b, <2>6, <2>22, <3>1, <3>2
    <3>4. \A g \in last.got : g[1] \in Parts
      BY DEF Bodies
    <3>5. Complete(last)
      <4>1. PICK a, b : a = <<"first", key.val>> /\ b = <<"last", key.val>>
        OBVIOUS
      <4>2. a \in last.got /\ b \in last.got /\ a[1] = "first" /\ b[1] = "last"
        BY <3>3, <4>1
      <4>q. QED
        BY <3>4, <4>2 DEF Complete, Parts
    <3>q. QED
      BY <2>14, <2>22, <3>5
  <2>q. QED
    BY <1>b, <2>18, <2>19, <2>20, <2>21, <2>22
<1>q. QED
  BY <1>c, <1>d, <1>e

\* Chunks that others take, or that are taken by others, change nothing at the host.
LEMMA TakeChunkNeat ==
    ASSUME IInv, TypeInv, ChunksOK, TableNeat, NEW n \in Nodes, NEW m \in Nodes,
           TakeChunk(n, m)
    PROVE  ChunksOK' /\ TableNeat' /\ (n # Host => assembly'[Host] = assembly[Host])
<1>1. PICK q \in Seq(Packets), chunk \in Packets :
         /\ q = net[m][n] /\ chunk = Head(q) /\ chunk = q[1]
         /\ chunk.val = chunk.key.val /\ Len(q) \in Nat \ {0}
         /\ Tail(q) \in Seq(Packets) /\ Len(Tail(q)) = Len(q) - 1
         /\ \A i \in 1..(Len(q) - 1) : Tail(q)[i] = q[i + 1]
  BY HeadOfLink DEF TakeChunk
<1>2. net' = [net EXCEPT ![m][n] = Tail(q)] /\ net \in [Nodes -> [Nodes -> Seq(Packets)]]
  BY <1>1 DEF TakeChunk, IInv, NetOK
<1>3. ASSUME NEW k \in Nodes, NEW l \in Nodes, NEW i \in 1..Len(net'[k][l])
      PROVE  net'[k][l][i].val = net'[k][l][i].key.val
  <2>1. CASE k = m /\ l = n
    <3>1. net'[k][l] = Tail(q) /\ net[k][l] = q
      BY <1>1, <1>2, <2>1
    <3>2. i \in 1..(Len(q) - 1) /\ i + 1 \in 1..Len(q) /\ Tail(q)[i] = q[i + 1]
      BY <1>1, <3>1
    <3>3. q[i + 1].val = q[i + 1].key.val
      BY <3>1, <3>2 DEF ChunksOK
    <3>q. QED
      BY <3>1, <3>2, <3>3
  <2>2. CASE ~(k = m /\ l = n)
    <3>1. net'[k][l] = net[k][l]
      BY <1>2, <2>2
    <3>q. QED
      BY <3>1 DEF ChunksOK
  <2>q. QED
    BY <2>1, <2>2
<1>4. ChunksOK'
  BY <1>3 DEF ChunksOK
<1>5. CASE n = Host
  BY <1>4, <1>5, ChunkAtHost
<1>6. CASE n # Host
  <2>1. Drop(n, m, chunk) \/ Assemble(n, m, chunk)
    BY <1>1 DEF TakeChunk
  <2>2. assembly' = assembly \/ \E t : assembly' = [assembly EXCEPT ![n] = t]
    BY <2>1 DEF Drop, Assemble
  <2>3. assembly'[Host] = assembly[Host]
    BY <1>6, <2>2, NodeFacts DEF TypeInv, TableOK
  <2>q. QED
    BY <1>4, <1>6, <2>3 DEF TableNeat, Neat
<1>q. QED
  BY <1>5, <1>6

-----------------------------------------------------------------------------
(* What was sent stays sent. *)

\* Unless something happens to the owner's link or its copy at the host.
LEMMA SentStays ==
    ASSUME NEW key \in Sent, key \in Keys, authority' = authority,
           Begun \subseteq Begun', Arrived(Host)' = Arrived(Host),
           hot'[Host][key.owner].seq = hot[Host][key.owner].seq,
           hot'[Host][key.owner].rev = hot[Host][key.owner].rev,
           \A i \in 1..Len(net[key.owner][Host]) :
              /\ i \in 1..Len(net'[key.owner][Host])
              /\ net'[key.owner][Host][i] = net[key.owner][Host][i]
    PROVE  key \in Sent'
<1>1. CASE key \in Arrived(Host)
  BY <1>1 DEF Sent
<1>2. CASE key \in AtHost
  BY <1>2 DEF Sent, AtHost
<1>3. CASE key \in OnWay
  <2>1. PICK j \in 1..Len(net[key.owner][Host]) :
           /\ At(key, j, "last")
           /\ key \in Begun \/ \E i \in 1..(j - 1) : At(key, i, "first")
    BY <1>3 DEF OnWay
  <2>2. j \in 1..Len(net'[key.owner][Host]) /\ At(key, j, "last")'
    BY <2>1 DEF At
  <2>3. CASE key \in Begun
    BY <2>2, <2>3 DEF Sent, OnWay
  <2>4. CASE \E i \in 1..(j - 1) : At(key, i, "first")
    <3>1. PICK i \in 1..(j - 1) : At(key, i, "first")
      BY <2>4
    <3>2. i \in 1..Len(net[key.owner][Host])
      BY <2>1
    <3>3. At(key, i, "first")'
      BY <3>1, <3>2 DEF At
    <3>q. QED
      BY <2>2, <3>3 DEF Sent, OnWay
  <2>q. QED
    BY <2>1, <2>3, <2>4
<1>q. QED
  BY <1>1, <1>2, <1>3 DEF Sent

\* The host takes a chunk: it may be the first or the last of the key.
LEMMA TakeChunkDelivers ==
    ASSUME IInv, TypeInv, ChunksOK, TableNeat, NEW k \in Nodes, TakeChunk(Host, k),
           NEW key \in Sent, key \in Keys, key.owner \in Members \ history'.upset,
           key.seq = authority
    PROVE  key \in Sent'
<1>1. /\ key \in Begun => key \in Begun' \cup Arrived(Host)'
      /\ key.owner = k /\ net[k][Host][1].key = key =>
            /\ net[k][Host][1].part = "first" => key \in Begun' \cup Arrived(Host)'
            /\ net[k][Host][1].part = "last" /\ key \in Begun => key \in Arrived(Host)'
  BY ChunkAtHost
<1>2. Arrived(Host) = {} /\ UNCHANGED <<hot, authority>>
  BY DEF TakeChunk, Arrived
<1>3. CASE key \in AtHost
  <2>1. \A next \in Arrived(Host)' : next.seq = authority
    <3>1. PICK c \in OnLink(k, Host) :
              /\ \A l, m \in Nodes : OnLink(l, m)' \subseteq OnLink(l, m)
              /\ \A l \in Nodes : Carried(l)' = Carried(l)
              /\ \A l \in Nodes \ {Host} : Arrived(l)' = Arrived(l)
              /\ Arrived(Host)' = {} \/ (Arrived(Host)' = {c} /\ Accepts(Host, k, c))
              /\ receipt' = receipt
                 \/ (Host # Host /\ receipt[Host] <= c.seq
                     /\ receipt' = [receipt EXCEPT ![Host] = c.seq])
              /\ ctl'[Host].pc \in {"idle", "store"}
              /\ \A l \in Nodes : /\ ctl'[l].peers = ctl[l].peers
                                  /\ l # Host => ctl'[l] = ctl[l]
              /\ history'.made = history.made /\ history'.blank = history.blank
      BY NodeFacts, ChunkFlows
    <3>q. QED
      BY <3>1 DEF Accepts
  <2>q. QED
    BY <1>2, <1>3, <2>1 DEF Sent, AtHost
<1>4. CASE key \in OnWay
  <2>1. PICK o : o = key.owner /\ o \in Nodes
    BY NodeFacts
  <2>2. PICK j \in 1..Len(net[o][Host]) :
           /\ At(key, j, "last")
           /\ key \in Begun \/ \E i \in 1..(j - 1) : At(key, i, "first")
    BY <1>4, <2>1 DEF OnWay
  <2>3. CASE k # o
    <3>1. net'[o][Host] = net[o][Host]
      BY <2>1, <2>3, NodeFacts DEF TakeChunk, IInv, NetOK
    <3>2. At(key, j, "last")' /\ \A i : At(key, i, "first")' <=> At(key, i, "first")
      BY <2>1, <2>2, <3>1 DEF At
    <3>3. CASE key \in Begun
      BY <1>1, <2>1, <2>2, <3>1, <3>2, <3>3 DEF Sent, OnWay
    <3>4. CASE \E i \in 1..(j - 1) : At(key, i, "first")
      BY <2>1, <2>2, <3>1, <3>2, <3>4 DEF Sent, OnWay
    <3>q. QED
      BY <2>2, <3>3, <3>4
  <2>4. CASE k = o
    <3>1. PICK q \in Seq(Packets), chunk \in Packets :
             /\ q = net[k][Host] /\ chunk = Head(q) /\ chunk = q[1]
             /\ chunk.val = chunk.key.val /\ Len(q) \in Nat \ {0}
             /\ Tail(q) \in Seq(Packets) /\ Len(Tail(q)) = Len(q) - 1
             /\ \A i \in 1..(Len(q) - 1) : Tail(q)[i] = q[i + 1]
      BY NodeFacts, HeadOfLink DEF TakeChunk
    <3>2. net'[o][Host] = Tail(q)
      BY <2>1, <2>4, <3>1, NodeFacts DEF TakeChunk, IInv, NetOK
    <3>3. CASE j = 1
      <4>1. key \in Begun
        BY <2>2, <3>3
      <4>2. net[k][Host][1].key = key /\ net[k][Host][1].part = "last"
        BY <2>1, <2>2, <2>4, <3>3 DEF At
      <4>q. QED
        BY <1>1, <2>1, <2>4, <4>1, <4>2 DEF Sent
    <3>4. CASE j # 1
      <4>1. j - 1 \in 1..Len(Tail(q)) /\ Tail(q)[j - 1] = q[j]
        <5>1. j - 1 \in 1..(Len(q) - 1) /\ (j - 1) + 1 = j
          BY <2>1, <2>2, <2>4, <3>1, <3>4
        <5>q. QED
          BY <3>1, <5>1
      <4>2. At(key, j - 1, "last")' /\ j - 1 \in 1..Len(net'[o][Host])
        BY <2>1, <2>2, <2>4, <3>1, <3>2, <4>1 DEF At
      <4>3. CASE key \in Begun
        BY <1>1, <2>1, <4>2, <4>3 DEF Sent, OnWay
      <4>4. CASE \E i \in 1..(j - 1) : At(key, i, "first")
        <5>1. PICK i \in 1..(j - 1) : At(key, i, "first")
          BY <4>4
        <5>2. CASE i = 1
          <6>1. net[k][Host][1].key = key /\ net[k][Host][1].part = "first"
            BY <2>1, <2>4, <5>1, <5>2 DEF At
          <6>2. key \in Begun' \cup Arrived(Host)'
            BY <1>1, <2>1, <2>4, <6>1
          <6>q. QED
            BY <2>1, <4>2, <6>2 DEF Sent, OnWay
        <5>3. CASE i # 1
          <6>1. /\ i - 1 \in 1..((j - 1) - 1) /\ i - 1 \in 1..(Len(q) - 1)
                /\ (i - 1) + 1 = i
            BY <2>1, <2>2, <2>4, <3>1, <5>1, <5>3
          <6>2. Tail(q)[i - 1] = q[i]
            BY <3>1, <6>1
          <6>3. At(key, i - 1, "first")'
            BY <2>1, <2>4, <3>1, <3>2, <5>1, <6>2 DEF At
          <6>q. QED
            BY <2>1, <4>2, <6>1, <6>3 DEF Sent, OnWay
        <5>q. QED
          BY <5>2, <5>3
      <4>q. QED
        BY <2>2, <4>3, <4>4
    <3>q. QED
      BY <3>3, <3>4
  <2>q. QED
    BY <2>3, <2>4
<1>q. QED
  BY <1>2, <1>3, <1>4 DEF Sent

\* A store brings the entry to the generation and, at least, the revision asked for.
LEMMA StoredReaches ==
    ASSUME NEW old \in Snapshots, NEW seq \in Nat, NEW rev \in Nat \ {0}, NEW val \in Nat,
           NEW flag \in BOOLEAN
    PROVE  \E new \in {Stored(old, seq, rev, val, flag)} :
              /\ new.seq = seq /\ rev <= new.rev
              /\ old.seq = seq => old.rev <= new.rev
<1>1. PICK new : new = Stored(old, seq, rev, val, flag)
  OBVIOUS
<1>2. old.rev \in Nat /\ old.seq \in Nat /\ old.val \in Nat
  BY DEF Snapshots
<1>3. CASE old.seq = seq /\ (Refused(old, rev, val) \/ Unchanged(old, rev, val))
  <2>1. new = old
    BY <1>1, <1>3 DEF Stored
  <2>2. rev <= old.rev
    BY <1>2, <1>3 DEF Refused, Unchanged
  <2>q. QED
    BY <1>1, <1>2, <1>3, <2>1, <2>2
<1>4. CASE ~(old.seq = seq /\ (Refused(old, rev, val) \/ Unchanged(old, rev, val)))
  <2>1. PICK e : e = IF old.seq = seq THEN old ELSE NoSnapshot
    OBVIOUS
  <2>2. Numbered(e, rev) = rev
    BY DEF Numbered
  <2>3. new = Snapshot(seq, rev, val, flag)
    BY <1>1, <1>4, <2>1, <2>2 DEF Stored
  <2>4. new.seq = seq /\ new.rev = rev
    BY <2>3 DEF Snapshot
  <2>5. old.seq = seq => old.rev <= rev
    BY <1>2, <1>4 DEF Refused
  <2>q. QED
    BY <1>1, <1>2, <2>4, <2>5
<1>q. QED
  BY <1>3, <1>4

\* The host stores what arrived: the key itself, or another one of its generation.
LEMMA StoreReceivedDelivers ==
    ASSUME IInv, StoreReceived(Host), NEW key \in Sent, key \in Keys,
           key.owner \in Members, key.seq = authority
    PROVE  key \in Sent'
<1>1. PICK next, o, seq, rev, val, flag :
         /\ next = ctl[Host].key /\ o = next.owner /\ seq = next.seq /\ rev = next.rev
         /\ val = next.val /\ flag \in BOOLEAN /\ flag = (Host = Host)
  <2>1. (Host = Host) \in BOOLEAN
    OBVIOUS
  <2>q. QED
    BY <2>1
<1>2. Genuine(next) /\ Arrived(Host) = {next}
  BY <1>1, NodeFacts DEF IInv, CtlOK, Arrived, StoreReceived
<1>3. /\ o \in Nodes /\ seq \in Nat /\ rev \in Nat \ {0} /\ val \in Nat
  BY <1>1, <1>2, GenuineFacts
<1>4. PICK old : old = hot[Host][o] /\ old \in Snapshots
  BY <1>3, NodeFacts, EntryFacts
<1>5. PICK new \in {Stored(old, seq, rev, val, flag)} :
              /\ new.seq = seq /\ rev <= new.rev
              /\ old.seq = seq => old.rev <= new.rev
  <2>1. flag \in BOOLEAN
    BY <1>1
  <2>2. old \in Snapshots /\ seq \in Nat /\ rev \in Nat \ {0} /\ val \in Nat
    BY <1>3, <1>4
  <2>q. QED
    BY <2>1, <2>2, StoredReaches
<1>6. hot' = [hot EXCEPT ![Host][o] = new]
  BY <1>1, <1>3, <1>4, <1>5, NodeFacts DEF StoreReceived, IInv, HotOK
<1>7. /\ hot'[Host][o] = new
      /\ \A p \in Nodes \ {o} : hot'[Host][p] = hot[Host][p]
  BY <1>3, <1>6, NodeFacts DEF IInv, HotOK
<1>8. Arrived(Host)' = {} /\ authority' = authority /\ UNCHANGED <<assembly, net>>
  BY NodeFacts, Defaults DEF StoreReceived, Arrived, IInv, CtlOK
<1>9. CASE key \in Arrived(Host)
  <2>1. key = next
    BY <1>2, <1>9
  <2>2. hot'[Host][key.owner].seq = key.seq /\ key.rev <= hot'[Host][key.owner].rev
    BY <1>1, <1>5, <1>7, <2>1
  <2>q. QED
    BY <1>8, <2>2 DEF Sent, AtHost
<1>10. CASE key \in AtHost
  <2>1. /\ hot[Host][key.owner].seq = key.seq /\ key.rev <= hot[Host][key.owner].rev
        /\ next.owner = key.owner => next.seq = authority
    BY <1>2, <1>10 DEF AtHost
  <2>2. hot'[Host][key.owner].seq = key.seq /\ key.rev <= hot'[Host][key.owner].rev
    <3>1. CASE key.owner = o
      <4>1. old.seq = key.seq /\ key.rev <= old.rev /\ seq = key.seq
        BY <1>1, <1>4, <2>1, <3>1
      <4>2. new.seq = key.seq /\ old.rev <= new.rev
        BY <1>5, <4>1
      <4>3. key.rev \in Int /\ old.rev \in Int /\ new.rev \in Int
        <5>1. hot'[Host][o] \in Snapshots
          BY <1>3, NodeFacts, StoreReceivedKeeps DEF IInv, HotOK
        <5>q. QED
          BY <1>4, <1>7, <5>1 DEF Keys, Snapshots
      <4>q. QED
        BY <1>7, <3>1, <4>1, <4>2, <4>3
    <3>2. CASE key.owner # o
      BY <1>7, <2>1, <3>2, NodeFacts
    <3>q. QED
      BY <3>1, <3>2
  <2>q. QED
    BY <1>8, <2>2 DEF Sent, AtHost
<1>11. CASE key \in OnWay
  BY <1>8, <1>11 DEF Sent, OnWay, Begun, At
<1>q. QED
  BY <1>9, <1>10, <1>11 DEF Sent

\* When another member's transport is cleared, the first chunks of a key stay in
\* the table.
LEMMA ClearTransportNeat ==
    ASSUME IInv, TypeInv, TableNeat, NEW m \in Nodes, ClearTransport(Host, m)
    PROVE  /\ TableNeat'
           /\ \A key \in Begun : key.owner # m => key \in Begun'
<1>1. PICK table : table = assembly[Host]
  OBVIOUS
<1>2. table \in Seq(Bodies) /\ Neat(table)
  BY <1>1, NodeFacts DEF TypeInv, TableOK, TableNeat
<1>3. Len(table) \in Nat /\ DOMAIN table = 1..Len(table)
  BY <1>2, LenProperties
<1>4. PICK keep, c : /\ keep = {i \in DOMAIN table : table[i].from # m}
                     /\ c = Cardinality(keep)
  OBVIOUS
<1>5. PICK place \in [1..c -> keep] :
         /\ \A i, j \in 1..c : i < j => place[i] < place[j]
         /\ assembly' = [assembly EXCEPT ![Host] = [i \in 1..c |-> table[place[i]]]]
  <2>1. keep = {i \in DOMAIN assembly[Host] : assembly[Host][i].from # m}
    BY <1>1, <1>4
  <2>2. PICK place \in [1..Cardinality(keep) -> keep] :
           /\ \A i, j \in DOMAIN place : i < j => place[i] < place[j]
           /\ assembly' = [assembly EXCEPT ![Host] =
                             [i \in DOMAIN place |-> assembly[Host][place[i]]]]
    BY <2>1 DEF ClearTransport
  <2>3. place \in [1..c -> keep] /\ DOMAIN place = 1..c
    BY <1>4, <2>2
  <2>q. QED
    BY <1>1, <2>2, <2>3
<1>6. IsFiniteSet(keep) /\ c \in Nat /\ keep \subseteq 1..Len(table)
  <2>1. IsFiniteSet(1..Len(table))
    BY <1>3, FS_Interval
  <2>2. keep \in SUBSET (1..Len(table))
    BY <1>3, <1>4
  <2>3. IsFiniteSet(keep)
    BY <2>1, <2>2, FS_Subset
  <2>q. QED
    BY <1>4, <2>2, <2>3, FS_CardinalityType
<1>7. \A i, j \in 1..c : place[i] = place[j] => i = j
  <2>1. ASSUME NEW i \in 1..c, NEW j \in 1..c, place[i] = place[j] PROVE i = j
    <3>1. place[i] \in Int /\ place[j] \in Int
      <4>1. place[i] \in keep /\ place[j] \in keep
        BY <1>5
      <4>2. PICK a, b : a = place[i] /\ b = place[j]
        OBVIOUS
      <4>3. a \in 1..Len(table) /\ b \in 1..Len(table)
        BY <1>6, <4>1, <4>2
      <4>q. QED
        BY <1>3, <4>2, <4>3
    <3>2. ~(i < j) /\ ~(j < i)
      BY <1>5, <2>1, <3>1
    <3>q. QED
      BY <1>6, <3>2
  <2>q. QED
    BY <2>1
<1>8. \A k \in keep : \E i \in 1..c : place[i] = k
  <2>1. place \in Injection(1..c, keep)
    BY <1>5, <1>7 DEF Injection, IsInjective
  <2>2. IsFiniteSet(1..c) /\ Cardinality(1..c) = c
    BY <1>6, FS_Interval
  <2>3. place \in Surjection(1..c, keep)
    BY <1>4, <1>6, <2>1, <2>2, FS_Injection
  <2>q. QED
    BY <2>3 DEF Surjection
<1>9. PICK kept : kept = [i \in 1..c |-> table[place[i]]]
  OBVIOUS
<1>10. assembly'[Host] = kept
  BY <1>5, <1>9, NodeFacts DEF TypeInv, TableOK
<1>11. Len(kept) = c
  <2>1. \A i \in 1..c : table[place[i]] \in Bodies
    BY <1>2, <1>5, <1>6, ElementOfSeq
  <2>2. kept \in [1..c -> Bodies]
    BY <1>9, <2>1
  <2>3. kept \in Seq(Bodies)
    BY <1>6, <2>2, SeqDef
  <2>4. DOMAIN kept = 1..c /\ DOMAIN kept = 1..Len(kept) /\ Len(kept) \in Nat
    BY <2>2, <2>3, LenProperties
  <2>q. QED
    BY <1>6, <2>4
<1>12. \A i \in 1..Len(kept) : place[i] \in 1..Len(table) /\ kept[i] = table[place[i]]
  BY <1>5, <1>6, <1>9, <1>11
<1>13. TableNeat'
  <2>1. Neat(kept)
    BY <1>2, <1>7, <1>11, <1>12, NeatPart, SMTT(60)
  <2>q. QED
    BY <1>10, <2>1 DEF TableNeat, Neat
<1>14. ASSUME NEW key \in Begun, key.owner # m PROVE key \in Begun'
  <2>1. PICK k \in 1..Len(table) : /\ table[k].from = key.owner /\ table[k].key = key
                                   /\ <<"first", key.val>> \in table[k].got
    BY <1>1, <1>14 DEF Begun
  <2>2. PICK i \in 1..c : place[i] = k
    BY <1>3, <1>4, <1>8, <1>14, <2>1
  <2>3. i \in 1..Len(kept) /\ kept[i] = table[k]
    BY <1>9, <1>11, <2>2
  <2>q. QED
    BY <1>10, <1>14, <2>1, <2>3 DEF Begun
<1>q. QED
  BY <1>13, <1>14

\* Sending puts chunks behind those under way; it stays fit to be marked published
\* only if both went out.
LEMMA SendAppends ==
    ASSUME IInv, ChunksOK, NEW n \in Nodes, Send(n)
    PROVE  /\ ChunksOK'
           /\ \A k, l \in Nodes : \A i \in 1..Len(net[k][l]) :
                 i \in 1..Len(net'[k][l]) /\ net'[k][l][i] = net[k][l][i]
           /\ \A k \in Nodes \ {n} : ctl'[k] = ctl[k]
           /\ ctl'[n].pc = "send" /\ ctl'[n].key = ctl[n].key
           /\ \E p \in ctl[n].left :
                 /\ ctl'[n].left = ctl[n].left \ {p}
                 /\ ctl'[n].ok => \E j \in 1..Len(net'[n][p]) :
                       /\ j + 1 \in 1..Len(net'[n][p])
                       /\ net'[n][p][j].key = ctl[n].key /\ net'[n][p][j].part = "first"
                       /\ net'[n][p][j + 1].key = ctl[n].key
                       /\ net'[n][p][j + 1].part = "last"
<1>1. PICK p \in ctl[n].left, sent \in 0..2 :
         /\ net' = [net EXCEPT ![n][p] = @ \o SubSeq(Chunks(ctl[n].key), 1, sent)]
         /\ ctl' = [ctl EXCEPT ![n].left = @ \ {p}, ![n].ok = @ /\ sent = 2]
  BY DEF Send
<1>2. /\ ctl \in [Nodes -> Rounds] /\ p \in Nodes /\ ctl[n].key \in Keys
      /\ net \in [Nodes -> [Nodes -> Seq(Packets)]]
  BY DEF IInv, CtlOK, NetOK, Rounds
<1>3. /\ \A k \in Nodes \ {n} : ctl'[k] = ctl[k]
      /\ ctl'[n].pc = "send" /\ ctl'[n].key = ctl[n].key
      /\ ctl'[n].left = ctl[n].left \ {p} /\ (ctl'[n].ok => sent = 2)
  <2>1. PICK r : r = [ctl[n] EXCEPT !.left = @ \ {p}, !.ok = @ /\ sent = 2]
    OBVIOUS
  <2>2. ctl[n] \in Rounds
    BY <1>2
  <2>3. /\ r.pc = ctl[n].pc /\ r.key = ctl[n].key /\ r.left = ctl[n].left \ {p}
        /\ (r.ok => sent = 2)
    BY <2>1, <2>2 DEF Rounds
  <2>4. ctl' = [ctl EXCEPT ![n] = r]
    BY <1>1, <1>2, <2>1, <2>2 DEF Rounds
  <2>5. ctl[n].pc = "send"
    BY DEF Send
  <2>6. ctl'[n] = r /\ \A k \in Nodes \ {n} : ctl'[k] = ctl[k]
    BY <1>2, <2>4
  <2>q. QED
    BY <2>3, <2>5, <2>6
<1>4. PICK key \in Keys : key = ctl[n].key
  BY <1>2
<1>5. PICK q, chunks : q = net[n][p] /\ chunks = SubSeq(Chunks(key), 1, sent)
  OBVIOUS
<1>6. /\ chunks \in Seq(Packets) /\ Len(chunks) = sent
      /\ \A i \in 1..sent : chunks[i].key = key /\ chunks[i].val = key.val
      /\ sent = 2 => chunks[1].part = "first" /\ chunks[2].part = "last"
  <2>1. \A i \in 1..sent : /\ Chunks(key)[i] \in Packets /\ Chunks(key)[i].key = key
                           /\ Chunks(key)[i].val = key.val
    BY DEF Chunks, Packets, Parts, Keys
  <2>2. Chunks(key)[1].part = "first" /\ Chunks(key)[2].part = "last"
    BY DEF Chunks
  <2>3. /\ chunks \in Seq(Packets) /\ Len(chunks) = sent
        /\ \A i \in 1..sent : chunks[i] = Chunks(key)[i]
    <3>1. 1 \in Int /\ sent \in Int /\ \A i \in 1..sent : Chunks(key)[i] \in Packets
      BY <2>1
    <3>2. /\ SubSeq(Chunks(key), 1, sent) \in Seq(Packets)
          /\ Len(SubSeq(Chunks(key), 1, sent)) = IF 1 <= sent THEN sent - 1 + 1 ELSE 0
          /\ \A i \in 1..(sent - 1 + 1) :
                SubSeq(Chunks(key), 1, sent)[i] = Chunks(key)[1 + i - 1]
      BY <3>1, SubSeqProperties
    <3>q. QED
      BY <1>5, <3>1, <3>2
  <2>q. QED
    BY <2>1, <2>2, <2>3
<1>7. q \in Seq(Packets) /\ Len(q) \in Nat
  BY <1>2, <1>5, LenProperties
<1>8. PICK u : u = q \o chunks
  OBVIOUS
<1>9. /\ Len(u) = Len(q) + sent
      /\ \A i \in 1..Len(q) + sent : u[i] = IF i <= Len(q) THEN q[i] ELSE chunks[i - Len(q)]
  BY <1>6, <1>7, <1>8, ConcatProperties
<1>10. net'[n][p] = u
  BY <1>1, <1>2, <1>4, <1>5, <1>8
<1>11. \A k, l \in Nodes : <<k, l>> # <<n, p>> => net'[k][l] = net[k][l]
  BY <1>1, <1>2
<1>12. \A i \in 1..Len(q) : i \in 1..Len(u) /\ u[i] = q[i]
  BY <1>7, <1>9
<1>13. \A i \in 1..sent : /\ Len(q) + i \in 1..Len(u) /\ u[Len(q) + i] = chunks[i]
  BY <1>7, <1>9
<1>14. \A i \in 1..Len(u) : i \in 1..Len(q) \/ i - Len(q) \in 1..sent
  BY <1>7, <1>9
<1>15. \A i \in 1..Len(u) : u[i].val = u[i].key.val
  <2>1. SUFFICES ASSUME NEW i \in 1..Len(u) PROVE u[i].val = u[i].key.val
    OBVIOUS
  <2>2. CASE i \in 1..Len(q)
    <3>1. q[i].val = q[i].key.val
      BY <1>2, <1>5, <2>2 DEF ChunksOK
    <3>q. QED
      BY <1>12, <2>2, <3>1
  <2>3. CASE i - Len(q) \in 1..sent
    <3>1. PICK j \in 1..sent : j = i - Len(q)
      BY <2>3
    <3>2. i = Len(q) + j
      BY <1>7, <2>1, <3>1
    <3>q. QED
      BY <1>6, <1>13, <3>2
  <2>q. QED
    BY <1>14, <2>2, <2>3
<1>16. ChunksOK'
  <2>1. ASSUME NEW k \in Nodes, NEW l \in Nodes, NEW i \in 1..Len(net'[k][l])
        PROVE  net'[k][l][i].val = net'[k][l][i].key.val
    <3>1. CASE k = n /\ l = p
      BY <1>10, <1>15, <2>1, <3>1
    <3>2. CASE ~(k = n /\ l = p)
      <4>1. net'[k][l] = net[k][l]
        BY <1>11, <3>2
      <4>q. QED
        BY <2>1, <4>1 DEF ChunksOK
    <3>q. QED
      BY <3>1, <3>2
  <2>q. QED
    BY <2>1 DEF ChunksOK
<1>17. ASSUME NEW k \in Nodes, NEW l \in Nodes, NEW i \in 1..Len(net[k][l])
       PROVE  i \in 1..Len(net'[k][l]) /\ net'[k][l][i] = net[k][l][i]
  <2>1. CASE k = n /\ l = p
    BY <1>5, <1>10, <1>12, <1>17, <2>1
  <2>2. CASE ~(k = n /\ l = p)
    <3>1. net'[k][l] = net[k][l]
      BY <1>11, <2>2
    <3>q. QED
      BY <1>17, <3>1
  <2>q. QED
    BY <2>1, <2>2
<1>18. ctl'[n].ok => \E j \in 1..Len(net'[n][p]) :
                       /\ j + 1 \in 1..Len(net'[n][p])
                       /\ net'[n][p][j].key = ctl[n].key /\ net'[n][p][j].part = "first"
                       /\ net'[n][p][j + 1].key = ctl[n].key
                       /\ net'[n][p][j + 1].part = "last"
  <2>1. SUFFICES ASSUME ctl'[n].ok
                 PROVE  \E j \in 1..Len(u) :
                           /\ j + 1 \in 1..Len(u)
                           /\ u[j].key = key /\ u[j].part = "first"
                           /\ u[j + 1].key = key /\ u[j + 1].part = "last"
    BY <1>4, <1>10
  <2>2. sent = 2
    BY <1>3, <2>1
  <2>3. PICK j : j = Len(q) + 1
    OBVIOUS
  <2>4. j \in 1..Len(u) /\ j + 1 \in 1..Len(u) /\ j + 1 = Len(q) + 2
    BY <1>7, <1>9, <2>2, <2>3
  <2>5. u[Len(q) + 1] = chunks[1] /\ u[Len(q) + 2] = chunks[2]
    BY <1>13, <2>2
  <2>6. u[j] = chunks[1] /\ u[j + 1] = chunks[2]
    BY <2>3, <2>4, <2>5
  <2>7. chunks[1].key = key /\ chunks[2].key = key
    BY <1>6, <2>2
  <2>q. QED
    BY <1>6, <2>2, <2>4, <2>6, <2>7
<1>q. QED
  BY <1>3, <1>16, <1>17, <1>18

\* A key that reached the host from its owner is on its way.
LEMMA SendDelivers ==
    ASSUME IInv, FlowOK, ChunksOK, NEW m \in Members, Send(m),
           ctl'[m].ok, ctl'[m].left = {}, ctl[m].key.owner = m
    PROVE  ctl[m].key \in Sent'
<1>1. m \in Nodes /\ m # Host
  BY NodeFacts
<1>2. PICK key : key = ctl[m].key /\ key \in Keys
  BY <1>1 DEF IInv, CtlOK, Rounds
<1>3. PICK p \in ctl[m].left :
         /\ ctl'[m].left = ctl[m].left \ {p}
         /\ ctl'[m].ok => \E j \in 1..Len(net'[m][p]) :
               /\ j + 1 \in 1..Len(net'[m][p])
               /\ net'[m][p][j].key = ctl[m].key /\ net'[m][p][j].part = "first"
               /\ net'[m][p][j + 1].key = ctl[m].key
               /\ net'[m][p][j + 1].part = "last"
  BY <1>1, SendAppends
<1>4. p = Host
  BY <1>1, <1>3 DEF FlowOK, Destinations, Send
<1>5. PICK j \in 1..Len(net'[m][Host]) :
               /\ j + 1 \in 1..Len(net'[m][Host])
               /\ net'[m][Host][j].key = key /\ net'[m][Host][j].part = "first"
               /\ net'[m][Host][j + 1].key = key
               /\ net'[m][Host][j + 1].part = "last"
  BY <1>2, <1>3, <1>4
<1>6. key.owner = m
  BY <1>2
<1>7. At(key, j, "first")' /\ At(key, j + 1, "last")' /\ j \in 1..((j + 1) - 1)
  BY <1>5, <1>6 DEF At
<1>q. QED
  BY <1>2, <1>5, <1>6, <1>7 DEF Sent, OnWay

-----------------------------------------------------------------------------
(* The links, the table and the members that nothing has gone wrong for. *)

\* A member that something has gone wrong for stays one.
LEMMA UpsetGrows == ASSUME IInv, Next PROVE history.upset \subseteq history'.upset
<1>0. history \in Histories
  BY DEF IInv, HistoryOK
<1>1. CASE UNCHANGED history
  BY <1>1
<1>2. ASSUME NEW who, \/ Upset(who)
                      \/ history' = [history EXCEPT !.upset = @ \cup who]
      PROVE  history.upset \subseteq history'.upset
  BY <1>0, <1>2 DEF Upset, Histories
<1>3. ASSUME NEW n \in Nodes, NEW seq, StoreCapture(n, seq)
      PROVE  history.upset \subseteq history'.upset
  BY <1>0, <1>3 DEF StoreCapture, Histories
<1>4. ASSUME NEW n \in Nodes, GameStep(n) \/ ControlStep(n) \/ CallbackStep(n)
      PROVE  history.upset \subseteq history'.upset
  <2>1. CASE GameStep(n)
    BY <1>1, <1>3, <2>1 DEF GameStep, Play, BeginCapture, EndCapture
  <2>2. CASE CollectKeys(n) \/ CollectPeers(n) \/ FinishKey(n) \/ StoreReceived(n)
    BY <1>1, <2>2 DEF CollectKeys, CollectPeers, FinishKey, StoreReceived
  <2>3. CASE Send(n)
    <3>1. UNCHANGED history \/ Upset({})
      BY <2>3 DEF Send
    <3>q. QED
      BY <1>1, <1>2, <3>1
  <2>4. ASSUME NEW m \in Nodes, TakeChunk(n, m)
        PROVE  history.upset \subseteq history'.upset
    <3>1. \E lost : \/ UNCHANGED history
                    \/ Upset(lost)
                    \/ history' = [history EXCEPT !.upset = @ \cup lost]
      BY <2>4 DEF TakeChunk, Drop, Assemble
    <3>q. QED
      BY <1>1, <1>2, <3>1
  <2>5. CASE CallbackStep(n)
    BY <1>1, <2>5 DEF CallbackStep, AddPeer, LosePeer, MarkForPublish, ClearTransport
  <2>q. QED
    BY <1>4, <2>1, <2>2, <2>3, <2>4, <2>5 DEF ControlStep
<1>5. CASE HostCapture \/ Commit \/ Reconcile
  BY <1>1, <1>2, <1>3, <1>5, NodeFacts DEF HostCapture, Commit, Reconcile
<1>6. ASSUME NEW m \in Members, Break(m) \/ Reconnect(m) \/ Restart(m) \/ Restore(m)
      PROVE  history.upset \subseteq history'.upset
  <2>1. CASE Restart(m)
    <3>1. history'.upset = history.upset \cup {m}
      BY <1>0, <2>1 DEF Restart, Histories
    <3>q. QED
      BY <3>1
  <2>2. CASE Restore(m)
    <3>1. history'.upset = history.upset
      BY <1>0, <2>2 DEF Restore, Histories
    <3>q. QED
      BY <3>1
  <2>q. QED
    BY <1>1, <1>2, <1>6, <2>1, <2>2 DEF Break, Reconnect
<1>q. QED
  BY <1>4, <1>5, <1>6 DEF Next

\* Chunks are lost, sent or taken, and the table of the host keeps to its order.
LEMMA NextNeat ==
    ASSUME IInv, TypeInv, ChunksOK, TableNeat, Next
    PROVE  ChunksOK' /\ TableNeat'
<1>0. /\ net \in [Nodes -> [Nodes -> Seq(Packets)]] /\ assembly \in [Nodes -> Seq(Bodies)]
  BY DEF IInv, NetOK, TypeInv, TableOK
<1>1. ASSUME UNCHANGED net PROVE ChunksOK'
  BY <1>1 DEF ChunksOK
<1>2. ASSUME assembly'[Host] = assembly[Host] PROVE TableNeat'
  BY <1>2 DEF TableNeat, Neat
<1>3. ASSUME NEW m \in Members, net' = Lost(m) PROVE ChunksOK'
  <2>1. \A k, l \in Nodes : net'[k][l] = <<>> \/ net'[k][l] = net[k][l]
    BY <1>0, <1>3, NodeFacts DEF Lost
  <2>2. Len(<<>>) = 0
    BY EmptySeq
  <2>3. ASSUME NEW k \in Nodes, NEW l \in Nodes, NEW i \in 1..Len(net'[k][l])
        PROVE  net'[k][l][i].val = net'[k][l][i].key.val
    <3>1. net'[k][l] = net[k][l]
      BY <2>1, <2>2, <2>3
    <3>q. QED
      BY <2>3, <3>1 DEF ChunksOK
  <2>q. QED
    BY <2>3 DEF ChunksOK
<1>4. ASSUME NEW n \in Nodes, GameStep(n) PROVE ChunksOK' /\ TableNeat'
  BY <1>1, <1>2, <1>4 DEF GameStep, Play, BeginCapture, EndCapture
<1>5. ASSUME NEW n \in Nodes, ControlStep(n) PROVE ChunksOK' /\ TableNeat'
  <2>1. CASE CollectKeys(n) \/ CollectPeers(n) \/ FinishKey(n) \/ StoreReceived(n)
    BY <1>1, <1>2, <2>1 DEF CollectKeys, CollectPeers, FinishKey, StoreReceived
  <2>2. CASE Send(n)
    BY <1>2, <2>2, SendAppends DEF Send
  <2>q. QED
    BY <1>5, <2>1, <2>2, TakeChunkNeat DEF ControlStep
<1>6. ASSUME NEW n \in Nodes, CallbackStep(n) PROVE ChunksOK' /\ TableNeat'
  <2>1. PICK m \in Nodes : AddPeer(n, m) \/ LosePeer(n, m)
                           \/ MarkForPublish(n, m) \/ ClearTransport(n, m)
    BY <1>6 DEF CallbackStep
  <2>2. ChunksOK'
    BY <1>1, <2>1 DEF AddPeer, LosePeer, MarkForPublish, ClearTransport
  <2>3. CASE AddPeer(n, m) \/ LosePeer(n, m) \/ MarkForPublish(n, m)
    BY <1>2, <2>2, <2>3 DEF AddPeer, LosePeer, MarkForPublish
  <2>4. CASE ClearTransport(n, m) /\ n # Host
    <3>1. PICK t : assembly' = [assembly EXCEPT ![n] = t]
      BY <2>4 DEF ClearTransport
    <3>2. assembly'[Host] = assembly[Host]
      BY <1>0, <2>4, <3>1, NodeFacts
    <3>q. QED
      BY <1>2, <2>2, <3>2
  <2>q. QED
    BY <2>1, <2>2, <2>3, <2>4, ClearTransportNeat
<1>7. CASE HostCapture \/ Commit \/ Reconcile
  BY <1>1, <1>2, <1>7 DEF HostCapture, Commit, Reconcile
<1>8. ASSUME NEW m \in Members, Break(m) \/ Reconnect(m) \/ Restart(m) \/ Restore(m)
      PROVE  ChunksOK' /\ TableNeat'
  <2>1. UNCHANGED net \/ net' = Lost(m)
    BY <1>8 DEF Break, Reconnect, Restart, Restore
  <2>2. assembly' = assembly \/ assembly' = [assembly EXCEPT ![m] = <<>>]
    BY <1>8 DEF Break, Reconnect, Restart, Restore
  <2>3. assembly'[Host] = assembly[Host]
    BY <1>0, <1>8, <2>2, NodeFacts
  <2>q. QED
    BY <1>1, <1>2, <1>3, <1>8, <2>1, <2>3
<1>q. QED
  BY <1>4, <1>5, <1>6, <1>7, <1>8 DEF Next

\* A link that breaks, or a process that ends, counts among what goes wrong.
LEMMA NextIntact == ASSUME IInv, TypeInv, IntactOK, Next PROVE IntactOK'
<1>0. /\ history \in Histories /\ callback \in [Nodes -> Marks] /\ up \subseteq Members
      /\ history.upset \subseteq history'.upset
  BY UpsetGrows DEF IInv, HistoryOK, TypeInv, PeopleOK
<1>1. CASE UNCHANGED <<callback, up>> /\ history'.blank \subseteq history.blank
  BY <1>0, <1>1 DEF IntactOK
<1>2. ASSUME NEW who, \/ UNCHANGED history
                      \/ Upset(who)
                      \/ history' = [history EXCEPT !.upset = @ \cup who]
      PROVE  history'.blank = history.blank
  BY <1>0, <1>2 DEF Upset, Histories
<1>3. ASSUME NEW n \in Nodes, NEW seq, StoreCapture(n, seq)
      PROVE  history'.blank = history.blank
  BY <1>0, <1>3 DEF StoreCapture, Histories
<1>4. ASSUME NEW n \in Nodes, GameStep(n) PROVE IntactOK'
  <2>1. UNCHANGED <<callback, up>>
    BY <1>4 DEF GameStep, Play, BeginCapture, EndCapture
  <2>2. history'.blank = history.blank
    BY <1>2, <1>3, <1>4 DEF GameStep, Play, BeginCapture, EndCapture
  <2>q. QED
    BY <1>1, <2>1, <2>2
<1>5. ASSUME NEW n \in Nodes, ControlStep(n) PROVE IntactOK'
  <2>1. UNCHANGED <<callback, up>>
    BY <1>5 DEF ControlStep, CollectKeys, CollectPeers, Send, FinishKey, StoreReceived,
                TakeChunk
  <2>2. \E lost : \/ UNCHANGED history
                  \/ Upset(lost)
                  \/ history' = [history EXCEPT !.upset = @ \cup lost]
    BY <1>5 DEF ControlStep, CollectKeys, CollectPeers, Send, FinishKey, StoreReceived,
                TakeChunk, Drop, Assemble
  <2>q. QED
    BY <1>1, <1>2, <2>1, <2>2
<1>6. ASSUME NEW n \in Nodes, CallbackStep(n) PROVE IntactOK'
  <2>1. PICK m \in Nodes \ {n} : AddPeer(n, m) \/ LosePeer(n, m)
                                 \/ MarkForPublish(n, m) \/ ClearTransport(n, m)
    BY <1>6 DEF CallbackStep
  <2>2. UNCHANGED <<up, history>>
    BY <2>1 DEF AddPeer, LosePeer, MarkForPublish, ClearTransport
  <2>3. ASSUME NEW k \in Members \ history.upset, <<"clear", k>> \in callback'[Host]
        PROVE  <<"clear", k>> \in callback[Host]
    <3>1. CASE LosePeer(n, m)
      <4>1. callback' = [callback EXCEPT ![n] = @ \cup {<<"clear", m>>}] /\ ~LinkUp(n, m)
        BY <3>1 DEF LosePeer
      <4>2. CASE n = Host
        <5>1. m \in Members /\ {n, m} \ {Host} = {m}
          BY <2>1, <4>2, NodeFacts DEF Nodes
        <5>2. m \notin up
          BY <4>1, <5>1 DEF LinkUp
        <5>3. k # m
          BY <2>3, <5>2 DEF IntactOK
        <5>q. QED
          BY <1>0, <2>3, <4>1, <4>2, <5>3, NodeFacts
      <4>3. CASE n # Host
        BY <1>0, <2>3, <4>1, <4>3, NodeFacts
      <4>q. QED
        BY <4>2, <4>3
    <3>2. CASE AddPeer(n, m)
      <4>1. callback' = [callback EXCEPT ![n] = @ \cup {<<"mark", m>>}]
        BY <3>2 DEF AddPeer
      <4>2. callback'[Host] \subseteq callback[Host] \cup {<<"mark", m>>}
        BY <1>0, <4>1, NodeFacts
      <4>q. QED
        BY <2>3, <4>2
    <3>3. CASE MarkForPublish(n, m) \/ ClearTransport(n, m)
      <4>1. PICK done : callback' = [callback EXCEPT ![n] = @ \ {done}]
        BY <3>3 DEF MarkForPublish, ClearTransport
      <4>2. callback'[Host] \subseteq callback[Host]
        BY <1>0, <4>1, NodeFacts
      <4>q. QED
        BY <2>3, <4>2
    <3>q. QED
      BY <2>1, <3>1, <3>2, <3>3
  <2>q. QED
    BY <2>2, <2>3 DEF IntactOK
<1>7. CASE HostCapture \/ Commit \/ Reconcile
  <2>1. UNCHANGED <<callback, up>>
    BY <1>7 DEF HostCapture, Commit, Reconcile
  <2>2. history'.blank = history.blank
    BY <1>2, <1>3, <1>7, NodeFacts DEF HostCapture, Commit, Reconcile
  <2>q. QED
    BY <1>1, <2>1, <2>2
<1>8. ASSUME NEW m \in Members, Break(m) PROVE IntactOK'
  <2>1. up' = up \ {m} /\ UNCHANGED callback /\ history'.blank = history.blank
    BY <1>2, <1>8 DEF Break
  <2>2. m \in history'.upset
    BY <1>0, <1>8 DEF Break, Upset, Histories
  <2>q. QED
    BY <1>0, <2>1, <2>2 DEF IntactOK
<1>9. ASSUME NEW m \in Members, Reconnect(m) PROVE IntactOK'
  BY <1>9 DEF Reconnect, IntactOK
<1>10. ASSUME NEW m \in Members, Restart(m) PROVE IntactOK'
  <2>1. up' = up \ {m} /\ callback' = [callback EXCEPT ![m] = {}]
    BY <1>10 DEF Restart
  <2>2. m \in history'.upset /\ history'.blank = history.blank \cup {m}
    BY <1>0, <1>10 DEF Restart, Histories
  <2>3. callback'[Host] = callback[Host]
    BY <1>0, <2>1, NodeFacts
  <2>q. QED
    BY <1>0, <2>1, <2>2, <2>3 DEF IntactOK
<1>11. ASSUME NEW m \in Members, Restore(m) PROVE IntactOK'
  <2>1. UNCHANGED <<callback, up>>
    BY <1>11 DEF Restore
  <2>2. history'.blank = history.blank \ {m}
    BY <1>0, <1>11 DEF Restore, Histories
  <2>q. QED
    BY <1>1, <2>1, <2>2
<1>q. QED
  BY <1>4, <1>5, <1>6, <1>7, <1>8, <1>9, <1>10, <1>11 DEF Next

-----------------------------------------------------------------------------
(* What is published is sent. *)

\* What a member has published is its own, and around.
LEMMA PublishedFacts ==
    ASSUME IInv, NEW m \in Members, NEW key \in Published(m)
    PROVE  key \in Keys /\ key.owner = m /\ key \in Around
<1>0. m \in Nodes
  BY NodeFacts
<1>1. CASE key = Key(m, hot[m][m]) /\ Held(m, m)
  <2>1. key \in Copies(m) /\ hot[m][m] \in Snapshots
    BY <1>0, <1>1, EntryFacts
  <2>2. key \in Keys /\ key.owner = m
    BY <1>0, <1>1, <2>1, Defaults DEF Key
  <2>q. QED
    BY <1>0, <2>1, <2>2 DEF Around, Got
<1>2. CASE key = ctl[m].key /\ ctl[m].pc = "send" /\ key.owner = m
  <2>1. key \in Keys
    BY <1>0, <1>2 DEF IInv, CtlOK, Rounds
  <2>2. key \in Carried(m)
    BY <1>2 DEF Carried
  <2>q. QED
    BY <1>0, <1>2, <2>1, <2>2 DEF Around, Passed
<1>q. QED
  BY <1>1, <1>2 DEF Published

\* It publishes nothing more unless its control thread marks or sends something.
LEMMA PublishedStays ==
    ASSUME NEW m, hot'[m][m] = hot[m][m] \/ hot'[m][m].pending,
           ctl'[m] = ctl[m] \/ ctl'[m].pc # "send" \/ ~ctl'[m].ok \/ ctl'[m].left # {}
    PROVE  Published(m)' \subseteq Published(m)
<1>1. SUFFICES ASSUME NEW key \in Published(m)' PROVE key \in Published(m)
  OBVIOUS
<1>2. CASE key = Key(m, hot[m][m])' /\ Held(m, m)' /\ ~hot'[m][m].pending
  BY <1>2 DEF Published, Key, Held
<1>3. CASE key = ctl'[m].key /\ ctl'[m].pc = "send" /\ ctl'[m].ok
           /\ ctl'[m].left = {} /\ key.owner = m
  BY <1>3 DEF Published
<1>q. QED
  BY <1>2, <1>3 DEF Published

\* What keeps the invariant of what is published.
LEMMA SentFrom ==
    ASSUME IInv, SentOK, authority' = authority, history.upset \subseteq history'.upset,
           \A m \in Members \ history'.upset : \A key \in Published(m)' :
              key \in Published(m) \/ key \in Sent',
           \A key \in Sent : key \in Keys /\ key.owner \in Members \ history'.upset
                             /\ key.seq = authority => key \in Sent'
    PROVE  SentOK'
<1>1. SUFFICES ASSUME NEW m \in Members \ history'.upset, NEW key \in Published(m)',
                      key.seq = authority
               PROVE  key \in Sent'
  BY DEF SentOK
<1>2. CASE key \in Published(m)
  <2>1. m \in Members \ history.upset
    OBVIOUS
  <2>2. key \in Sent
    BY <1>1, <1>2, <2>1 DEF SentOK
  <2>3. key \in Keys /\ key.owner = m
    BY <1>2, PublishedFacts
  <2>q. QED
    BY <1>1, <2>2, <2>3
<1>q. QED
  BY <1>1, <1>2

\* A step that lets the host's table, its hands and its copies of others be, and
\* takes nothing off the links to it.
LEMMA Undisturbed ==
    ASSUME UNCHANGED authority, assembly'[Host] = assembly[Host],
           Arrived(Host)' = Arrived(Host), NEW key \in Sent, key \in Keys,
           hot'[Host][key.owner].seq = hot[Host][key.owner].seq,
           hot'[Host][key.owner].rev = hot[Host][key.owner].rev,
           net'[key.owner][Host] = net[key.owner][Host]
    PROVE  key \in Sent'
<1>1. Begun' = Begun
  BY DEF Begun
<1>q. QED
  BY <1>1, SentStays

\* The step of an actor that changes no link and no table.
LEMMA SentByOthers ==
    ASSUME IInv, SentOK, UNCHANGED <<authority, net>>, assembly'[Host] = assembly[Host],
           Arrived(Host)' = Arrived(Host),
           history.upset \subseteq history'.upset,
           \A m \in Members : /\ hot'[Host][m].seq = hot[Host][m].seq
                              /\ hot'[Host][m].rev = hot[Host][m].rev,
           \A m \in Members \ history'.upset : Published(m)' \subseteq Published(m)
    PROVE  SentOK'
<1>1. ASSUME NEW key \in Sent, key \in Keys, key.owner \in Members \ history'.upset,
             key.seq = authority
      PROVE  key \in Sent'
  BY <1>1, Undisturbed
<1>q. QED
  BY <1>1, SentFrom

\* A capture stays to be published, or has changed nothing.
LEMMA CaptureIsPending ==
    ASSUME IInv, NEW n \in Nodes, NEW seq \in 1..MaxSeq, StoreCapture(n, seq)
    PROVE  /\ hot'[n][n] = hot[n][n] \/ hot'[n][n].pending
           /\ \A k, o \in Nodes : <<k, o>> # <<n, n>> => hot'[k][o] = hot[k][o]
<1>1. PICK flag \in BOOLEAN : flag = TRUE
  OBVIOUS
<1>2. PICK old, rev, val : old = hot[n][n] /\ rev = 0 /\ val = pgd[n]
  OBVIOUS
<1>3. PICK new : new = Stored(old, seq, rev, val, flag)
  OBVIOUS
<1>4. hot' = [hot EXCEPT ![n][n] = new]
  BY <1>1, <1>2, <1>3 DEF StoreCapture
<1>5. /\ hot'[n][n] = new
      /\ \A k, o \in Nodes : <<k, o>> # <<n, n>> => hot'[k][o] = hot[k][o]
  BY <1>4 DEF IInv, HotOK
<1>6. new = old \/ new.pending
  BY <1>1, <1>3 DEF Stored, Snapshot
<1>q. QED
  BY <1>2, <1>5, <1>6

\* The game threads and the expedition authority of the host: what they capture
\* is pending, and nothing published is of a generation that is only committed.
LEMMA GameSends ==
    ASSUME IInv, SentOK, history.upset \subseteq history'.upset, NEW n \in Nodes, GameStep(n)
    PROVE  SentOK'
<1>1. UNCHANGED <<authority, net, assembly, ctl>>
  BY DEF GameStep, Play, BeginCapture, EndCapture
<1>2. Arrived(Host)' = Arrived(Host)
  BY <1>1 DEF Arrived
<1>3. CASE UNCHANGED hot
  <2>1. \A m \in Members : Published(m)' \subseteq Published(m)
    BY <1>1, <1>3, PublishedStays
  <2>q. QED
    BY <1>1, <1>2, <1>3, <2>1, SentByOthers
<1>4. CASE n \in Members /\ EndCapture(n)
  <2>1. game[n] \in 1..MaxSeq /\ StoreCapture(n, game[n])
    BY <1>4, BoundsAssumption DEF EndCapture, IInv, CountersOK
  <2>2. /\ hot'[n][n] = hot[n][n] \/ hot'[n][n].pending
        /\ \A k, o \in Nodes : <<k, o>> # <<n, n>> => hot'[k][o] = hot[k][o]
    <3>1. PICK seq \in 1..MaxSeq : StoreCapture(n, seq)
      BY <2>1
    <3>q. QED
      BY <3>1, CaptureIsPending
  <2>3. \A m \in Members : hot'[m][m] = hot[m][m] \/ hot'[m][m].pending
    BY <2>2, NodeFacts
  <2>4. \A m \in Members : Published(m)' \subseteq Published(m)
    BY <1>1, <2>3, PublishedStays
  <2>5. \A m \in Members : hot'[Host][m] = hot[Host][m]
    BY <1>4, <2>2, NodeFacts
  <2>q. QED
    BY <1>1, <1>2, <2>4, <2>5, SentByOthers
<1>q. QED
  BY <1>3, <1>4 DEF GameStep, Play, BeginCapture

LEMMA HostSends ==
    ASSUME IInv, OrderInv, SentOK, history.upset \subseteq history'.upset,
           HostCapture \/ Commit \/ Reconcile
    PROVE  SentOK'
<1>1. UNCHANGED <<net, assembly, ctl>>
  BY DEF HostCapture, Commit, Reconcile
<1>2. Arrived(Host)' = Arrived(Host)
  BY <1>1 DEF Arrived
<1>3. CASE HostCapture
  <2>1. authority \in 1..MaxSeq /\ StoreCapture(Host, authority)
    BY <1>3 DEF HostCapture, IInv, CountersOK
  <2>2. \A k, o \in Nodes : <<k, o>> # <<Host, Host>> => hot'[k][o] = hot[k][o]
    <3>1. PICK seq \in 1..MaxSeq : StoreCapture(Host, seq)
      BY <2>1
    <3>q. QED
      BY <3>1, CaptureIsPending, NodeFacts
  <2>3. \A m \in Members : hot'[m][m] = hot[m][m] /\ hot'[Host][m] = hot[Host][m]
    BY <2>2, NodeFacts
  <2>4. \A m \in Members : Published(m)' \subseteq Published(m)
    BY <1>1, <2>3, PublishedStays
  <2>5. UNCHANGED authority
    BY <1>3 DEF HostCapture
  <2>q. QED
    BY <1>1, <1>2, <2>3, <2>4, <2>5, SentByOthers
<1>4. CASE Commit \/ Reconcile
  <2>1. \A m \in Members : hot'[m][m] = hot[m][m]
    <3>1. CASE Commit
      BY <3>1 DEF Commit
    <3>2. CASE Reconcile
      BY <3>2, NodeFacts DEF Reconcile, IInv, HotOK
    <3>q. QED
      BY <1>4, <3>1, <3>2
  <2>2. \A m \in Members : Published(m)' \subseteq Published(m)
    BY <1>1, <2>1, PublishedStays
  <2>3. Now < authority' /\ Now \in Int /\ authority' \in Int
    <3>1. authority \in Nat /\ game[Host] \in Nat
      BY NodeFacts, BoundsAssumption DEF IInv, CountersOK
    <3>2. CASE game[Host] = 0 /\ authority' = authority + 1
      BY <3>1, <3>2 DEF Now
    <3>3. CASE game[Host] = 1 /\ authority' = authority
      BY <3>1, <3>3 DEF Now
    <3>q. QED
      BY <1>4, <3>2, <3>3 DEF Commit, Reconcile
  <2>4. ASSUME NEW m \in Members \ history'.upset, NEW key \in Published(m)'
        PROVE  key.seq # authority'
    <3>1. key \in Around /\ key \in Keys
      BY <2>2, PublishedFacts
    <3>2. key.seq <= Now
      BY <3>1 DEF OrderInv, SeenOK
    <3>3. key.seq \in Int
      BY <3>1, BoundsAssumption DEF Keys
    <3>q. QED
      BY <2>3, <3>2, <3>3
  <2>q. QED
    BY <2>4 DEF SentOK
<1>q. QED
  BY <1>3, <1>4

\* A member's round goes on to a key with someone to send it to, or without hope
\* of marking it.
LEMMA NextKeyIsOpen ==
    ASSUME IInv, NEW n \in Nodes, NEW round \in Rounds, NextKey(n, round)
    PROVE  /\ ctl'[n].pc \in {"idle", "send"}
           /\ n # Host => ctl'[n].pc # "send" \/ ~ctl'[n].ok \/ ctl'[n].left # {}
           /\ \A k \in Nodes \ {n} : ctl'[k] = ctl[k]
<1>0. ctl \in [Nodes -> Rounds]
  BY DEF IInv, CtlOK
<1>1. CASE ctl' = [ctl EXCEPT ![n] = Idle]
  BY <1>0, <1>1 DEF Idle
<1>2. ASSUME NEW key \in round.todo,
             ctl' = [ctl EXCEPT ![n] =
                       [round EXCEPT !.pc = "send", !.key = key, !.todo = round.todo \ {key},
                                     !.left = Targets(n, round, key),
                                     !.ok = n = Host \/ Targets(n, round, key) # {}]]
      PROVE  /\ ctl'[n].pc \in {"idle", "send"}
             /\ n # Host => ctl'[n].pc # "send" \/ ~ctl'[n].ok \/ ctl'[n].left # {}
             /\ \A k \in Nodes \ {n} : ctl'[k] = ctl[k]
  <2>1. PICK flag \in BOOLEAN : flag = (n = Host \/ Targets(n, round, key) # {})
    <3>1. (n = Host \/ Targets(n, round, key) # {}) \in BOOLEAN
      OBVIOUS
    <3>q. QED
      BY <3>1
  <2>2. PICK r :
           r = [round EXCEPT !.pc = "send", !.key = key, !.todo = round.todo \ {key},
                             !.left = Targets(n, round, key), !.ok = flag]
    OBVIOUS
  <2>3. r.pc = "send" /\ r.left = Targets(n, round, key) /\ r.ok = flag
    BY <2>2 DEF Rounds
  <2>4. ctl'[n] = r /\ \A k \in Nodes \ {n} : ctl'[k] = ctl[k]
    BY <1>0, <1>2, <2>1, <2>2
  <2>5. n # Host => ~flag \/ r.left # {}
    BY <2>1, <2>3
  <2>q. QED
    BY <2>3, <2>4, <2>5
<1>q. QED
  BY <1>1, <1>2 DEF NextKey

\* Nothing arrives, or is stored, while a control thread publishes.
LEMMA NothingArrives ==
    ASSUME NEW n \in Nodes, ctl[n].pc # "store", ctl'[n].pc # "store",
           \A k \in Nodes \ {n} : ctl'[k] = ctl[k]
    PROVE  Arrived(Host)' = Arrived(Host)
<1>1. CASE n = Host
  BY <1>1 DEF Arrived
<1>2. CASE n # Host
  BY <1>2, NodeFacts DEF Arrived
<1>q. QED
  BY <1>1, <1>2

\* A control thread publishes: it sends what it marks as published before.
LEMMA CollectSends ==
    ASSUME IInv, SentOK, history.upset \subseteq history'.upset, NEW n \in Nodes,
           CollectKeys(n) \/ CollectPeers(n)
    PROVE  SentOK'
<1>1. UNCHANGED <<hot, authority, net, assembly>>
  BY DEF CollectKeys, CollectPeers
<1>2. /\ ctl[n].pc # "store" /\ ctl'[n].pc # "store"
      /\ n # Host => ctl'[n].pc # "send" \/ ~ctl'[n].ok \/ ctl'[n].left # {}
      /\ \A k \in Nodes \ {n} : ctl'[k] = ctl[k]
  <2>1. CASE CollectKeys(n)
    BY <2>1 DEF CollectKeys, Idle, IInv, CtlOK
  <2>2. CASE CollectPeers(n)
    <3>1. PICK round : round = [ctl[n] EXCEPT !.peers = peers[n]]
      OBVIOUS
    <3>2. round \in Rounds
      <4>1. ctl[n] \in Rounds /\ peers[n] \in SUBSET Nodes
        BY DEF IInv, CountersOK, CtlOK
      <4>q. QED
        BY <3>1, <4>1 DEF Rounds
    <3>3. NextKey(n, round) /\ ctl[n].pc = "peers"
      BY <2>2, <3>1 DEF CollectPeers
    <3>q. QED
      BY <3>2, <3>3, NextKeyIsOpen
  <2>q. QED
    BY <2>1, <2>2
<1>3. Arrived(Host)' = Arrived(Host)
  BY <1>2, NothingArrives
<1>4. ASSUME NEW m \in Members PROVE Published(m)' \subseteq Published(m)
  BY <1>1, <1>2, NodeFacts, PublishedStays
<1>q. QED
  BY <1>1, <1>3, <1>4, SentByOthers

LEMMA FinishKeySends ==
    ASSUME IInv, SentOK, history.upset \subseteq history'.upset, NEW n \in Nodes, FinishKey(n)
    PROVE  SentOK'
<1>1. UNCHANGED <<authority, net, assembly>> /\ ctl[n].pc = "send" /\ ctl[n].left = {}
  BY DEF FinishKey
<1>2. /\ ctl'[n].pc \in {"idle", "send"}
      /\ n # Host => ctl'[n].pc # "send" \/ ~ctl'[n].ok \/ ctl'[n].left # {}
      /\ \A k \in Nodes \ {n} : ctl'[k] = ctl[k]
  <2>1. ctl[n] \in Rounds /\ NextKey(n, ctl[n])
    BY DEF IInv, CtlOK, FinishKey
  <2>q. QED
    BY <2>1, NextKeyIsOpen
<1>3. Arrived(Host)' = Arrived(Host)
  BY <1>1, <1>2, NothingArrives
<1>4. \A m \in Members : /\ hot'[Host][m].seq = hot[Host][m].seq
                         /\ hot'[Host][m].rev = hot[Host][m].rev
                         /\ SameKey(hot'[m][m], hot[m][m])
  BY NodeFacts, FinishKeyIsCalm DEF Calm, SameKey
<1>5. PICK key : key = ctl[n].key /\ key \in Keys
  BY DEF IInv, CtlOK, Rounds
<1>6. \/ hot' = hot
      \/ /\ ctl[n].ok /\ MarksPublished(n, key)
         /\ hot' = [hot EXCEPT ![n][key.owner].pending = FALSE]
  BY <1>5 DEF FinishKey
<1>7. ASSUME NEW m \in Members PROVE Published(m)' \subseteq Published(m)
  <2>0. m \in Nodes /\ hot \in [Nodes -> [Nodes -> Snapshots]] /\ key.owner \in Nodes
    BY <1>5, NodeFacts DEF IInv, HotOK, Keys
  <2>1. CASE m # n \/ key.owner # m \/ hot' = hot
    <3>1. hot'[m][m] = hot[m][m]
      <4>1. CASE hot' = hot
        BY <4>1
      <4>2. CASE m # n /\ hot' = [hot EXCEPT ![n][key.owner].pending = FALSE]
        BY <2>0, <4>2
      <4>3. CASE key.owner # m /\ hot' = [hot EXCEPT ![n][key.owner].pending = FALSE]
        BY <2>0, <4>3
      <4>q. QED
        BY <1>6, <2>1, <4>1, <4>2, <4>3
    <3>2. ctl'[m] = ctl[m] \/ ctl'[m].pc # "send" \/ ~ctl'[m].ok \/ ctl'[m].left # {}
      BY <1>2, <2>0, NodeFacts
    <3>q. QED
      BY <3>1, <3>2, PublishedStays
  <2>2. CASE m = n /\ key.owner = m /\ ctl[n].ok /\ MarksPublished(n, key)
    <3>1. key \in Published(m)
      BY <1>1, <1>5, <2>2 DEF Published
    <3>2. key = Key(m, hot[m][m])
      BY <2>2 DEF MarksPublished, StillStored
    <3>3. Key(m, hot[m][m])' = key
      BY <1>4, <3>2 DEF SameKey, Key
    <3>4. ctl'[m].pc # "send" \/ ~ctl'[m].ok \/ ctl'[m].left # {}
      BY <1>2, <2>2, NodeFacts
    <3>q. QED
      BY <3>1, <3>3, <3>4 DEF Published
  <2>q. QED
    BY <1>6, <2>1, <2>2
<1>q. QED
  BY <1>1, <1>3, <1>4, <1>7, SentByOthers

LEMMA SendSends ==
    ASSUME IInv, FlowOK, ChunksOK, SentOK, history.upset \subseteq history'.upset,
           NEW n \in Nodes, Send(n)
    PROVE  SentOK'
<1>1. UNCHANGED <<hot, authority, assembly>> /\ ctl[n].pc = "send"
  BY DEF Send
<1>2. /\ \A k, l \in Nodes : \A i \in 1..Len(net[k][l]) :
            i \in 1..Len(net'[k][l]) /\ net'[k][l][i] = net[k][l][i]
      /\ \A k \in Nodes \ {n} : ctl'[k] = ctl[k]
      /\ ctl'[n].pc = "send" /\ ctl'[n].key = ctl[n].key
  BY SendAppends
<1>3. Arrived(Host)' = Arrived(Host)
  BY <1>1, <1>2, NothingArrives
<1>4. ASSUME NEW m \in Members, NEW key \in Published(m)'
      PROVE  key \in Published(m) \/ key \in Sent'
  <2>1. CASE m = n /\ ctl'[m].ok /\ ctl'[m].left = {} /\ key = ctl'[m].key /\ key.owner = m
    BY <1>2, <2>1, SendDelivers
  <2>2. CASE m # n
    BY <1>1, <1>2, <2>2, NodeFacts, PublishedStays
  <2>3. CASE key = Key(m, hot[m][m])' /\ Held(m, m)' /\ ~hot'[m][m].pending
    BY <1>1, <2>3 DEF Published, Key, Held
  <2>q. QED
    BY <1>4, <2>1, <2>2, <2>3 DEF Published
<1>5. ASSUME NEW key \in Sent, key \in Keys, key.owner \in Members PROVE key \in Sent'
  <2>1. \A i \in 1..Len(net[key.owner][Host]) :
           /\ i \in 1..Len(net'[key.owner][Host])
           /\ net'[key.owner][Host][i] = net[key.owner][Host][i]
    BY <1>2, <1>5, NodeFacts
  <2>2. Begun' = Begun
    BY <1>1 DEF Begun
  <2>q. QED
    BY <1>1, <1>3, <1>5, <2>1, <2>2, SentStays
<1>q. QED
  BY <1>1, <1>4, <1>5, SentFrom

\* A control thread receives.
LEMMA TakeChunkSends ==
    ASSUME IInv, TypeInv, ChunksOK, TableNeat, SentOK, history.upset \subseteq history'.upset,
           NEW n \in Nodes, NEW k \in Nodes, TakeChunk(n, k)
    PROVE  SentOK'
<1>1. UNCHANGED <<hot, authority>> /\ ctl[n].pc = "idle"
  BY DEF TakeChunk
<1>2. /\ ctl'[n].pc \in {"idle", "store"}
      /\ \A l \in Nodes \ {n} : ctl'[l] = ctl[l]
  <2>1. PICK key \in OnLink(k, n) :
              /\ \A l, m \in Nodes : OnLink(l, m)' \subseteq OnLink(l, m)
              /\ \A l \in Nodes : Carried(l)' = Carried(l)
              /\ \A l \in Nodes \ {n} : Arrived(l)' = Arrived(l)
              /\ Arrived(n)' = {} \/ (Arrived(n)' = {key} /\ Accepts(n, k, key))
              /\ receipt' = receipt
                 \/ (n # Host /\ receipt[n] <= key.seq
                     /\ receipt' = [receipt EXCEPT ![n] = key.seq])
              /\ ctl'[n].pc \in {"idle", "store"}
              /\ \A l \in Nodes : /\ ctl'[l].peers = ctl[l].peers
                                  /\ l # n => ctl'[l] = ctl[l]
              /\ history'.made = history.made /\ history'.blank = history.blank
    BY ChunkFlows
  <2>q. QED
    BY <2>1
<1>3. ASSUME NEW m \in Members PROVE Published(m)' \subseteq Published(m)
  BY <1>1, <1>2, NodeFacts, PublishedStays
<1>4. ASSUME NEW key \in Sent, key \in Keys, key.owner \in Members \ history'.upset,
             key.seq = authority
      PROVE  key \in Sent'
  <2>1. CASE n = Host
    BY <1>4, <2>1, TakeChunkDelivers
  <2>2. CASE n # Host
    <3>1. assembly'[Host] = assembly[Host]
      BY <2>2, TakeChunkNeat
    <3>2. PICK q : net' = [net EXCEPT ![k][n] = q]
      BY DEF TakeChunk
    <3>3. net'[key.owner][Host] = net[key.owner][Host]
      BY <1>4, <2>2, <3>2, NodeFacts DEF IInv, NetOK
    <3>4. Arrived(Host)' = Arrived(Host)
      BY <1>2, <2>2, NodeFacts DEF Arrived
    <3>q. QED
      BY <1>1, <1>4, <3>1, <3>3, <3>4, Undisturbed
  <2>q. QED
    BY <2>1, <2>2
<1>q. QED
  BY <1>1, <1>3, <1>4, SentFrom

LEMMA StoreReceivedSends ==
    ASSUME IInv, FlowOK, SentOK, history.upset \subseteq history'.upset, NEW n \in Nodes,
           StoreReceived(n)
    PROVE  SentOK'
<1>1. UNCHANGED <<authority, net, assembly>> /\ ctl' = [ctl EXCEPT ![n] = Idle]
  BY DEF StoreReceived
<1>2. ctl'[n].pc = "idle" /\ \A k \in Nodes \ {n} : ctl'[k] = ctl[k]
  BY <1>1, Defaults DEF IInv, CtlOK
<1>3. PICK key \in Arrived(n), new \in Snapshots :
         /\ key.owner \in Nodes
         /\ hot' = [hot EXCEPT ![n][key.owner] = new]
         /\ new = hot[n][key.owner] \/ Key(key.owner, new) = key
         /\ new.seq = key.seq
         /\ hot[n][key.owner].seq = key.seq =>
               new.rev > hot[n][key.owner].rev \/ SameKey(new, hot[n][key.owner])
  BY ReceivedFlows
<1>4. key.owner # n
  BY <1>3 DEF FlowOK
<1>5. ASSUME NEW m \in Members PROVE Published(m)' \subseteq Published(m)
  <2>1. hot'[m][m] = hot[m][m]
    BY <1>3, <1>4, NodeFacts DEF IInv, HotOK
  <2>q. QED
    BY <1>2, <2>1, NodeFacts, PublishedStays
<1>6. ASSUME NEW next \in Sent, next \in Keys, next.owner \in Members \ history'.upset,
             next.seq = authority
      PROVE  next \in Sent'
  <2>1. CASE n = Host
    BY <1>6, <2>1, StoreReceivedDelivers
  <2>2. CASE n # Host
    <3>1. Arrived(Host)' = Arrived(Host)
      BY <1>2, <2>2, NodeFacts DEF Arrived
    <3>2. hot'[Host][next.owner] = hot[Host][next.owner]
      BY <1>3, <1>6, <2>2, NodeFacts DEF IInv, HotOK
    <3>q. QED
      BY <1>1, <1>6, <3>1, <3>2, Undisturbed
  <2>q. QED
    BY <2>1, <2>2
<1>q. QED
  BY <1>1, <1>5, <1>6, SentFrom

\* The callback threads of the host clear what they have of others only.
LEMMA CallbackSends ==
    ASSUME IInv, TypeInv, TableNeat, IntactOK, SentOK,
           history.upset \subseteq history'.upset, NEW n \in Nodes, CallbackStep(n)
    PROVE  SentOK'
<1>1. PICK m \in Nodes : AddPeer(n, m) \/ LosePeer(n, m)
                         \/ MarkForPublish(n, m) \/ ClearTransport(n, m)
  BY DEF CallbackStep
<1>2. UNCHANGED <<authority, net, ctl>> /\ Arrived(Host)' = Arrived(Host)
  BY <1>1 DEF AddPeer, LosePeer, MarkForPublish, ClearTransport, Arrived
<1>3. ASSUME NEW k \in Members
      PROVE  /\ hot'[k][k] = hot[k][k] \/ hot'[k][k].pending
             /\ hot'[Host][k].seq = hot[Host][k].seq
             /\ hot'[Host][k].rev = hot[Host][k].rev
  <2>0. k \in Nodes /\ Host \in Nodes /\ hot \in [Nodes -> [Nodes -> Snapshots]]
    BY NodeFacts DEF IInv, HotOK
  <2>1. CASE MarkForPublish(n, m)
    <3>1. PICK flag \in BOOLEAN : flag = TRUE
      OBVIOUS
    <3>2. PICK entry : entry = [hot[k][k] EXCEPT !.pending = flag]
      OBVIOUS
    <3>3. hot[k][k] \in Snapshots
      BY <2>0
    <3>4. entry.pending
      BY <3>1, <3>2, <3>3 DEF Snapshots
    <3>5. hot'[k][k] = hot[k][k] \/ hot'[k][k] = entry
      BY <2>0, <2>1, <3>1, <3>2 DEF MarkForPublish
    <3>6. SameKey(hot'[Host][k], hot[Host][k])
      BY <2>0, <2>1, MarkIsCalm DEF Calm
    <3>q. QED
      BY <3>4, <3>5, <3>6 DEF SameKey
  <2>2. CASE UNCHANGED hot
    BY <2>2
  <2>q. QED
    BY <1>1, <2>1, <2>2 DEF AddPeer, LosePeer, ClearTransport
<1>4. ASSUME NEW k \in Members PROVE Published(k)' \subseteq Published(k)
  BY <1>2, <1>3, PublishedStays
<1>5. CASE assembly'[Host] = assembly[Host]
  BY <1>2, <1>3, <1>4, <1>5, SentByOthers
<1>6. CASE ClearTransport(Host, m)
  <2>1. UNCHANGED hot /\ <<"clear", m>> \in callback[Host]
    BY <1>6 DEF ClearTransport
  <2>2. ASSUME NEW key \in Sent, key \in Keys, key.owner \in Members \ history'.upset
        PROVE  key \in Sent'
    <3>1. key.owner # m
      BY <2>1, <2>2 DEF IntactOK
    <3>2. CASE key \in Arrived(Host) \cup AtHost
      BY <1>2, <2>1, <3>2 DEF Sent, AtHost
    <3>3. CASE key \in OnWay
      <4>1. key \in Begun => key \in Begun'
        BY <1>6, <3>1, ClearTransportNeat
      <4>q. QED
        BY <1>2, <3>3, <4>1 DEF Sent, OnWay, At
    <3>q. QED
      BY <2>2, <3>2, <3>3 DEF Sent
  <2>q. QED
    BY <1>2, <1>4, <2>2, SentFrom
<1>q. QED
  <2>1. CASE UNCHANGED assembly
    BY <1>5, <2>1
  <2>2. CASE ClearTransport(n, m) /\ n # Host
    <3>1. PICK t : assembly' = [assembly EXCEPT ![n] = t]
      BY <2>2 DEF ClearTransport
    <3>2. assembly'[Host] = assembly[Host]
      BY <2>2, <3>1, NodeFacts DEF TypeInv, TableOK
    <3>q. QED
      BY <1>5, <3>2
  <2>q. QED
    BY <1>1, <1>6, <2>1, <2>2 DEF AddPeer, LosePeer, MarkForPublish

\* What goes wrong for a member concerns its own keys only.
LEMMA EnvironmentSends ==
    ASSUME IInv, TypeInv, IntactOK, SentOK, history.upset \subseteq history'.upset,
           NEW m \in Members, Break(m) \/ Reconnect(m) \/ Restart(m) \/ Restore(m)
    PROVE  SentOK'
<1>0. /\ m \in Nodes /\ Host \in Nodes /\ m # Host /\ history \in Histories
      /\ hot \in [Nodes -> [Nodes -> Snapshots]] /\ ctl \in [Nodes -> Rounds]
      /\ net \in [Nodes -> [Nodes -> Seq(Packets)]] /\ assembly \in [Nodes -> Seq(Bodies)]
  BY NodeFacts DEF IInv, HotOK, CtlOK, NetOK, HistoryOK, TypeInv, TableOK
<1>1. UNCHANGED authority
  BY DEF Break, Reconnect, Restart, Restore
<1>2. m \in history'.upset \/ Reconnect(m)
  <2>1. CASE Break(m)
    BY <1>0, <2>1 DEF Break, Upset, Histories
  <2>2. CASE Restart(m)
    BY <1>0, <2>2 DEF Restart, Histories
  <2>3. CASE Restore(m)
    BY <2>3 DEF Restore, IntactOK
  <2>q. QED
    BY <2>1, <2>2, <2>3
<1>3. /\ \/ hot' = hot
         \/ \E e : hot' = [hot EXCEPT ![m] = e] \/ hot' = [hot EXCEPT ![m][m] = e]
      /\ ctl' = ctl \/ ctl' = [ctl EXCEPT ![m] = Idle]
      /\ net' = net \/ net' = Lost(m)
      /\ assembly' = assembly \/ assembly' = [assembly EXCEPT ![m] = <<>>]
  <2>1. CASE Break(m) \/ Reconnect(m)
    BY <2>1 DEF Break, Reconnect
  <2>2. CASE Restart(m)
    BY <2>2 DEF Restart
  <2>3. CASE Restore(m)
    BY <2>3 DEF Restore
  <2>q. QED
    BY <2>1, <2>2, <2>3
<1>4. CASE Reconnect(m)
  <2>1. UNCHANGED <<hot, ctl, net, assembly>>
    BY <1>4 DEF Reconnect
  <2>2. Arrived(Host)' = Arrived(Host)
    BY <2>1 DEF Arrived
  <2>3. \A k \in Members : Published(k)' \subseteq Published(k)
    BY <2>1, PublishedStays
  <2>q. QED
    BY <1>1, <2>1, <2>2, <2>3, SentByOthers
<1>5. CASE m \in history'.upset
  <2>1. ASSUME NEW k \in Nodes \ {m}
        PROVE  /\ hot'[k] = hot[k] /\ ctl'[k] = ctl[k]
               /\ assembly'[k] = assembly[k]
    BY <1>0, <1>3
  <2>2. Arrived(Host)' = Arrived(Host)
    BY <1>0, <2>1 DEF Arrived
  <2>3. ASSUME NEW k \in Members \ history'.upset PROVE Published(k)' \subseteq Published(k)
    BY <1>5, <2>1, NodeFacts, PublishedStays
  <2>4. ASSUME NEW key \in Sent, key \in Keys, key.owner \in Members \ history'.upset
        PROVE  key \in Sent'
    <3>1. key.owner # m /\ key.owner \in Nodes /\ key.owner # Host
      BY <1>5, <2>4, NodeFacts
    <3>2. net'[key.owner][Host] = net[key.owner][Host]
      BY <1>0, <1>3, <3>1 DEF Lost
    <3>q. QED
      BY <1>0, <1>1, <2>1, <2>2, <2>4, <3>2, Undisturbed
  <2>q. QED
    BY <1>1, <2>3, <2>4, SentFrom
<1>q. QED
  BY <1>2, <1>4, <1>5

LEMMA NextDelivers ==
    ASSUME IInv, TypeInv, OrderInv, DeliveryInv, Next PROVE DeliveryInv'
<1>0. /\ ChunksOK /\ TableNeat /\ IntactOK /\ SentOK /\ FlowOK
      /\ history.upset \subseteq history'.upset
  BY UpsetGrows DEF DeliveryInv, OrderInv
<1>1. ChunksOK' /\ TableNeat' /\ IntactOK'
  BY <1>0, NextNeat, NextIntact
<1>2. ASSUME NEW n \in Nodes, ControlStep(n) PROVE SentOK'
  BY <1>0, <1>2, CollectSends, FinishKeySends, SendSends, TakeChunkSends, StoreReceivedSends
     DEF ControlStep
<1>3. SentOK'
  BY <1>0, <1>2, GameSends, HostSends, CallbackSends, EnvironmentSends DEF Next
<1>q. QED
  BY <1>1, <1>3 DEF DeliveryInv

LEMMA StutterDelivers == ASSUME DeliveryInv, UNCHANGED vars PROVE DeliveryInv'
<1>1. UNCHANGED <<hot, ctl, net, assembly, authority, callback, up, history>>
  BY DEF vars
<1>2. ChunksOK' /\ TableNeat' /\ IntactOK'
  BY <1>1 DEF DeliveryInv, ChunksOK, TableNeat, Neat, IntactOK
<1>3. Sent' = Sent
  <2>1. Arrived(Host)' = Arrived(Host) /\ Begun' = Begun
    BY <1>1 DEF Arrived, Begun
  <2>2. OnWay' = OnWay /\ AtHost' = AtHost
    BY <1>1, <2>1 DEF OnWay, At, AtHost
  <2>q. QED
    BY <2>1, <2>2 DEF Sent
<1>4. \A m \in Members : Published(m)' = Published(m)
  BY <1>1 DEF Published, Key, Held
<1>5. SentOK'
  BY <1>1, <1>3, <1>4 DEF DeliveryInv, SentOK
<1>q. QED
  BY <1>2, <1>5 DEF DeliveryInv

LEMMA InitDelivers == Init => DeliveryInv
<1> SUFFICES ASSUME Init PROVE DeliveryInv
  OBVIOUS
<1>1. Len(<<>>) = 0
  BY EmptySeq
<1>2. ChunksOK /\ TableNeat
  BY <1>1, NodeFacts DEF Init, ChunksOK, TableNeat, Neat
<1>3. IntactOK
  BY NodeFacts DEF Init, IntactOK
<1>4. \A m \in Members : Published(m) = {}
  BY NodeFacts, Defaults DEF Init, Published, Held, NoSnapshot
<1>5. SentOK
  BY <1>4 DEF SentOK
<1>q. QED
  BY <1>2, <1>3, <1>5 DEF DeliveryInv

\* Every step keeps what an untouched member has published on its way or at the
\* host, in whatever order chunks, relays, marks and expiries of others come.
THEOREM PublishedIsDelivered == Spec => []DeliveryInv
<1>1. IInv /\ TypeInv /\ [Next]_vars => TypeInv'
  BY NextTable, NextPeople DEF TypeInv, TableOK, PeopleOK, vars
<1>2. Spec => []TypeInv
  BY <1>1, InitTypeInv, OnlyGenuineSnapshots, PTL DEF Spec
<1>3. IInv /\ TypeInv /\ OrderInv /\ DeliveryInv /\ [Next]_vars => DeliveryInv'
  BY NextDelivers, StutterDelivers
<1>q. QED
  BY <1>2, <1>3, InitDelivers, OnlyGenuineSnapshots, OwnersStayAhead, PTL DEF Spec

\* Hence the data of a member that nothing has gone wrong for, and that has
\* nothing left to publish, is what the host holds, unless what the host holds
\* is a rebound snapshot of an earlier generation, of no earlier revision.
THEOREM PublishedIsAlwaysHeld == Spec => []PublishedIsHeld
<1>1. ASSUME IInv, OrderInv, OwnerIsNewest, DeliveryInv PROVE PublishedIsHeld
  <2>1. SUFFICES ASSUME NEW m \in Members \ history.upset, Held(m, m), Quiet(m),
                        hot[m][m].seq = authority
                 PROVE  \/ [hot[Host][m] EXCEPT !.pending = FALSE] = hot[m][m]
                        \/ Rebound(m) /\ hot[Host][m].rev >= hot[m][m].rev
    BY DEF PublishedIsHeld
  <2>2. m \in Nodes /\ Host \in Nodes
    BY NodeFacts
  <2>3. PICK own, copy, key : own = hot[m][m] /\ copy = hot[Host][m] /\ key = Key(m, own)
    OBVIOUS
  <2>4. /\ own \in Snapshots /\ copy \in Snapshots /\ own.rev \in Nat /\ copy.rev \in Nat
        /\ key.owner = m /\ key.seq = authority /\ key.rev = own.rev
    BY <1>1, <2>1, <2>2, <2>3, EntryFacts DEF Key
  <2>5. ~own.pending /\ net[m][Host] = <<>> /\ ctl[Host].pc # "store"
    BY <2>1, <2>3 DEF Quiet
  <2>6. key \in Sent
    <3>1. key \in Published(m)
      BY <2>1, <2>3, <2>5 DEF Published
    <3>q. QED
      BY <1>1, <2>1, <2>4, <3>1 DEF DeliveryInv, SentOK
  <2>7. key \in AtHost
    <3>1. Len(net[m][Host]) = 0 /\ Arrived(Host) = {}
      BY <2>5, EmptySeq DEF Arrived
    <3>2. key \notin OnWay
      BY <2>4, <3>1 DEF OnWay
    <3>q. QED
      BY <2>6, <3>1, <3>2 DEF Sent
  <2>8. copy.seq = authority /\ own.rev <= copy.rev
    BY <2>3, <2>4, <2>7 DEF AtHost
  <2>9. CASE Key(m, copy) \in history.made[m]
    <3>1. m \notin history.blank
      BY <1>1, <2>1 DEF DeliveryInv, IntactOK
    <3>2. Held(Host, m)
      BY <2>1, <2>3, <2>8 DEF Held
    <3>3. copy.rev < own.rev \/ (copy.rev = own.rev /\ copy.val = own.val)
      BY <1>1, <2>1, <2>2, <2>3, <2>8, <2>9, <3>1, <3>2 DEF OwnerIsNewest
    <3>4. copy.rev = own.rev /\ copy.val = own.val /\ copy.seq = own.seq
      BY <2>1, <2>3, <2>4, <2>8, <3>3
    <3>5. own.pending = FALSE
      BY <2>4, <2>5 DEF Snapshots
    <3>6. [copy EXCEPT !.pending = FALSE] = own
      BY <2>4, <3>4, <3>5 DEF Snapshots
    <3>q. QED
      BY <2>3, <3>6
  <2>10. CASE Key(m, copy) \notin history.made[m]
    <3>1. Rebound(m)
      BY <2>1, <2>3, <2>8, <2>10 DEF Rebound, Held
    <3>q. QED
      BY <2>3, <2>4, <2>8, <3>1
  <2>q. QED
    BY <2>9, <2>10
<1>q. QED
  BY <1>1, OnlyGenuineSnapshots, OwnersStayAhead, OwnerIsAlwaysNewest, PublishedIsDelivered,
     PTL
=============================================================================
