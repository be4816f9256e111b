--------------------------- MODULE TransferProofs ---------------------------
(***************************************************************************)
(* Proofs about Transfer, for every tree and every size of the channel and *)
(* of a batch: what an export sends is the whole version, whatever is      *)
(* pruned beside it, and an import whose root is in the database lacks one *)
(* batch at most.                                                          *)
(***************************************************************************)
EXTENDS Transfer, SequenceTheorems, FiniteSetTheorems, TLAPS

(* A leaf is for Zenon unless it names the SMT solver; each prover has up to
   sixty seconds, so that no proof depends on the speed of a machine.       *)
USE ZenonT(60)

Entries == [node : Nodes, delayed : BOOLEAN]
Exporters == [pc : {"new", "export", "closed"}, delayed : Seq(Entries), node : Nodes \cup {0},
              ch : Seq(Nodes), cancelled : BOOLEAN]
Importers == [stack : Seq(Nodes), batch : SUBSET Nodes, todo : Seq(Nodes), adding : Nodes \cup {0}, max : Nat]
Flights == [pc : {"none", "write", "send"}, nodes : SUBSET Nodes, failed : BOOLEAN]

(* The consumer has the exporter open; adds nodes; has received them all;  *)
(* is done.                                                                *)
Open == {"next", "add", "closeDone", "closeEarly"}
Adding == {"start", "next", "add", "closeDone", "commit"}
Complete == {"closeDone", "commit", "commitRoot", "commitLoad", "commitClose", "committed"}
Over == {"committed", "aborted", "crashed"}

Types ==
  /\ source \subseteq Nodes /\ disk \subseteq Nodes
  /\ pruner \in {"before", "deleting", "after"}
  /\ exporter \in Exporters /\ importer \in Importers /\ flight \in Flights
  /\ consumer \in Open \cup Complete \cup Over \cup {"start", "abort"}
  /\ got \in Seq(Nodes)

(* The version has a reader for as long as its exporter is open, and what  *)
(* has a reader is not deleted.                                            *)
Guarded ==
  /\ consumer = "start" => exporter = Stopped
  /\ consumer \in Open => readers = 1 /\ exporter.pc # "new" /\ pruner = "before"
  /\ consumer \notin Open => readers = 0 /\ exporter.pc # "export"
  /\ pruner = "before" => source = Nodes

(* Where the nodes that an entry of the traversal stands for begin.        *)
Start(e) == IF e.delayed THEN First(e.node) ELSE e.node

(* The entries stand for the nodes from u on, the last entry first.        *)
Chained(d, u) ==
  IF d = <<>> THEN u = N + 1
  ELSE /\ Start(d[Len(d)]) = u
       /\ d[1].node = N
       /\ \A i \in 1 .. Len(d) - 1 : Start(d[i]) = d[i + 1].node + 1

(* What is in the channel, the node at hand and the entries of the         *)
(* traversal follow node n in post-order.                                  *)
Following(e, n) ==
  /\ ~e.cancelled
  /\ \A i \in DOMAIN e.ch : e.ch[i] = n + i
  /\ e.node # 0 => e.node = n + Len(e.ch) + 1
  /\ Chained(e.delayed, n + Len(e.ch) + (IF e.node = 0 THEN 1 ELSE 2))
  /\ e.pc = "closed" => e.node = 0 /\ e.delayed = <<>>

Ordered ==
  /\ \A i \in DOMAIN got : got[i] = i
  /\ consumer = "start" => got = <<>>
  /\ consumer \in {"next", "add"} => Following(exporter, Len(got))
  /\ consumer \in Complete => Len(got) = N

(* The stack has the subtrees of the nodes up to n that have no parent     *)
(* among them, side by side.                                               *)
Tiled(s, n) ==
  IF n = 0 THEN s = <<>>
  ELSE /\ s # <<>> /\ s[Len(s)] = n /\ First(s[1]) = 1
       /\ \A i \in 1 .. Len(s) - 1 : s[i] = First(s[i + 1]) - 1

(* How many of the nodes that were received are on the stack or below.     *)
Added == IF consumer = "add" THEN Len(got) - 1 ELSE Len(got)

Stacked ==
  /\ consumer \in Adding => Tiled(importer.stack, Added)
  /\ consumer = "add" => got # <<>> /\ importer.adding = Len(got)

Elements(s) == {s[i] : i \in DOMAIN s}

(* The nodes that the batch, the one being written or the database has.    *)
Held == importer.batch \cup flight.nodes \cup disk

(* A goroutine that has sent no error has written its batch.               *)
Flying ==
  /\ flight.pc = "none" => flight = Idle
  /\ flight.pc = "write" => ~flight.failed
  /\ flight.pc = "send" /\ ~flight.failed => flight.nodes \subseteq disk
  /\ consumer \in Over \cup {"start"} => flight = Idle

(* Nodes are missing below a root in the database only if they are in the  *)
(* batch that was being written last.                                      *)
LastBatchMissing == Root \in disk => Nodes \ disk \subseteq dropped \cup flight.nodes

(* Every node that was added is on the stack or was given to a batch.  The *)
(* root is the last to be, so that it is in the database only if all of    *)
(* the others are, or will be when the batch being written is.             *)
Accounted ==
  /\ consumer \in Open \cup {"start", "commit"} => Root \notin Held
  /\ consumer \in Adding => 1 .. Added \subseteq Elements(importer.stack) \cup Held
  /\ consumer = "add" =>
       LET below == ToWrite(importer.stack, importer.adding)
       IN  /\ Elements(importer.todo) \subseteq Elements(below)
           /\ Elements(below) \subseteq Elements(importer.todo) \cup Held
  /\ consumer = "commitRoot" =>
       \/ importer.todo = <<Root>> /\ Root \notin Held /\ Nodes \ {Root} \subseteq Held
       \/ importer.todo = <<>> /\ Nodes \subseteq Held
  /\ consumer \in {"commitLoad", "commitClose"} => Nodes \subseteq flight.nodes \cup disk
  /\ Root \in flight.nodes => Nodes \subseteq flight.nodes \cup disk
  /\ Root \in disk /\ consumer \in {"commitRoot", "abort"} => Nodes \subseteq disk
  /\ LastBatchMissing

(* The inductive invariant.                                                *)
IInv == Types /\ Guarded /\ Ordered /\ Stacked /\ Flying /\ Accounted

-----------------------------------------------------------------------------
(* Nodes are the numbers up to the root.                                   *)
LEMMA NodeNumbers == N \in Nat /\ N > 0 /\ Nodes = 1 .. N /\ Root = N /\ \A i \in Nodes : Heights[i] \in Nat
  BY SMTT(60), HeightsAssumption DEF N, Nodes, Root

(* The beginning of a sequence.                                            *)
LEMMA Front ==
  ASSUME NEW S, NEW s \in Seq(S), NEW m \in Int, 0 <= m, m <= Len(s)
  PROVE  /\ SubSeq(s, 1, m) \in Seq(S) /\ Len(SubSeq(s, 1, m)) = m
         /\ \A i \in 1 .. m : SubSeq(s, 1, m)[i] = s[i]
<1>1. \A i \in 1 .. m : s[i] \in S
  BY SMTT(60)
<1>2. /\ SubSeq(s, 1, m) \in Seq(S) /\ Len(SubSeq(s, 1, m)) = IF 1 <= m THEN m - 1 + 1 ELSE 0
      /\ \A i \in 1 .. m - 1 + 1 : SubSeq(s, 1, m)[i] = s[1 + i - 1]
  BY SMTT(60), <1>1, SubSeqProperties
<1> QED
  BY SMTT(60), <1>2

(* What the last of the entries stands for, without its children.          *)
LEMMA ChainPop ==
  ASSUME NEW d \in Seq(Entries), d # <<>>, NEW u \in Nat, Chained(d, u),
         ~d[Len(d)].delayed \/ isLeaf(d[Len(d)].node)
  PROVE  LET rest == SubSeq(d, 1, Len(d) - 1)
         IN  d[Len(d)].node = u /\ rest \in Seq(Entries) /\ Chained(rest, u + 1)
<1> DEFINE L == Len(d)
           rest == SubSeq(d, 1, L - 1)
<1>1. L \in Nat /\ L > 0 /\ d[L] \in Entries
  BY SMTT(60), EmptySeq, LenProperties
<1>2. rest \in Seq(Entries) /\ Len(rest) = L - 1 /\ \A i \in 1 .. L - 1 : rest[i] = d[i]
  <2>1. L - 1 \in Int /\ 0 <= L - 1 /\ L - 1 <= Len(d)
    BY SMTT(60), <1>1
  <2> QED
    BY <2>1, Front
<1>3. Start(d[L]) = u /\ d[1].node = N /\ \A i \in 1 .. L - 1 : Start(d[i]) = d[i + 1].node + 1
  BY DEF Chained
<1>4. d[L].node = u /\ u \in Nodes
  BY <1>1, <1>3, TreeAssumption DEF Start, Entries
<1>5. SUFFICES Chained(rest, u + 1)
  BY <1>2, <1>4
<1> HIDE DEF L, rest
<1>6. CASE L = 1
  <2>1. rest = <<>>
    BY SMTT(60), <1>2, <1>6, EmptySeq
  <2> QED
    BY <1>3, <1>4, <1>6, <2>1, NodeNumbers DEF Chained
<1>7. CASE L > 1
  <2>1. rest # <<>>
    BY SMTT(60), <1>1, <1>2, <1>7, EmptySeq
  <2>2. rest[1].node = N
    BY SMTT(60), <1>1, <1>2, <1>3, <1>7
  <2>3. L - 1 \in 1 .. L - 1 /\ (L - 1) + 1 = L
    BY SMTT(60), <1>1, <1>7
  <2>4. Start(rest[L - 1]) = u + 1
    BY <1>2, <1>3, <1>4, <2>3
  <2>5. ASSUME NEW i \in 1 .. (L - 1) - 1
        PROVE  Start(rest[i]) = rest[i + 1].node + 1
    <3>1. i \in 1 .. L - 1 /\ i + 1 \in 1 .. L - 1
      BY SMTT(60), <1>1
    <3> QED
      BY <1>2, <1>3, <3>1
  <2> QED
    BY <1>2, <2>1, <2>2, <2>4, <2>5 DEF Chained
<1> QED
  BY SMTT(60), <1>1, <1>6, <1>7

(* A branch in the place of its subtree, with its children before it.      *)
LEMMA ChainPush ==
  ASSUME NEW d \in Seq(Entries), d # <<>>, NEW u \in Nat, Chained(d, u),
         d[Len(d)].delayed, ~isLeaf(d[Len(d)].node)
  PROVE  LET p == Pushed(SubSeq(d, 1, Len(d) - 1), d[Len(d)].node)
         IN  p \in Seq(Entries) /\ Chained(p, u)
<1> DEFINE L == Len(d)
           rest == SubSeq(d, 1, L - 1)
           n == d[L].node
           a == [node |-> n, delayed |-> FALSE]
           b == [node |-> Right(n), delayed |-> TRUE]
           c == [node |-> Left(n), delayed |-> TRUE]
           p == Pushed(rest, n)
<1>1. L \in Nat /\ L > 0 /\ d[L] \in Entries /\ n \in Nodes
  <2>1. L \in Nat /\ L > 0 /\ d[L] \in Entries
    BY SMTT(60), EmptySeq, LenProperties
  <2> QED
    BY <2>1 DEF Entries
<1>2. rest \in Seq(Entries) /\ Len(rest) = L - 1 /\ \A i \in 1 .. L - 1 : rest[i] = d[i]
  <2>1. L - 1 \in Int /\ 0 <= L - 1 /\ L - 1 <= Len(d)
    BY SMTT(60), <1>1
  <2> QED
    BY <2>1, Front
<1>3. /\ Left(n) \in Nodes /\ Right(n) \in Nodes /\ First(Left(n)) = First(n)
      /\ First(Right(n)) = Left(n) + 1 /\ Right(n) + 1 = n
  <2>1. Left(n) \in Nodes /\ Right(n) \in Nodes /\ First(Left(n)) = First(n)
    BY <1>1, TreeAssumption
  <2>2. First(Right(n)) \in Nat
    BY SMTT(60), <2>1, TreeAssumption, NodeNumbers
  <2> QED
    BY SMTT(60), <1>1, <2>1, <2>2, NodeNumbers DEF Left, Right
<1>4. a \in Entries /\ b \in Entries /\ c \in Entries
  BY <1>1, <1>3 DEF Entries
<1>5. Start(a) = n /\ Start(b) = Left(n) + 1 /\ Start(c) = u /\ a.node = n /\ b.node = Right(n) /\ c.node = Left(n)
  BY <1>3 DEF Start, Chained
<1>6. d[1].node = N /\ \A i \in 1 .. L - 1 : Start(d[i]) = d[i + 1].node + 1
  BY DEF Chained
<1>7. d[L].node = n
  OBVIOUS
<1>8. p = rest \o <<a, b, c>>
  BY DEF Pushed
<1>9. Right(n) + 1 = n /\ Right(n) \in Nat /\ Left(n) \in Nat /\ n \in Nat
  BY SMTT(60), <1>1, <1>3, NodeNumbers
<1>10. SUFFICES p \in Seq(Entries) /\ Chained(p, u)
  OBVIOUS
<1> HIDE DEF a, b, c, n, p, rest, L
<1>11. /\ p \in Seq(Entries) /\ Len(p) = L + 2
       /\ \A i \in 1 .. L - 1 : p[i] = d[i]
       /\ p[L] = a /\ p[L + 1] = b /\ p[L + 2] = c
  <2> DEFINE q == <<a, b, c>>
  <2>1. q \in Seq(Entries) /\ Len(q) = 3 /\ q[1] = a /\ q[2] = b /\ q[3] = c
    BY SMTT(60), <1>4
  <2>2. p = rest \o q
    BY <1>8
  <2> HIDE DEF q
  <2>3. /\ p \in Seq(Entries) /\ Len(p) = Len(rest) + Len(q)
        /\ \A i \in 1 .. Len(rest) + Len(q) : p[i] = IF i <= Len(rest) THEN rest[i] ELSE q[i - Len(rest)]
    <3>1. rest \in Seq(Entries) /\ q \in Seq(Entries)
      BY <1>2, <2>1
    <3>2. /\ rest \o q \in Seq(Entries) /\ Len(rest \o q) = Len(rest) + Len(q)
          /\ \A i \in 1 .. Len(rest) + Len(q) : (rest \o q)[i] = IF i <= Len(rest) THEN rest[i] ELSE q[i - Len(rest)]
      BY <3>1, ConcatProperties
    <3> QED
      BY <2>2, <3>2
  <2>4. Len(rest) + Len(q) = L + 2 /\ Len(rest) = L - 1
    BY SMTT(60), <1>1, <1>2, <2>1
  <2>5. \A i \in 1 .. L + 2 : p[i] = IF i <= L - 1 THEN rest[i] ELSE q[i - (L - 1)]
    BY <2>3, <2>4
  <2>6. /\ L - (L - 1) = 1 /\ (L + 1) - (L - 1) = 2 /\ (L + 2) - (L - 1) = 3
        /\ L \in 1 .. L + 2 /\ L + 1 \in 1 .. L + 2 /\ L + 2 \in 1 .. L + 2
        /\ ~(L <= L - 1) /\ ~(L + 1 <= L - 1) /\ ~(L + 2 <= L - 1)
    BY SMTT(60), <1>1
  <2>7. p[L] = q[1] /\ p[L + 1] = q[2] /\ p[L + 2] = q[3]
    BY <2>5, <2>6
  <2>8. \A i \in 1 .. L - 1 : p[i] = d[i]
    BY SMTT(60), <1>1, <1>2, <2>5
  <2> QED
    BY <2>1, <2>3, <2>4, <2>7, <2>8
<1>12. p[1].node = N
  <2>1. CASE L = 1
    BY <1>5, <1>6, <1>7, <1>11, <2>1
  <2>2. CASE L > 1
    <3>1. 1 \in 1 .. L - 1
      BY SMTT(60), <1>1, <2>2
    <3> QED
      BY <1>6, <1>11, <3>1
  <2> QED
    BY SMTT(60), <1>1, <2>1, <2>2
<1>13. ASSUME NEW i \in 1 .. Len(p) - 1
       PROVE  Start(p[i]) = p[i + 1].node + 1
  <2>1. CASE i < L - 1
    <3>1. i \in 1 .. L - 1 /\ i + 1 \in 1 .. L - 1
      BY SMTT(60), <1>1, <2>1
    <3> QED
      BY <1>6, <1>11, <3>1
  <2>2. CASE i = L - 1
    <3>1. i \in 1 .. L - 1 /\ i + 1 = L
      BY SMTT(60), <1>1, <2>2
    <3> QED
      BY SMTT(60), <1>5, <1>6, <1>7, <1>11, <3>1
  <2>3. CASE i = L
    BY <1>5, <1>9, <1>11, <2>3
  <2>4. CASE i = L + 1
    <3>1. i + 1 = L + 2
      BY SMTT(60), <1>1, <2>4
    <3> QED
      BY <1>5, <1>11, <2>4, <3>1
  <2> QED
    BY SMTT(60), <1>1, <1>11, <2>1, <2>2, <2>3, <2>4
<1>14. p # <<>>
  BY SMTT(60), <1>1, <1>11, EmptySeq
<1>15. Start(p[Len(p)]) = u
  BY <1>5, <1>11
<1> QED
  BY <1>11, <1>12, <1>13, <1>14, <1>15 DEF Chained

(* What Add does to the stack: a branch finds its children on top of it.   *)
LEMMA StackAdd ==
  ASSUME NEW s \in Seq(Nodes), NEW n \in 0 .. N - 1, Tiled(s, n)
  PROVE  LET w == ToWrite(s, n + 1)
             t == Append(SubSeq(s, 1, Len(s) - Len(w)), n + 1)
         IN  /\ w \in Seq(Nodes) /\ Elements(w) \subseteq 1 .. n
             /\ t \in Seq(Nodes) /\ Tiled(t, n + 1)
             /\ Elements(s) \cup {n + 1} \subseteq Elements(t) \cup Elements(w)
<1> DEFINE i == n + 1
           L == Len(s)
           w == ToWrite(s, i)
           kept == SubSeq(s, 1, L - Len(w))
           t == Append(kept, i)
<1>1. /\ i \in Nodes /\ L \in Nat /\ DOMAIN s = 1 .. L /\ (\A j \in 1 .. L : s[j] \in Nodes)
      /\ n \in Nat /\ i = n + 1 /\ (n # 0 => n \in Nodes) /\ (s # <<>> => L > 0) /\ n < N
  BY SMTT(60), NodeNumbers, LenProperties, EmptySeq
<1>2. SUFFICES /\ w \in Seq(Nodes) /\ Elements(w) \subseteq 1 .. n
               /\ t \in Seq(Nodes) /\ Tiled(t, i)
               /\ Elements(s) \cup {i} \subseteq Elements(t) \cup Elements(w)
  OBVIOUS
<1>3. /\ n = 0 => s = <<>>
      /\ n # 0 => /\ s # <<>> /\ s[L] = n /\ First(s[1]) = 1
                  /\ \A j \in 1 .. L - 1 : s[j] = First(s[j + 1]) - 1
  BY DEF Tiled
<1>4. w = IF L >= 2 /\ Heights[s[L]] < Heights[i] /\ Heights[s[L - 1]] < Heights[i]
          THEN <<s[L - 1], s[L]>> ELSE <<>>
  BY DEF ToWrite
<1>5. ASSUME Len(w) \in Nat, Len(w) <= L
      PROVE  /\ t \in Seq(Nodes) /\ Len(t) = L - Len(w) + 1 /\ t[L - Len(w) + 1] = i
             /\ \A j \in 1 .. L - Len(w) : t[j] = s[j]
             /\ DOMAIN t = 1 .. L - Len(w) + 1 /\ t # <<>>
  <2>1. L - Len(w) \in Int /\ 0 <= L - Len(w) /\ L - Len(w) <= Len(s)
    BY SMTT(60), <1>1, <1>5
  <2>2. kept \in Seq(Nodes) /\ Len(kept) = L - Len(w) /\ \A j \in 1 .. L - Len(w) : kept[j] = s[j]
    BY <2>1, Front
  <2> HIDE DEF kept, w
  <2> QED
    BY SMTT(60), <1>1, <2>2, AppendProperties, LenProperties
<1> HIDE DEF L, w, kept, t, i
<1>6. CASE isLeaf(i)
  <2>1. Heights[i] = 0 /\ First(i) = i
    BY <1>1, <1>6, TreeAssumption DEF isLeaf
  <2>2. w = <<>>
    BY SMTT(60), <1>1, <1>4, <2>1, NodeNumbers
  <2>3. Len(w) = 0 /\ w \in Seq(Nodes) /\ Elements(w) = {}
    BY SMTT(60), <2>2 DEF Elements
  <2>4. /\ t \in Seq(Nodes) /\ Len(t) = L + 1 /\ t[L + 1] = i /\ t # <<>>
        /\ (\A j \in 1 .. L : t[j] = s[j]) /\ DOMAIN t = 1 .. L + 1
    BY SMTT(60), <1>1, <1>5, <2>3
  <2>5. Tiled(t, i)
    <3>1. CASE n = 0
      <4>1. L = 0
        BY SMTT(60), <1>3, <3>1 DEF L
      <4> QED
        BY SMTT(60), <1>1, <2>1, <2>4, <3>1, <4>1 DEF Tiled
    <3>2. CASE n # 0
      <4>1. First(t[1]) = 1
        BY SMTT(60), <1>1, <1>3, <2>4, <3>2
      <4>2. ASSUME NEW j \in 1 .. L
            PROVE  t[j] = First(t[j + 1]) - 1
        <5>1. CASE j = L
          BY SMTT(60), <1>1, <1>3, <2>1, <2>4, <3>2, <5>1
        <5>2. CASE j < L
          <6>1. j \in 1 .. L - 1 /\ j + 1 \in 1 .. L
            BY SMTT(60), <1>1, <5>2
          <6> QED
            BY <1>3, <2>4, <3>2, <6>1
        <5> QED
          BY SMTT(60), <1>1, <5>1, <5>2
      <4> QED
        BY SMTT(60), <1>1, <2>4, <4>1, <4>2 DEF Tiled
    <3> QED
      BY <3>1, <3>2
  <2>6. Elements(s) \cup {i} \subseteq Elements(t)
    BY SMTT(60), <1>1, <2>4 DEF Elements
  <2> QED
    BY <2>3, <2>4, <2>5, <2>6
<1>7. CASE ~isLeaf(i)
  <2>1. /\ Left(i) \in Nodes /\ Right(i) \in Nodes /\ First(Left(i)) = First(i)
        /\ Heights[Left(i)] < Heights[i] /\ Heights[Right(i)] < Heights[i]
    BY <1>1, <1>7, TreeAssumption
  <2>2. Right(i) = n
    BY SMTT(60), <1>1 DEF Right
  <2>3. n \in Nodes /\ n # 0 /\ First(n) \in 1 .. n /\ Left(i) = First(n) - 1
    BY SMTT(60), <2>1, <2>2, TreeAssumption, NodeNumbers DEF Left
  <2>4. s # <<>> /\ s[L] = n /\ First(s[1]) = 1 /\ \A j \in 1 .. L - 1 : s[j] = First(s[j + 1]) - 1
    BY <1>3, <2>3
  <2>5. L >= 2
    <3>1. L # 1
      BY SMTT(60), <2>1, <2>3, <2>4, NodeNumbers
    <3> QED
      BY SMTT(60), <1>1, <2>4, <3>1
  <2>6. L - 1 \in 1 .. L - 1 /\ (L - 1) + 1 = L /\ L \in 1 .. L /\ L - 1 \in 1 .. L
    BY SMTT(60), <1>1, <2>5
  <2>7. s[L - 1] = Left(i)
    BY <2>3, <2>4, <2>6
  <2>8. w = <<s[L - 1], s[L]>>
    BY <1>4, <2>1, <2>2, <2>4, <2>5, <2>7
  <2>9. w \in Seq(Nodes) /\ Len(w) = 2 /\ Elements(w) = {s[L - 1], s[L]}
    BY SMTT(60), <1>1, <2>6, <2>8 DEF Elements
  <2>10. Elements(w) \subseteq 1 .. n
    BY SMTT(60), <1>1, <2>1, <2>3, <2>4, <2>7, <2>9, NodeNumbers
  <2>11. L - Len(w) = L - 2 /\ L - Len(w) + 1 = L - 1
    BY SMTT(60), <1>1, <2>9
  <2>12. /\ t \in Seq(Nodes) /\ Len(t) = L - 1 /\ t[L - 1] = i /\ t # <<>>
         /\ (\A j \in 1 .. L - 2 : t[j] = s[j]) /\ DOMAIN t = 1 .. L - 1
    BY SMTT(60), <1>5, <2>5, <2>9, <2>11
  <2>13. First(t[1]) = 1
    <3>1. CASE L = 2
      BY SMTT(60), <2>1, <2>4, <2>7, <2>12, <3>1
    <3>2. CASE L > 2
      <4>1. 1 \in 1 .. L - 2
        BY SMTT(60), <1>1, <3>2
      <4> QED
        BY <2>4, <2>12, <4>1
    <3> QED
      BY SMTT(60), <1>1, <2>5, <3>1, <3>2
  <2>14. ASSUME NEW j \in 1 .. (L - 1) - 1
         PROVE  t[j] = First(t[j + 1]) - 1
    <3>1. j \in 1 .. L - 1 /\ j \in 1 .. L - 2 /\ s[j] = First(s[j + 1]) - 1
      BY SMTT(60), <1>1, <2>4
    <3>2. CASE j = L - 2
      <4>1. j + 1 = L - 1
        BY SMTT(60), <1>1, <3>2
      <4> QED
        BY <2>1, <2>7, <2>12, <3>1, <4>1
    <3>3. CASE j < L - 2
      <4>1. j + 1 \in 1 .. L - 2
        BY SMTT(60), <1>1, <3>3
      <4> QED
        BY <2>12, <3>1, <4>1
    <3> QED
      BY SMTT(60), <1>1, <3>1, <3>2, <3>3
  <2>15. Tiled(t, i)
    BY SMTT(60), <1>1, <2>12, <2>13, <2>14 DEF Tiled
  <2>16. Elements(s) \cup {i} \subseteq Elements(t) \cup Elements(w)
    <3>1. i \in Elements(t)
      BY <2>6, <2>12 DEF Elements
    <3>2. ASSUME NEW j \in 1 .. L
          PROVE  s[j] \in Elements(t) \cup Elements(w)
      <4>1. CASE j <= L - 2
        <5>1. j \in 1 .. L - 2 /\ j \in 1 .. L - 1
          BY SMTT(60), <1>1, <4>1
        <5> QED
          BY <2>12, <5>1 DEF Elements
      <4>2. CASE j \in {L - 1, L}
        BY <2>9, <4>2
      <4> QED
        BY SMTT(60), <1>1, <4>1, <4>2
    <3> QED
      BY <1>1, <3>1, <3>2 DEF Elements
  <2> QED
    BY <2>9, <2>10, <2>12, <2>15, <2>16
<1> QED
  BY <1>6, <1>7

(* The stack of a whole tree is its root.                                  *)
LEMMA StackWhole ==
  ASSUME NEW s \in Seq(Nodes), Tiled(s, N)
  PROVE  s = <<Root>>
<1>1. s # <<>> /\ s[Len(s)] = N /\ \A i \in 1 .. Len(s) - 1 : s[i] = First(s[i + 1]) - 1
  BY SMTT(60), NodeNumbers DEF Tiled
<1>2. Len(s) = 1
  <2> SUFFICES ASSUME Len(s) # 1 PROVE FALSE
    OBVIOUS
  <2>1. Len(s) - 1 \in 1 .. Len(s) - 1 /\ (Len(s) - 1) + 1 = Len(s)
    <3>1. Len(s) \in Nat /\ Len(s) # 0
      BY <1>1, EmptySeq, LenProperties
    <3>2. \A m \in Nat : m # 0 /\ m # 1 => m - 1 \in 1 .. m - 1 /\ (m - 1) + 1 = m
      BY SMTT(60)
    <3> QED
      BY <3>1, <3>2
  <2>2. s[Len(s) - 1] = First(N) - 1 /\ s[Len(s) - 1] \in Nodes
    BY SMTT(60), <1>1, <2>1
  <2> QED
    BY SMTT(60), <2>2, NodeNumbers, TreeAssumption DEF Root
<1> QED
  BY SMTT(60), <1>1, <1>2, NodeNumbers

-----------------------------------------------------------------------------
(* What each step of the exporter and of its consumer does to the order of *)
(* the nodes.                                                              *)

(* The entries that a branch is replaced by.                               *)
LEMMA PushedType ==
  ASSUME NEW d \in Seq(Entries), NEW i \in Nodes, Left(i) \in Nodes, Right(i) \in Nodes
  PROVE  Pushed(d, i) \in Seq(Entries)
<1> DEFINE a == [node |-> i, delayed |-> FALSE]
           b == [node |-> Right(i), delayed |-> TRUE]
           c == [node |-> Left(i), delayed |-> TRUE]
<1>1. a \in Entries /\ b \in Entries /\ c \in Entries
  BY DEF Entries
<1>2. Pushed(d, i) = d \o <<a, b, c>>
  BY DEF Pushed
<1> HIDE DEF a, b, c
<1>3. <<a, b, c>> \in Seq(Entries)
  BY SMTT(60), <1>1
<1> QED
  BY SMTT(60), <1>2, <1>3

(* The exporter after a round of the traversal.                            *)
LEMMA TraverseType ==
  ASSUME exporter \in Exporters, source \subseteq Nodes, Traverse
  PROVE  /\ exporter' \in Exporters
         /\ exporter'.pc = exporter.pc /\ exporter'.ch = exporter.ch /\ exporter'.cancelled = exporter.cancelled
<1> DEFINE d == exporter.delayed
           top == d[Len(d)]
           rest == SubSeq(d, 1, Len(d) - 1)
<1>1. d \in Seq(Entries) /\ d # <<>>
  BY DEF Exporters, Traverse
<1>2. top \in Entries /\ rest \in Seq(Entries)
  BY SMTT(60), <1>1
<1>3. top.node \in Nodes
  BY <1>2 DEF Entries
<1>4. {Left(top.node), Right(top.node)} \subseteq source => Pushed(rest, top.node) \in Seq(Entries)
  BY <1>2, <1>3, PushedType
<1>5. <<>> \in Seq(Entries)
  BY SMTT(60)
<1>6. \/ exporter' = [exporter EXCEPT !.node = top.node, !.delayed = rest]
      \/ /\ {Left(top.node), Right(top.node)} \subseteq source
         /\ exporter' = [exporter EXCEPT !.delayed = Pushed(rest, top.node)]
      \/ exporter' = [exporter EXCEPT !.delayed = <<>>]
  BY DEF Traverse
<1> HIDE DEF top, rest, d
<1> QED
  BY <1>2, <1>3, <1>4, <1>5, <1>6 DEF Exporters

(* A round of the traversal keeps the order, while every node is there.    *)
LEMMA FollowTraverse ==
  ASSUME exporter \in Exporters, source = Nodes, NEW n \in Nat, Following(exporter, n), Traverse
  PROVE  Following(exporter', n)
<1> DEFINE d == exporter.delayed
           top == d[Len(d)]
           rest == SubSeq(d, 1, Len(d) - 1)
           u == n + Len(exporter.ch) + 1
<1>1. /\ d \in Seq(Entries) /\ d # <<>> /\ top \in Entries /\ top.node \in Nodes
      /\ exporter.node = 0 /\ exporter.pc = "export" /\ Len(exporter.ch) \in Nat /\ u \in Nat
  <2>1. /\ d \in Seq(Entries) /\ d # <<>> /\ exporter.ch \in Seq(Nodes)
        /\ exporter.node = 0 /\ exporter.pc = "export"
    BY DEF Exporters, Traverse
  <2>2. Len(exporter.ch) \in Nat /\ u \in Nat
    BY SMTT(60), <2>1
  <2>3. top \in Entries
    BY SMTT(60), <2>1, EmptySeq, ElementOfSeq
  <2>4. top.node \in Nodes
    BY <2>3 DEF Entries
  <2> QED
    BY <2>1, <2>2, <2>3, <2>4
<1>2. Chained(d, u)
  BY <1>1 DEF Following
<1>3. CASE ~top.delayed \/ isLeaf(top.node)
  <2>1. top.node = u /\ Chained(rest, u + 1)
    BY SMTT(60), <1>1, <1>2, <1>3, ChainPop
  <2>2. exporter' = [exporter EXCEPT !.node = top.node, !.delayed = rest]
    BY <1>3 DEF Traverse
  <2> HIDE DEF top, rest, d
  <2>3. /\ exporter'.node = u /\ exporter'.delayed = rest /\ exporter'.pc = "export"
        /\ exporter'.ch = exporter.ch /\ exporter'.cancelled = exporter.cancelled
    BY <1>1, <2>1, <2>2 DEF Exporters
  <2>4. u # 0 /\ u + 1 = n + Len(exporter.ch) + 2
    BY SMTT(60), <1>1
  <2> QED
    BY <2>1, <2>3, <2>4 DEF Following
<1>4. CASE top.delayed /\ ~isLeaf(top.node)
  <2>1. {Left(top.node), Right(top.node)} \subseteq source
    BY <1>1, <1>4, TreeAssumption
  <2>2. Chained(Pushed(rest, top.node), u)
    BY <1>1, <1>2, <1>4, ChainPush
  <2>3. exporter' = [exporter EXCEPT !.delayed = Pushed(rest, top.node)]
    BY <1>4, <2>1 DEF Traverse
  <2> HIDE DEF top, rest, d
  <2>4. /\ exporter'.node = 0 /\ exporter'.delayed = Pushed(rest, top.node) /\ exporter'.pc = "export"
        /\ exporter'.ch = exporter.ch /\ exporter'.cancelled = exporter.cancelled
    BY <1>1, <2>3 DEF Exporters
  <2> QED
    BY <2>2, <2>4 DEF Following
<1> QED
  BY <1>1, <1>3, <1>4 DEF Entries

(* A node that is sent goes behind the others in the channel.              *)
LEMMA FollowSend ==
  ASSUME exporter \in Exporters, SendNode
  PROVE  /\ exporter' \in Exporters
         /\ exporter'.pc = exporter.pc /\ exporter'.cancelled = exporter.cancelled
         /\ \A n \in Nat : Following(exporter, n) => Following(exporter', n)
<1> DEFINE c == exporter.ch
           m == exporter.node
<1>1. c \in Seq(Nodes) /\ m \in Nodes /\ Len(c) \in Nat /\ exporter.pc = "export"
  BY SMTT(60) DEF Exporters, SendNode
<1>2. exporter' = [exporter EXCEPT !.ch = Append(c, m), !.node = 0]
  BY DEF SendNode
<1>3. /\ Append(c, m) \in Seq(Nodes) /\ Len(Append(c, m)) = Len(c) + 1
      /\ Append(c, m)[Len(c) + 1] = m /\ \A i \in 1 .. Len(c) : Append(c, m)[i] = c[i]
  BY SMTT(60), <1>1
<1>4. /\ exporter'.ch = Append(c, m) /\ exporter'.node = 0 /\ exporter'.pc = exporter.pc
      /\ exporter'.delayed = exporter.delayed /\ exporter'.cancelled = exporter.cancelled
  BY <1>2 DEF Exporters
<1>5. exporter' \in Exporters
  <2> HIDE DEF c, m
  <2> QED
    BY <1>2, <1>3 DEF Exporters
<1>6. ASSUME NEW n \in Nat, Following(exporter, n)
      PROVE  Following(exporter', n)
  <2>1. m = n + Len(c) + 1 /\ m # 0
    BY SMTT(60), <1>1, <1>6, NodeNumbers DEF Following
  <2>2. \A i \in 1 .. Len(c) : c[i] = n + i
    BY SMTT(60), <1>1, <1>6 DEF Following
  <2>3. \A i \in DOMAIN Append(c, m) : Append(c, m)[i] = n + i
    BY SMTT(60), <1>1, <1>3, <2>1, <2>2
  <2>4. Chained(exporter.delayed, n + Len(c) + 2)
    BY <1>6, <2>1 DEF Following
  <2>5. n + Len(c) + 2 = n + Len(Append(c, m)) + 1
    BY SMTT(60), <1>1, <1>3
  <2> HIDE DEF c, m
  <2> QED
    BY <1>1, <1>4, <1>6, <2>3, <2>4, <2>5 DEF Following
<1> QED
  BY <1>4, <1>5, <1>6

(* The next node that the consumer receives is the next in post-order.     *)
LEMMA FollowNext ==
  ASSUME exporter \in Exporters, NEW n \in Nat, Following(exporter, n), exporter.ch # <<>>,
         NEW e, e = [exporter EXCEPT !.ch = Tail(@)]
  PROVE  Head(exporter.ch) = n + 1 /\ n + 1 \in Nodes /\ Following(e, n + 1)
<1> DEFINE c == exporter.ch
<1>1. c \in Seq(Nodes) /\ Len(c) \in Nat /\ Len(c) > 0
  BY SMTT(60) DEF Exporters
<1>2. /\ Tail(c) \in Seq(Nodes) /\ Len(Tail(c)) = Len(c) - 1
      /\ \A i \in 1 .. Len(c) - 1 : Tail(c)[i] = c[i + 1]
  BY SMTT(60), <1>1
<1>3. Head(c) = c[1] /\ c[1] \in Nodes
  BY SMTT(60), <1>1
<1>4. \A i \in 1 .. Len(c) : c[i] = n + i
  BY SMTT(60), <1>1 DEF Following
<1>5. \A i \in DOMAIN Tail(c) : Tail(c)[i] = (n + 1) + i
  <2>1. DOMAIN Tail(c) = 1 .. Len(c) - 1
    BY SMTT(60), <1>2
  <2>2. \A i \in 1 .. Len(c) - 1 : i + 1 \in 1 .. Len(c) /\ n + (i + 1) = (n + 1) + i
    BY SMTT(60), <1>1
  <2> QED
    BY <1>2, <1>4, <2>1, <2>2
<1>6. /\ e.ch = Tail(c) /\ e.node = exporter.node /\ e.pc = exporter.pc
      /\ e.delayed = exporter.delayed /\ e.cancelled = exporter.cancelled
  BY DEF Exporters
<1>7. (n + 1) + Len(Tail(c)) = n + Len(c)
  BY SMTT(60), <1>1, <1>2
<1>8. Following(e, n + 1)
  <2> HIDE DEF c
  <2>1. \A k \in Nat : (n + 1) + Len(Tail(c)) + k = n + Len(c) + k
    BY <1>7
  <2> QED
    BY SMTT(60), <1>5, <1>6, <2>1 DEF Following, c
<1> QED
  BY SMTT(60), <1>1, <1>3, <1>4, <1>8

(* When the channel is closed and empty, every node was received.          *)
LEMMA FollowDone ==
  ASSUME exporter \in Exporters, NEW n \in Nat, Following(exporter, n), ExporterClosed
  PROVE  n = N
<1>1. exporter.node = 0 /\ exporter.delayed = <<>> /\ Len(exporter.ch) = 0
  BY DEF Following, ExporterClosed
<1>2. Chained(<<>>, n + 0 + 1)
  BY <1>1 DEF Following
<1> QED
  BY SMTT(60), <1>2, NodeNumbers DEF Chained

(* A new exporter has all of the version before it.                        *)
LEMMA FollowNew ==
  ASSUME exporter = Stopped, newExporter
  PROVE  exporter' \in Exporters /\ exporter'.pc = "export" /\ Following(exporter', 0)
<1> DEFINE e == [node |-> Root, delayed |-> TRUE]
<1>1. e \in Entries /\ Start(e) = 1 /\ e.node = N
  BY SMTT(60), NodeNumbers, TreeAssumption DEF Entries, Start
<1>2. exporter' = [pc |-> "export", delayed |-> <<e>>, node |-> 0, ch |-> <<>>, cancelled |-> FALSE]
  BY DEF newExporter, Stopped
<1> HIDE DEF e
<1>3. <<e>> \in Seq(Entries) /\ <<e>> # <<>> /\ Len(<<e>>) = 1 /\ <<e>>[1] = e /\ <<>> \in Seq(Nodes)
  BY SMTT(60), <1>1
<1>4. Chained(<<e>>, 1)
  BY SMTT(60), <1>1, <1>3 DEF Chained
<1>5. exporter' \in Exporters
  BY <1>2, <1>3 DEF Exporters
<1>6. /\ exporter'.pc = "export" /\ exporter'.delayed = <<e>> /\ exporter'.node = 0
      /\ exporter'.ch = <<>> /\ exporter'.cancelled = FALSE
  BY <1>2
<1>7. Len(<<>>) = 0 /\ DOMAIN <<>> = {} /\ 0 + 0 + 1 = 1
  BY SMTT(60)
<1> QED
  BY <1>4, <1>5, <1>6, <1>7 DEF Following

-----------------------------------------------------------------------------
(* The invariant holds at the beginning, and every step keeps it.          *)

(* The head and the rest of what is still to write.                        *)
LEMMA ElementsTail ==
  ASSUME NEW s \in Seq(Nodes), s # <<>>
  PROVE  /\ Head(s) \in Nodes /\ Tail(s) \in Seq(Nodes)
         /\ Elements(s) = {Head(s)} \cup Elements(Tail(s))
<1>1. /\ Len(s) \in Nat /\ Len(s) > 0 /\ Head(s) = s[1] /\ s[1] \in Nodes
      /\ Tail(s) \in Seq(Nodes) /\ Len(Tail(s)) = Len(s) - 1
      /\ \A i \in 1 .. Len(s) - 1 : Tail(s)[i] = s[i + 1]
  BY SMTT(60)
<1>2. ASSUME NEW i \in 1 .. Len(s)
      PROVE  s[i] \in {Head(s)} \cup Elements(Tail(s))
  <2>1. CASE i = 1
    BY <1>1, <2>1
  <2>2. CASE i > 1
    <3>1. i - 1 \in 1 .. Len(Tail(s)) /\ Tail(s)[i - 1] = s[i]
      BY SMTT(60), <1>1, <2>2
    <3>2. DOMAIN Tail(s) = 1 .. Len(Tail(s))
      BY SMTT(60), <1>1
    <3> QED
      BY <3>1, <3>2 DEF Elements
  <2> QED
    BY SMTT(60), <2>1, <2>2
<1>3. ASSUME NEW i \in 1 .. Len(Tail(s))
      PROVE  Tail(s)[i] \in Elements(s)
  <2>1. i + 1 \in 1 .. Len(s) /\ Tail(s)[i] = s[i + 1]
    BY SMTT(60), <1>1
  <2> QED
    BY SMTT(60), <1>1, <2>1 DEF Elements
<1>4. Head(s) \in Elements(s)
  BY SMTT(60), <1>1 DEF Elements
<1> QED
  BY SMTT(60), <1>1, <1>2, <1>3, <1>4 DEF Elements

(* The first nodes received are the first of the version.                  *)
LEMMA GotNumbers ==
  ASSUME Types, Ordered
  PROVE  Len(got) \in 0 .. N
<1>1. got \in Seq(Nodes) /\ Len(got) \in Nat
  BY SMTT(60) DEF Types
<1>2. CASE Len(got) = 0
  BY SMTT(60), <1>2, NodeNumbers
<1>3. CASE Len(got) > 0
  <2>1. Len(got) \in DOMAIN got
    BY SMTT(60), <1>1, <1>3
  <2>2. got[Len(got)] = Len(got) /\ got[Len(got)] \in Nodes
    BY SMTT(60), <1>1, <2>1 DEF Ordered
  <2> QED
    BY SMTT(60), <1>1, <2>2, NodeNumbers
<1> QED
  BY SMTT(60), <1>1, <1>2, <1>3

(* A transfer begins with the invariant.                                   *)
LEMMA InitIInv == ASSUME Init PROVE IInv
<1>1. PICK max \in MaxBatches :
        importer = [stack |-> <<>>, batch |-> {}, todo |-> <<>>, adding |-> 0, max |-> max]
  BY DEF Init
<1>2. max \in Nat
  BY SizesAssumption
<1>3. <<>> \in Seq(Nodes) /\ <<>> \in Seq(Entries) /\ Len(<<>>) = 0 /\ DOMAIN <<>> = {}
  BY SMTT(60)
<1>4. exporter \in Exporters
  BY <1>3 DEF Init, Stopped, Exporters
<1>5. importer \in Importers
  BY <1>1, <1>2, <1>3 DEF Importers
<1>6. flight \in Flights
  BY DEF Init, Idle, Flights
<1>7. Types
  BY <1>3, <1>4, <1>5, <1>6 DEF Types, Init
<1>8. Guarded
  BY DEF Guarded, Init, Stopped, Open
<1>9. Ordered
  BY <1>3 DEF Ordered, Init, Complete
<1>10. importer.stack = <<>> /\ importer.batch = {}
  BY <1>1
<1>11. Added = 0
  BY <1>3 DEF Added, Init
<1>12. Stacked
  BY <1>10, <1>11 DEF Stacked, Tiled, Init
<1>13. Flying
  BY DEF Flying, Init, Idle
<1>14. Held = {} /\ flight.nodes = {}
  BY <1>10 DEF Held, Init, Idle
<1>15. Accounted
  BY SMTT(60), <1>11, <1>14 DEF Accounted, LastBatchMissing, Init
<1> QED
  BY <1>7, <1>8, <1>9, <1>12, <1>13, <1>15 DEF IInv

(* What a step that leaves the consumer and the importer alone keeps.      *)
LEMMA ImporterAlone ==
  ASSUME Stacked, Flying, Accounted, UNCHANGED <<consumer, importer, flight, disk, got, dropped>>
  PROVE  Stacked' /\ Flying' /\ Accounted'
  BY SMTT(60) DEF Stacked, Flying, Accounted, Added, Held, LastBatchMissing

(* newExporter.                                                            *)
LEMMA NewExporterStep ==
  ASSUME Hazards = {}, IInv, newExporter
  PROVE  IInv'
<1> USE DEF IInv
<1>1. /\ consumer = "start" /\ consumer' = "next" /\ pruner = "before" /\ readers' = readers + 1
      /\ UNCHANGED <<source, pruner, importer, flight, disk, index, got, dropped>>
  BY DEF newExporter
<1>2. exporter = Stopped /\ readers = 0 /\ got = <<>> /\ source = Nodes
  BY <1>1 DEF Guarded, Ordered, Open
<1>3. exporter' \in Exporters /\ exporter'.pc = "export" /\ Following(exporter', 0)
  BY <1>2, FollowNew
<1>4. Types'
  BY <1>1, <1>3 DEF Types, Open
<1>5. Guarded'
  BY SMTT(60), <1>1, <1>2, <1>3 DEF Guarded, Open
<1>6. Ordered'
  BY <1>1, <1>2, <1>3 DEF Ordered, Complete
<1>7. Added' = Added
  BY <1>1 DEF Added
<1>8. Stacked' /\ Flying'
  BY <1>1, <1>7 DEF Stacked, Flying, Adding, Over
<1>9. Accounted'
  BY <1>1, <1>7 DEF Accounted, Adding, Open, Held, LastBatchMissing
<1> QED
  BY <1>4, <1>5, <1>6, <1>8, <1>9

(* The goroutine of the exporter, and the draining of its channel.         *)
LEMMA ExporterKeeps ==
  ASSUME IInv, ExporterStep \/ DrainExport
  PROVE  IInv'
<1> USE DEF IInv
<1>1. UNCHANGED <<source, readers, pruner, consumer, importer, flight, disk, index, got, dropped>>
  BY DEF ExporterStep, Traverse, SendNode, ExportCancelled, ExportEnd, DrainExport
<1>2. Stacked' /\ Flying' /\ Accounted'
  BY <1>1, ImporterAlone
<1>3. exporter \in Exporters /\ Len(got) \in Nat
  BY SMTT(60) DEF Types
<1>4. SUFFICES /\ exporter' \in Exporters
               /\ exporter'.pc \in {exporter.pc, "closed"} /\ exporter.pc # "new"
               /\ consumer \in {"next", "add"} => Following(exporter', Len(got))
  <2>1. Types'
    BY <1>1, <1>4 DEF Types
  <2>2. Guarded'
    BY SMTT(60), <1>1, <1>4 DEF Guarded, Stopped
  <2>3. Ordered'
    BY <1>1, <1>4 DEF Ordered
  <2> QED
    BY <1>2, <2>1, <2>2, <2>3
<1>5. consumer \in {"next", "add"} => Following(exporter, Len(got)) /\ source = Nodes /\ ~exporter.cancelled
  BY DEF Ordered, Guarded, Open, Following
<1>6. CASE Traverse
  <2>1. exporter.pc = "export"
    BY <1>6 DEF Traverse
  <2> QED
    BY <1>3, <1>5, <1>6, <2>1, TraverseType, FollowTraverse DEF Types
<1>7. CASE SendNode
  <2>1. exporter.pc = "export"
    BY <1>7 DEF SendNode
  <2> QED
    BY <1>3, <1>5, <1>7, <2>1, FollowSend
<1>8. CASE ExportCancelled
  <2>1. exporter.pc = "export" /\ exporter.cancelled /\ exporter' = [exporter EXCEPT !.node = 0, !.delayed = <<>>]
    BY <1>8 DEF ExportCancelled
  <2>2. <<>> \in Seq(Entries)
    BY SMTT(60)
  <2>3. exporter' \in Exporters /\ exporter'.pc = "export"
    BY <1>3, <2>1, <2>2 DEF Exporters
  <2> QED
    BY <1>5, <2>1, <2>3
<1>9. CASE ExportEnd
  <2>1. /\ exporter.pc = "export" /\ exporter.node = 0 /\ exporter.delayed = <<>>
        /\ exporter' = [exporter EXCEPT !.pc = "closed"]
    BY <1>9 DEF ExportEnd
  <2>2. /\ exporter' \in Exporters /\ exporter'.pc = "closed" /\ exporter'.node = exporter.node
        /\ exporter'.delayed = exporter.delayed /\ exporter'.ch = exporter.ch
        /\ exporter'.cancelled = exporter.cancelled
    BY <1>3, <2>1 DEF Exporters
  <2> QED
    BY <1>5, <2>1, <2>2 DEF Following
<1>10. CASE DrainExport
  <2>1. /\ consumer \in {"closeDone", "closeEarly"} /\ exporter.ch # <<>>
        /\ exporter' = [exporter EXCEPT !.ch = Tail(exporter.ch)]
    BY <1>10 DEF DrainExport
  <2>2. exporter.ch \in Seq(Nodes)
    BY <1>3 DEF Exporters
  <2>3. Tail(exporter.ch) \in Seq(Nodes)
    BY <2>1, <2>2, ElementsTail
  <2>4. exporter' \in Exporters /\ exporter'.pc = exporter.pc
    BY <1>3, <2>1, <2>3 DEF Exporters
  <2> QED
    BY <2>1, <2>4 DEF Guarded, Open
<1> QED
  BY <1>6, <1>7, <1>8, <1>9, <1>10 DEF ExporterStep

(* Exporter.Close.                                                         *)
LEMMA CloseExporterStep ==
  ASSUME IInv, CloseExporter
  PROVE  IInv'
<1> USE DEF IInv
<1>1. /\ \/ consumer = "closeDone" /\ consumer' = "commit"
         \/ consumer = "closeEarly" /\ consumer' = "abort"
      /\ exporter.pc = "closed" /\ readers' = readers - 1
      /\ UNCHANGED <<source, pruner, exporter, importer, flight, disk, index, got, dropped>>
  BY DEF CloseExporter, ExporterClosed
<1>2. readers' = 0
  BY SMTT(60), <1>1 DEF Guarded, Open
<1>3. Types'
  BY <1>1 DEF Types, Complete
<1>4. Guarded'
  BY <1>1, <1>2 DEF Guarded, Open
<1>5. Ordered'
  BY <1>1 DEF Ordered, Complete
<1>6. Added' = Added
  BY <1>1 DEF Added
<1>7. Stacked' /\ Flying'
  BY <1>1, <1>6 DEF Stacked, Flying, Adding, Over
<1>8. Root \notin disk
  BY <1>1 DEF Accounted, Open, Held
<1>9. Accounted'
  BY <1>1, <1>6, <1>8 DEF Accounted, Adding, Open, Held, LastBatchMissing
<1> QED
  BY <1>3, <1>4, <1>5, <1>7, <1>9

(* Exporter.Next returns a node.                                           *)
LEMMA NextNodeStep ==
  ASSUME IInv, NextNode
  PROVE  IInv'
<1> USE DEF IInv
<1> DEFINE n == Len(got)
           c == exporter.ch
           w == ToWrite(importer.stack, n + 1)
<1>1. /\ consumer = "next" /\ consumer' = "add" /\ c # <<>>
      /\ got' = Append(got, Head(c))
      /\ importer' = [importer EXCEPT !.adding = Head(c), !.todo = ToWrite(importer.stack, Head(c))]
      /\ exporter' = [exporter EXCEPT !.ch = Tail(@)]
      /\ UNCHANGED <<source, readers, pruner, flight, disk, index, dropped>>
  BY DEF NextNode
<1>2. /\ exporter \in Exporters /\ importer \in Importers /\ got \in Seq(Nodes) /\ n \in Nat /\ c \in Seq(Nodes)
      /\ importer.stack \in Seq(Nodes)
  BY SMTT(60) DEF Types, Exporters, Importers
<1>3. Following(exporter, n)
  BY <1>1 DEF Ordered
<1>4. Head(c) = n + 1 /\ n + 1 \in Nodes /\ Following(exporter', n + 1)
  BY <1>1, <1>2, <1>3, FollowNext
<1>5. Tail(c) \in Seq(Nodes)
  BY <1>1, <1>2, ElementsTail
<1>6. exporter' \in Exporters /\ exporter'.pc = exporter.pc
  BY <1>1, <1>2, <1>5 DEF Exporters
<1>7. Tiled(importer.stack, n)
  BY <1>1 DEF Stacked, Adding, Added
<1>8. n \in 0 .. N - 1
  BY SMTT(60), <1>2, <1>4, NodeNumbers
<1>9. w \in Seq(Nodes)
  BY <1>2, <1>7, <1>8, StackAdd
<1>10. importer' = [importer EXCEPT !.adding = n + 1, !.todo = w]
  BY <1>1, <1>4
<1> HIDE DEF w
<1>11. /\ importer' \in Importers /\ importer'.stack = importer.stack /\ importer'.batch = importer.batch
       /\ importer'.todo = w /\ importer'.adding = n + 1
  BY <1>2, <1>4, <1>9, <1>10 DEF Importers
<1>12. got' \in Seq(Nodes) /\ Len(got') = n + 1 /\ got' # <<>> /\ \A i \in DOMAIN got' : got'[i] = i
  BY SMTT(60), <1>1, <1>2, <1>4 DEF Ordered
<1>13. Added = n /\ Added' = n
  BY SMTT(60), <1>1, <1>2, <1>12 DEF Added
<1> HIDE DEF n, c
<1>14. Types'
  BY <1>1, <1>6, <1>11, <1>12 DEF Types, Open
<1>15. Guarded'
  BY <1>1, <1>6 DEF Guarded, Open
<1>16. Ordered'
  BY <1>1, <1>4, <1>12 DEF Ordered, Complete
<1>17. Stacked'
  BY <1>1, <1>7, <1>11, <1>12, <1>13 DEF Stacked, Adding
<1>18. Flying'
  BY <1>1 DEF Flying, Over
<1>19. ToWrite(importer'.stack, importer'.adding) = w
  BY <1>11 DEF w
<1>20. Held' = Held
  BY <1>1, <1>11 DEF Held
<1>21. Accounted'
  BY <1>1, <1>11, <1>13, <1>19, <1>20 DEF Accounted, Adding, Open, LastBatchMissing
<1> QED
  BY <1>14, <1>15, <1>16, <1>17, <1>18, <1>21

(* Exporter.Next returns ErrorExportDone, or the consumer gives up.        *)
LEMMA LeaveStep ==
  ASSUME IInv, NextDone \/ GiveUp
  PROVE  IInv'
<1> USE DEF IInv
<1>1. /\ consumer = "next"
      /\ \/ ExporterClosed /\ consumer' = "closeDone"
         \/ consumer' = "closeEarly"
      /\ exporter' = [exporter EXCEPT !.cancelled = TRUE]
      /\ UNCHANGED <<source, readers, pruner, importer, flight, disk, index, got, dropped>>
  BY DEF NextDone, GiveUp
<1>2. exporter \in Exporters /\ Len(got) \in Nat
  BY SMTT(60) DEF Types
<1>3. exporter' \in Exporters /\ exporter'.pc = exporter.pc
  BY <1>1, <1>2 DEF Exporters
<1>4. consumer' = "closeDone" => Len(got) = N
  BY <1>1, <1>2, FollowDone DEF Ordered
<1>5. Types'
  BY <1>1, <1>3 DEF Types, Open
<1>6. Guarded'
  BY <1>1, <1>3 DEF Guarded, Open
<1>7. Ordered'
  BY <1>1, <1>4 DEF Ordered, Complete
<1>8. Added' = Added
  BY <1>1 DEF Added
<1>9. Stacked' /\ Flying'
  BY <1>1, <1>8 DEF Stacked, Flying, Adding, Over
<1>10. Accounted'
  BY <1>1, <1>8 DEF Accounted, Adding, Open, Held, LastBatchMissing
<1> QED
  BY <1>5, <1>6, <1>7, <1>9, <1>10

(* The end of Add.                                                         *)
LEMMA AddEndStep ==
  ASSUME IInv, AddEnd
  PROVE  IInv'
<1> USE DEF IInv
<1> DEFINE n == Len(got) - 1
           s == importer.stack
           w == ToWrite(s, n + 1)
           t == Append(SubSeq(s, 1, Len(s) - Len(w)), n + 1)
<1>1. consumer = "add" /\ importer.adding = Len(got) /\ got # <<>> /\ importer.todo = <<>>
  BY DEF AddEnd, Stacked
<1>2. importer \in Importers /\ s \in Seq(Nodes) /\ Len(got) \in 1 .. N /\ n + 1 = Len(got)
  <2>1. got \in Seq(Nodes) /\ Len(got) # 0
    BY SMTT(60), <1>1 DEF Types
  <2> QED
    BY SMTT(60), <2>1, GotNumbers, NodeNumbers DEF Types, Importers
<1>3. n \in 0 .. N - 1 /\ Tiled(s, n)
  BY SMTT(60), <1>1, <1>2, NodeNumbers DEF Stacked, Adding, Added
<1>4. /\ t \in Seq(Nodes) /\ Tiled(t, n + 1)
      /\ Elements(s) \cup {n + 1} \subseteq Elements(t) \cup Elements(w)
  BY <1>2, <1>3, StackAdd
<1>5. /\ consumer' = "next" /\ importer' = [importer EXCEPT !.stack = t, !.adding = 0]
      /\ UNCHANGED <<source, readers, pruner, exporter, flight, disk, index, got, dropped>>
  BY <1>1, <1>2 DEF AddEnd
<1>6. Elements(w) \subseteq Held
  BY SMTT(60), <1>1, <1>2 DEF Accounted, Elements
<1>7. Added = n /\ Added' = n + 1
  BY <1>1, <1>2, <1>5 DEF Added
<1>8. 1 .. n \subseteq Elements(s) \cup Held
  BY <1>1, <1>7 DEF Accounted, Adding
<1>9. 1 .. n + 1 \subseteq Elements(t) \cup Held
  <2>1. 1 .. n + 1 = (1 .. n) \cup {n + 1}
    BY SMTT(60), <1>3, NodeNumbers
  <2> QED
    BY <1>4, <1>6, <1>8, <2>1
<1> HIDE DEF t, w, s
<1>10. /\ importer' \in Importers /\ importer'.stack = t /\ importer'.batch = importer.batch
  BY <1>2, <1>4, <1>5 DEF Importers
<1>11. Held' = Held
  BY <1>5, <1>10 DEF Held
<1>12. Types'
  BY <1>5, <1>10 DEF Types, Open
<1>13. Guarded'
  BY <1>1, <1>5 DEF Guarded, Open
<1>14. Ordered'
  BY <1>1, <1>5 DEF Ordered, Complete
<1>15. Stacked'
  BY <1>4, <1>5, <1>7, <1>10 DEF Stacked
<1>16. Flying'
  BY <1>1, <1>5 DEF Flying, Over
<1>17. Accounted'
  BY <1>1, <1>5, <1>7, <1>9, <1>10, <1>11 DEF Accounted, Open, LastBatchMissing
<1> QED
  BY <1>12, <1>13, <1>14, <1>15, <1>16, <1>17

(* Commit finds the root alone on the stack.                               *)
LEMMA CommitStack ==
  ASSUME IInv, consumer = "commit"
  PROVE  importer.stack = <<Root>>
<1>1. Added = N /\ importer.stack \in Seq(Nodes)
  BY DEF IInv, Types, Importers, Ordered, Complete, Added
<1> QED
  BY <1>1, StackWhole DEF IInv, Stacked, Adding

(* Commit.                                                                 *)
LEMMA CommitStep ==
  ASSUME IInv, Commit
  PROVE  IInv'
<1> USE DEF IInv
<1>1. /\ consumer = "commit" /\ importer.stack = <<Root>> /\ Len(<<Root>>) = 1 /\ <<Root>>[1] = Root
      /\ Elements(<<Root>>) = {Root}
  BY SMTT(60), CommitStack DEF Commit, Elements
<1>2. /\ consumer' = "commitRoot" /\ importer' = [importer EXCEPT !.todo = <<Root>>]
      /\ UNCHANGED <<source, readers, pruner, exporter, flight, disk, index, got, dropped>>
  BY <1>1 DEF Commit
<1>3. importer \in Importers /\ <<Root>> \in Seq(Nodes)
  BY SMTT(60), NodeNumbers DEF Types
<1>4. importer' \in Importers /\ importer'.todo = <<Root>> /\ importer'.batch = importer.batch
  BY <1>2, <1>3 DEF Importers
<1>5. Added = N /\ Held' = Held
  BY <1>1, <1>2, <1>4 DEF Ordered, Complete, Added, Held
<1>6. Root \notin Held /\ Nodes \ {Root} \subseteq Held
  BY <1>1, <1>5, NodeNumbers DEF Accounted, Adding
<1>7. Types'
  BY <1>2, <1>4 DEF Types, Complete
<1>8. Guarded'
  BY <1>1, <1>2 DEF Guarded, Open
<1>9. Ordered'
  BY <1>1, <1>2 DEF Ordered, Complete
<1>10. Stacked'
  BY <1>2 DEF Stacked, Adding
<1>11. Flying'
  BY <1>1, <1>2 DEF Flying, Over
<1>12. Accounted'
  BY <1>2, <1>4, <1>5, <1>6 DEF Accounted, Adding, Open, Held, LastBatchMissing
<1> QED
  BY <1>7, <1>8, <1>9, <1>10, <1>11, <1>12

(* writeNode, in Add and in Commit.                                        *)
LEMMA WriteNodeStep ==
  ASSUME IInv, WriteNode
  PROVE  IInv'
<1> USE DEF IInv
<1> DEFINE h == Head(importer.todo)
           b == importer.batch \cup {h}
           rest == Tail(importer.todo)
           below == ToWrite(importer.stack, importer.adding)
<1>1. /\ consumer \in {"add", "commitRoot"} /\ importer.todo # <<>> /\ writeNode(b)
      /\ UNCHANGED <<source, readers, pruner, disk, index, got, dropped>>
  BY DEF WriteNode
<1>2. exporter \in Exporters /\ importer \in Importers /\ flight \in Flights /\ importer.todo \in Seq(Nodes)
  BY DEF Types, Importers
<1>3. /\ h \in Nodes /\ rest \in Seq(Nodes) /\ b \subseteq Nodes
      /\ Elements(importer.todo) = {h} \cup Elements(rest)
  BY <1>1, <1>2, ElementsTail DEF Importers
<1>4. consumer = "add" => Root \notin Held /\ h # Root
  <2> SUFFICES ASSUME consumer = "add" PROVE h # Root
    BY DEF Accounted, Open
  <2>1. Len(got) - 1 \in 0 .. N - 1 /\ importer.adding = (Len(got) - 1) + 1 /\ importer.stack \in Seq(Nodes)
    <3>1. got \in Seq(Nodes) /\ got # <<>> /\ importer.adding = Len(got)
      BY DEF Types, Stacked
    <3>2. Len(got) \in 1 .. N
      BY SMTT(60), <3>1, GotNumbers, NodeNumbers
    <3> QED
      BY SMTT(60), <1>2, <3>1, <3>2, NodeNumbers DEF Importers
  <2>2. Tiled(importer.stack, Len(got) - 1)
    BY DEF Stacked, Adding, Added
  <2>3. Elements(below) \subseteq 1 .. Len(got) - 1
    BY <2>1, <2>2, StackAdd
  <2>4. h \in Elements(below)
    BY <1>3 DEF Accounted
  <2> QED
    BY SMTT(60), <2>1, <2>3, <2>4, NodeNumbers
<1>5. consumer = "commitRoot" => h = Root /\ rest = <<>> /\ Root \notin Held /\ Nodes \ {Root} \subseteq Held
  <2> SUFFICES ASSUME consumer = "commitRoot" PROVE h = Root /\ rest = <<>> /\ Root \notin Held /\ Nodes \ {Root} \subseteq Held
    OBVIOUS
  <2>1. importer.todo = <<Root>> /\ Root \notin Held /\ Nodes \ {Root} \subseteq Held
    BY <1>1 DEF Accounted
  <2>2. Head(<<Root>>) = Root /\ Tail(<<Root>>) = <<>>
    BY SMTT(60)
  <2> QED
    BY <2>1, <2>2
<1> HIDE DEF h, b, rest
<1>6. CASE flight.pc = "send" /\ flight.failed /\ flight' = Idle
           /\ importer' = [importer EXCEPT !.batch = b, !.todo = <<>>]
           /\ consumer' = (IF consumer = "add" THEN "closeEarly" ELSE "abort")
           /\ exporter' = [exporter EXCEPT !.cancelled = TRUE]
  <2>1. importer' \in Importers /\ importer'.batch = b /\ importer'.stack = importer.stack
    <3>1. <<>> \in Seq(Nodes)
      BY SMTT(60)
    <3> QED
      BY <1>2, <1>3, <1>6, <3>1 DEF Importers
  <2>2. exporter' \in Exporters /\ exporter'.pc = exporter.pc
    BY <1>2, <1>6 DEF Exporters
  <2>3. flight' \in Flights /\ flight'.nodes = {} /\ flight'.pc = "none" /\ flight'.failed = FALSE
    BY <1>6 DEF Flights, Idle
  <2>4. Types'
    BY <1>1, <1>6, <2>1, <2>2, <2>3 DEF Types, Open
  <2>5. Guarded'
    BY <1>1, <1>6, <2>2 DEF Guarded, Open
  <2>6. Ordered'
    BY <1>1, <1>6 DEF Ordered, Complete
  <2>7. Stacked'
    BY <1>6 DEF Stacked, Adding
  <2>8. Flying'
    BY <1>6, <2>3 DEF Flying
  <2>9. Root \notin disk
    BY <1>1, <1>4, <1>5 DEF Held
  <2>10. consumer = "add" => Root \notin Held'
    BY <1>1, <1>4, <2>1, <2>3 DEF Held, b
  <2>11. Accounted'
    BY <1>1, <1>6, <2>3, <2>9, <2>10 DEF Accounted, Adding, Open, LastBatchMissing
  <2> QED
    BY <2>4, <2>5, <2>6, <2>7, <2>8, <2>11
<1>7. CASE /\ UNCHANGED <<consumer, exporter>>
           /\ \/ importer' = [importer EXCEPT !.batch = b, !.todo = rest] /\ UNCHANGED flight
              \/ /\ flight.pc = "none" \/ (flight.pc = "send" /\ ~flight.failed)
                 /\ flight' = Writing(b)
                 /\ importer' = [importer EXCEPT !.batch = {}, !.todo = rest]
  <2>1. /\ importer' \in Importers /\ importer'.stack = importer.stack /\ importer'.todo = rest
        /\ importer'.adding = importer.adding
    BY <1>2, <1>3, <1>7 DEF Importers
  <2>2. flight' \in Flights
    <3>1. Writing(b) \in Flights
      BY <1>3 DEF Flights, Writing
    <3> QED
      BY <1>2, <1>7, <3>1
  <2>3. Held' = Held \cup {h}
    <3>1. CASE importer' = [importer EXCEPT !.batch = b, !.todo = rest] /\ UNCHANGED flight
      <4>1. importer'.batch = b
        BY <1>2, <3>1 DEF Importers
      <4> QED
        BY <1>1, <3>1, <4>1 DEF Held, b
    <3>2. CASE /\ flight.pc = "none" \/ (flight.pc = "send" /\ ~flight.failed)
               /\ flight' = Writing(b)
               /\ importer' = [importer EXCEPT !.batch = {}, !.todo = rest]
      <4>1. importer'.batch = {} /\ flight'.nodes = b
        BY <1>2, <3>2 DEF Importers, Writing
      <4>2. flight.nodes \subseteq disk
        BY SMTT(60), <3>2 DEF Flying, Idle
      <4> QED
        BY <1>1, <4>1, <4>2 DEF Held, b
    <3> QED
      BY <1>7, <3>1, <3>2
  <2>4. Types'
    BY <1>1, <1>7, <2>1, <2>2 DEF Types
  <2>5. Guarded' /\ Ordered'
    BY <1>1, <1>7 DEF Guarded, Ordered
  <2>6. Added' = Added
    BY <1>1, <1>7 DEF Added
  <2>7. Stacked'
    BY <1>1, <1>7, <2>1, <2>6 DEF Stacked
  <2>8. Flying'
    BY SMTT(60), <1>1, <1>7 DEF Flying, Writing, Over
  <2>9. consumer = "commitRoot" => Nodes \subseteq Held'
    BY <1>5, <2>3
  <2>10. consumer = "add" => Root \notin Held'
    BY <1>4, <2>3
  <2>11. Root \notin disk'
    BY <1>1, <1>4, <1>5 DEF Held
  <2>12. Root \in flight'.nodes => Nodes \subseteq flight'.nodes \cup disk'
    <3>1. CASE UNCHANGED flight
      BY <1>1, <3>1 DEF Accounted
    <3>2. CASE flight' = Writing(b) /\ importer' = [importer EXCEPT !.batch = {}, !.todo = rest]
      <4>1. importer'.batch = {}
        BY <1>2, <3>2 DEF Importers
      <4> QED
        BY <1>1, <2>9, <2>10, <4>1 DEF Held
    <3> QED
      BY <1>7, <3>1, <3>2
  <2>13. consumer' = "add" =>
           LET at == ToWrite(importer'.stack, importer'.adding)
           IN  Elements(importer'.todo) \subseteq Elements(at) /\ Elements(at) \subseteq Elements(importer'.todo) \cup Held'
    BY <1>3, <1>7, <2>1, <2>3 DEF Accounted
  <2>14. consumer' = "commitRoot" => importer'.todo = <<>>
    BY <1>5, <1>7, <2>1
  <2>15. Accounted'
    BY <1>1, <1>7, <2>1, <2>3, <2>6, <2>9, <2>10, <2>11, <2>12, <2>13, <2>14 DEF Accounted, Adding, Open, LastBatchMissing
  <2> QED
    BY <2>4, <2>5, <2>7, <2>8, <2>15
<1> QED
  BY <1>1, <1>6, <1>7 DEF writeNode, rest

(* The goroutine that writes a batch.                                      *)
LEMMA WriteBatchStep ==
  ASSUME IInv, WriteBatch
  PROVE  IInv'
<1> USE DEF IInv
<1>1. /\ flight.pc = "write"
      /\ UNCHANGED <<source, readers, pruner, exporter, consumer, importer, index, got, dropped>>
      /\ \/ disk' = disk \cup flight.nodes /\ flight' = [flight EXCEPT !.pc = "send"]
         \/ disk' = disk /\ flight' = [flight EXCEPT !.pc = "send", !.failed = TRUE]
  BY DEF WriteBatch
<1>2. flight \in Flights /\ ~flight.failed /\ consumer \notin Over \cup {"start"}
  BY SMTT(60), <1>1 DEF Types, Flying, Idle
<1>3. /\ flight' \in Flights /\ flight'.pc = "send" /\ flight'.nodes = flight.nodes
      /\ ~flight'.failed => disk' = disk \cup flight.nodes
      /\ disk' \subseteq disk \cup flight.nodes /\ disk \subseteq disk' /\ disk' \subseteq Nodes
      /\ disk' # disk => disk' = disk \cup flight.nodes
  BY <1>1, <1>2 DEF Flights, Types
<1>4. Held' = Held
  BY <1>1, <1>3 DEF Held
<1>5. Types'
  BY <1>1, <1>3 DEF Types
<1>6. Guarded' /\ Ordered'
  BY <1>1 DEF Guarded, Ordered
<1>7. Added' = Added
  BY <1>1 DEF Added
<1>8. Stacked'
  BY <1>1, <1>7 DEF Stacked
<1>9. Flying'
  BY <1>1, <1>2, <1>3 DEF Flying
<1>10. Root \in disk' /\ consumer \in {"commitRoot", "abort"} => Nodes \subseteq disk'
  BY <1>3 DEF Accounted
<1>11. Accounted'
  BY <1>1, <1>2, <1>3, <1>4, <1>7, <1>10 DEF Accounted, LastBatchMissing, Over
<1> QED
  BY <1>5, <1>6, <1>8, <1>9, <1>11

(* The rest of Commit.                                                     *)
LEMMA CommitRestStep ==
  ASSUME IInv, WriteSync \/ LoadImported
  PROVE  IInv'
<1> USE DEF IInv
<1>1. CASE WriteSync
  <2>1. /\ consumer = "commitRoot" /\ importer.todo = <<>>
        /\ UNCHANGED <<source, readers, pruner, exporter, flight, index, got, dropped>>
    BY <1>1 DEF WriteSync
  <2>2. CASE consumer' = "commitLoad" /\ disk' = disk \cup importer.batch /\ importer' = [importer EXCEPT !.batch = {}]
    <3>1. importer \in Importers /\ disk' \subseteq Nodes
      BY <2>2 DEF Types, Importers
    <3>2. importer' \in Importers
      BY <2>2, <3>1 DEF Importers
    <3>3. Nodes \subseteq flight'.nodes \cup disk'
      BY SMTT(60), <2>1, <2>2 DEF Accounted, Held
    <3>4. Types'
      BY <2>1, <2>2, <3>1, <3>2 DEF Types, Complete
    <3>5. Guarded' /\ Ordered'
      BY <2>1, <2>2 DEF Guarded, Ordered, Open, Complete
    <3>6. Stacked'
      BY <2>2 DEF Stacked, Adding
    <3>7. Flying'
      BY <2>1, <2>2 DEF Flying, Over
    <3>8. Accounted'
      BY <2>1, <2>2, <3>3 DEF Accounted, Adding, Open, LastBatchMissing
    <3> QED
      BY <3>4, <3>5, <3>6, <3>7, <3>8
  <2>3. CASE consumer' = "abort" /\ UNCHANGED <<disk, importer>>
    <3>1. Types'
      BY <2>1, <2>3 DEF Types
    <3>2. Guarded' /\ Ordered'
      BY <2>1, <2>3 DEF Guarded, Ordered, Open, Complete
    <3>3. Stacked' /\ Flying'
      BY <2>1, <2>3 DEF Stacked, Flying, Adding, Over
    <3>4. Accounted'
      BY <2>1, <2>3 DEF Accounted, Adding, Open, LastBatchMissing
    <3> QED
      BY <3>1, <3>2, <3>3, <3>4
  <2> QED
    BY <1>1, <2>2, <2>3 DEF WriteSync
<1>2. CASE LoadImported
  <2>1. /\ consumer = "commitLoad" /\ (consumer' = "commitClose" \/ (consumer' = "abort" /\ Root \notin disk))
        /\ UNCHANGED <<source, readers, pruner, exporter, importer, flight, disk, got, dropped>>
    BY <1>2 DEF LoadImported
  <2>2. Types'
    BY <2>1 DEF Types, Complete
  <2>3. Guarded' /\ Ordered'
    BY <2>1 DEF Guarded, Ordered, Open, Complete
  <2>4. Stacked' /\ Flying'
    BY <2>1 DEF Stacked, Flying, Adding, Over
  <2>5. Accounted'
    BY <2>1 DEF Accounted, Adding, Open, LastBatchMissing
  <2> QED
    BY <2>2, <2>3, <2>4, <2>5
<1> QED
  BY <1>1, <1>2

(* While the importer is there, nodes missing below a root in the database *)
(* are in the batch that was not written.                                  *)
LEMMA LostBatch ==
  ASSUME IInv, consumer \notin Over, Root \in disk
  PROVE  Nodes \ disk \subseteq Unwritten
<1> USE DEF IInv
<1>1. consumer \in Open \cup {"start", "commit"} \cup {"commitRoot", "abort"} \cup {"commitLoad", "commitClose"}
  <2>1. consumer \in Open \cup Complete \cup Over \cup {"start", "abort"}
    BY DEF Types
  <2> QED
    BY SMTT(60), <2>1 DEF Complete, Over, Open
<1>2. CASE consumer \in Open \cup {"start", "commit"}
  BY <1>2 DEF Accounted, Held
<1>3. CASE consumer \in {"commitRoot", "abort"}
  BY <1>3 DEF Accounted
<1>4. CASE consumer \in {"commitLoad", "commitClose"}
  <2>1. Nodes \subseteq flight.nodes \cup disk
    BY <1>4 DEF Accounted
  <2>2. flight.pc \in {"none", "write", "send"} /\ flight.failed \in BOOLEAN
    BY DEF Types, Flights
  <2>3. flight.pc # "write" /\ ~flight.failed => flight.nodes \subseteq disk
    BY SMTT(60), <2>2 DEF Flying, Idle
  <2> QED
    BY <2>1, <2>2, <2>3 DEF Unwritten
<1> QED
  BY <1>1, <1>2, <1>3, <1>4

(* Importer.Close.                                                         *)
LEMMA CloseImporterStep ==
  ASSUME IInv, CloseImporter
  PROVE  IInv'
<1> USE DEF IInv
<1>1. /\ \/ consumer = "abort" /\ consumer' = "aborted"
         \/ consumer = "commitClose" /\ consumer' = "committed"
      /\ flight.pc # "write" /\ flight' = Idle
      /\ dropped' = Unwritten
      /\ importer' = [importer EXCEPT !.batch = {}, !.stack = <<>>]
      /\ UNCHANGED <<source, readers, pruner, exporter, disk, index, got>>
  BY DEF CloseImporter
<1>2. importer \in Importers /\ <<>> \in Seq(Nodes)
  BY SMTT(60) DEF Types
<1>3. importer' \in Importers
  BY <1>1, <1>2 DEF Importers
<1>4. flight' \in Flights /\ flight'.nodes = {} /\ flight'.pc = "none"
  BY <1>1 DEF Flights, Idle
<1>5. Types'
  BY <1>1, <1>3, <1>4 DEF Types, Over
<1>6. Guarded' /\ Ordered'
  BY <1>1 DEF Guarded, Ordered, Open, Complete
<1>7. Stacked' /\ Flying'
  BY <1>1, <1>4 DEF Stacked, Flying, Adding
<1>8. Root \in disk => Nodes \ disk \subseteq dropped'
  BY <1>1, LostBatch DEF Over
<1>9. LastBatchMissing'
  BY <1>1, <1>8 DEF LastBatchMissing
<1>10. Accounted'
  BY <1>1, <1>4, <1>9 DEF Accounted, Adding, Open
<1> QED
  BY <1>5, <1>6, <1>7, <1>10

(* A crash.                                                                *)
LEMMA CrashStep ==
  ASSUME Hazards = {}, IInv, Crash
  PROVE  IInv'
<1> USE DEF IInv
<1>1. /\ consumer \notin {"start", "committed", "aborted", "crashed"}
      /\ consumer' = "crashed" /\ exporter' = Stopped /\ readers' = 0 /\ flight' = Idle
      /\ dropped' = Unwritten
      /\ UNCHANGED <<source, pruner, importer, disk, index, got>>
  BY DEF Crash
<1>2. exporter' \in Exporters /\ exporter'.pc = "new"
  <2>1. <<>> \in Seq(Nodes) /\ <<>> \in Seq(Entries)
    BY SMTT(60)
  <2> QED
    BY <1>1, <2>1 DEF Exporters, Stopped
<1>3. flight' \in Flights /\ flight'.nodes = {} /\ flight'.pc = "none"
  BY <1>1 DEF Flights, Idle
<1>4. Types'
  BY <1>1, <1>2, <1>3 DEF Types, Over
<1>5. Guarded' /\ Ordered'
  BY <1>1, <1>2 DEF Guarded, Ordered, Open, Complete
<1>6. Stacked' /\ Flying'
  BY <1>1, <1>3 DEF Stacked, Flying, Adding
<1>7. Root \in disk => Nodes \ disk \subseteq dropped'
  BY <1>1, LostBatch DEF Over
<1>8. LastBatchMissing'
  BY <1>1, <1>7 DEF LastBatchMissing
<1>9. Accounted'
  BY <1>1, <1>3, <1>8 DEF Accounted, Adding, Open
<1> QED
  BY <1>4, <1>5, <1>6, <1>9

(* DeleteVersionsTo, on the source.                                        *)
LEMMA PrunerKeeps ==
  ASSUME IInv, PrunerStep
  PROVE  IInv'
<1> USE DEF IInv
<1>1. /\ UNCHANGED <<readers, exporter, consumer, importer, flight, disk, index, got, dropped>>
      /\ source' \subseteq source /\ pruner' \in {"deleting", "after"}
      /\ pruner = "before" => readers = 0
  BY DEF PrunerStep, DeleteVersionsTo, DeleteNode, DeletionEnd
<1>2. Stacked' /\ Flying' /\ Accounted'
  BY <1>1, ImporterAlone
<1>3. Types'
  BY <1>1 DEF Types
<1>4. Guarded'
  BY SMTT(60), <1>1 DEF Guarded
<1>5. Ordered'
  BY <1>1 DEF Ordered
<1> QED
  BY <1>2, <1>3, <1>4, <1>5

(* Every step of a transfer keeps the invariant.                           *)
LEMMA NextIInv ==
  ASSUME Hazards = {}, IInv, [Next]_vars
  PROVE  IInv'
<1>1. CASE UNCHANGED vars
  <2>1. UNCHANGED <<source, readers, pruner, exporter, consumer, importer, flight, disk, got, dropped>>
    BY <1>1 DEF vars
  <2>2. Stacked' /\ Flying' /\ Accounted'
    BY <2>1, ImporterAlone DEF IInv
  <2>3. Types' /\ Guarded' /\ Ordered'
    BY <2>1 DEF IInv, Types, Guarded, Ordered
  <2> QED
    BY <2>2, <2>3 DEF IInv
<1>2. CASE newExporter
  BY <1>2, NewExporterStep
<1>3. CASE ExporterStep
  BY <1>3, ExporterKeeps
<1>4. CASE ConsumerStep
  BY <1>4, ExporterKeeps, CloseExporterStep, NextNodeStep, LeaveStep, WriteNodeStep, AddEndStep, CommitStep,
     CommitRestStep, CloseImporterStep DEF ConsumerStep
<1>5. CASE GiveUp
  BY <1>5, LeaveStep
<1>6. CASE PrunerStep
  BY <1>6, PrunerKeeps
<1>7. CASE WriteBatch
  BY <1>7, WriteBatchStep
<1>8. CASE Crash
  BY <1>8, CrashStep
<1>9. CASE Terminated
  BY <1>1, <1>9 DEF Terminated
<1> QED
  BY <1>1, <1>2, <1>3, <1>4, <1>5, <1>6, <1>7, <1>8, <1>9 DEF Next

(* The invariant always holds.                                             *)
LEMMA Invariance == ASSUME Hazards = {} PROVE Spec => []IInv
  BY InitIInv, NextIInv, PTL DEF Spec

-----------------------------------------------------------------------------
(* A version is read only while it is there (versionReaders): as long as   *)
(* the goroutine of an export may still read nodes, none is deleted.       *)
THEOREM NothingDeletedUnderAReaderAlways ==
  ASSUME Hazards = {} PROVE Spec => []NothingDeletedUnderAReader
<1>1. IInv => NothingDeletedUnderAReader
  BY DEF IInv, Guarded, NothingDeletedUnderAReader
<1> QED
  BY <1>1, Invariance, PTL

(* An export is whole (Exporter.Next): whoever reaches ErrorExportDone     *)
(* received every node of the version once, in post-order, for every tree, *)
(* size of the channel and interleaving with deletions.                    *)
THEOREM ExportIsWholeAlways ==
  ASSUME Hazards = {} PROVE Spec => []ExportIsWhole
<1>1. ASSUME IInv PROVE ExportIsWhole
  <2> SUFFICES ASSUME consumer \in Complete PROVE got = [i \in Nodes |-> i]
    BY DEF ExportIsWhole, Complete
  <2>1. got \in Seq(Nodes) /\ Len(got) = N /\ \A i \in DOMAIN got : got[i] = i
    BY <1>1 DEF IInv, Types, Ordered
  <2>2. DOMAIN got = Nodes /\ got = [i \in DOMAIN got |-> got[i]]
    BY SMTT(60), <2>1, NodeNumbers
  <2> QED
    BY <2>1, <2>2
<1> QED
  BY <1>1, Invariance, PTL

(* The nodes of a whole export leave the root alone on the stack of the    *)
(* importer, so that Commit never fails for the shape of its stack.        *)
THEOREM CommitFindsRoot ==
  ASSUME Hazards = {} PROVE Spec => [](consumer = "commit" => importer.stack = <<Root>>)
<1>1. IInv => (consumer = "commit" => importer.stack = <<Root>>)
  BY CommitStack
<1> QED
  BY <1>1, Invariance, PTL

(* How many nodes the batch being filled, the one being written and the    *)
(* one that was lost have.                                                 *)
Filling == {"start", "next", "add", "closeDone", "commit", "commitRoot"}

Sized ==
  /\ importer.max > 0
  /\ consumer \in Filling => Cardinality(importer.batch) < importer.max
  /\ Cardinality(flight.nodes) <= importer.max
  /\ dropped \subseteq Nodes /\ Cardinality(dropped) <= importer.max
  /\ consumer \notin Over => dropped = {}

(* Sets of nodes are finite.                                               *)
LEMMA NodesFinite ==
  ASSUME NEW S, S \subseteq Nodes
  PROVE  IsFiniteSet(S) /\ Cardinality(S) \in Nat
<1>1. IsFiniteSet(Nodes)
  BY NodeNumbers, FS_Interval, SMTT(60) DEF Nodes
<1>2. IsFiniteSet(S)
  BY <1>1, FS_Subset
<1> QED
  BY <1>2, FS_CardinalityType

(* A transfer begins with nothing in its batches.                          *)
LEMMA InitSized == ASSUME Init PROVE Sized
<1>1. PICK max \in MaxBatches :
        importer = [stack |-> <<>>, batch |-> {}, todo |-> <<>>, adding |-> 0, max |-> max]
  BY DEF Init
<1>2. max \in Nat \ {0} /\ importer.batch = {} /\ importer.max = max /\ flight.nodes = {} /\ dropped = {}
  BY <1>1, SizesAssumption DEF Init, Idle
<1>3. Cardinality({}) = 0
  BY FS_EmptySet
<1> QED
  BY SMTT(60), <1>2, <1>3 DEF Sized

(* Batches have no more nodes than maxBatchSize: writeNode hands a batch   *)
(* over as soon as it has that many.                                       *)
LEMMA WriteNodeSized ==
  ASSUME IInv, Sized, WriteNode
  PROVE  Sized'
<1> DEFINE h == Head(importer.todo)
           b == importer.batch \cup {h}
<1>1. /\ consumer \in {"add", "commitRoot"} /\ importer.todo # <<>> /\ writeNode(b)
      /\ UNCHANGED dropped
  BY DEF WriteNode
<1>2. importer \in Importers /\ importer.todo \in Seq(Nodes) /\ importer.batch \subseteq Nodes /\ importer.max \in Nat
  BY DEF IInv, Types, Importers
<1>3. /\ IsFiniteSet(importer.batch)
      /\ Cardinality(b) = Cardinality(importer.batch) \/ Cardinality(b) = Cardinality(importer.batch) + 1
  <2>1. IsFiniteSet(importer.batch)
    BY <1>2, NodesFinite
  <2>2. Cardinality(b) = IF h \in importer.batch THEN Cardinality(importer.batch) ELSE Cardinality(importer.batch) + 1
    BY <2>1, FS_AddElement
  <2> QED
    BY <2>1, <2>2
<1>4. Cardinality(importer.batch) \in Nat /\ Cardinality({}) = 0
  BY <1>2, NodesFinite, FS_EmptySet
<1>5. Cardinality(importer.batch) < importer.max
  BY <1>1 DEF Sized, Filling
<1>6. Cardinality(b) <= importer.max
  BY SMTT(60), <1>2, <1>3, <1>4, <1>5
<1>7. dropped = {} /\ importer.max > 0 /\ Cardinality(flight.nodes) <= importer.max
      /\ dropped \subseteq Nodes /\ Cardinality(dropped) <= importer.max
  BY <1>1 DEF Sized, Over
<1> HIDE DEF h, b
<1>8. CASE /\ Cardinality(b) < importer.max /\ UNCHANGED <<flight, consumer, exporter>>
           /\ importer' = [importer EXCEPT !.batch = b, !.todo = Tail(@)]
  <2>1. importer'.batch = b /\ importer'.max = importer.max
    BY <1>2, <1>8 DEF Importers
  <2> QED
    BY <1>1, <1>7, <1>8, <2>1 DEF Sized
<1>9. CASE /\ flight' = Writing(b) /\ UNCHANGED <<consumer, exporter>>
           /\ importer' = [importer EXCEPT !.batch = {}, !.todo = Tail(@)]
  <2>1. importer'.batch = {} /\ importer'.max = importer.max /\ flight'.nodes = b
    BY <1>2, <1>9 DEF Importers, Writing
  <2>2. Cardinality(importer'.batch) < importer'.max
    BY SMTT(60), <1>2, <1>4, <1>7, <2>1
  <2> QED
    BY <1>1, <1>6, <1>7, <1>9, <2>1, <2>2 DEF Sized
<1>10. CASE /\ flight' = Idle /\ importer' = [importer EXCEPT !.batch = b, !.todo = <<>>]
            /\ consumer' = (IF consumer = "add" THEN "closeEarly" ELSE "abort")
  <2>1. importer'.max = importer.max /\ flight'.nodes = {} /\ consumer' \notin Filling
    BY <1>2, <1>10 DEF Importers, Idle, Filling
  <2>2. Cardinality(flight'.nodes) <= importer'.max
    BY SMTT(60), <1>2, <1>4, <1>7, <2>1
  <2> QED
    BY <1>1, <1>7, <2>1, <2>2 DEF Sized
<1> QED
  BY <1>1, <1>8, <1>9, <1>10 DEF writeNode

(* The other steps keep the sizes.                                         *)
LEMMA NextSized ==
  ASSUME IInv, Sized, [Next]_vars
  PROVE  Sized'
<1>1. importer \in Importers /\ flight \in Flights /\ importer.max \in Nat /\ Cardinality({}) = 0
  BY FS_EmptySet DEF IInv, Types, Importers
<1>2. Cardinality({}) <= importer.max /\ (importer.max > 0 => Cardinality({}) < importer.max)
  BY SMTT(60), <1>1
<1>3. CASE UNCHANGED <<consumer, importer, flight, dropped>>
  BY <1>3 DEF Sized
<1>4. ASSUME importer'.batch = importer.batch, importer'.max = importer.max, UNCHANGED <<flight, dropped>>,
             consumer' \notin Over, consumer' \in Filling => consumer \in Filling, consumer \notin Over
      PROVE  Sized'
  BY <1>4 DEF Sized
<1>5. CASE WriteBatch
  <2>1. UNCHANGED <<consumer, importer, dropped>> /\ flight'.nodes = flight.nodes
    BY <1>1, <1>5 DEF WriteBatch, Flights
  <2> QED
    BY <2>1 DEF Sized
<1>6. CASE CloseImporter \/ Crash
  <2>1. consumer \notin Over /\ consumer' \in Over /\ dropped' = Unwritten /\ flight' = Idle /\ importer'.max = importer.max
    BY <1>1, <1>6 DEF CloseImporter, Crash, Over, Importers
  <2>2. flight'.nodes = {} /\ consumer' \notin Filling
    BY <2>1 DEF Idle, Over, Filling
  <2>3. dropped' \subseteq Nodes /\ Cardinality(dropped') <= importer.max
    BY <1>1, <1>2, <2>1 DEF Unwritten, Sized, Flights
  <2> QED
    BY <1>2, <2>1, <2>2, <2>3 DEF Sized
<1>7. CASE WriteSync
  <2>1. CASE consumer' = "commitLoad" /\ importer' = [importer EXCEPT !.batch = {}]
    <3>1. importer'.max = importer.max /\ consumer' \notin Filling /\ consumer' \notin Over /\ consumer \notin Over
      BY <1>1, <1>7, <2>1 DEF Importers, WriteSync, Filling, Over
    <3> QED
      BY <1>7, <3>1 DEF Sized, WriteSync
  <2>2. CASE consumer' = "abort" /\ UNCHANGED importer
    BY <1>4, <1>7, <2>2 DEF WriteSync, Filling, Over
  <2> QED
    BY <1>7, <2>1, <2>2 DEF WriteSync
<1>8. CASE newExporter \/ NextDone \/ GiveUp \/ LoadImported \/ CloseExporter
  <2>1. /\ UNCHANGED <<importer, flight, dropped>> /\ consumer' \notin Over /\ consumer \notin Over
        /\ consumer' \in Filling => consumer \in Filling
    BY <1>8 DEF newExporter, NextDone, GiveUp, LoadImported, CloseExporter, Filling, Over
  <2> QED
    BY <1>4, <2>1
<1>9. CASE NextNode \/ AddEnd \/ Commit
  <2>1. /\ UNCHANGED <<flight, dropped>> /\ consumer' \notin Over /\ consumer \in Filling /\ consumer \notin Over
    BY <1>9 DEF NextNode, AddEnd, Commit, Filling, Over
  <2>2. importer'.batch = importer.batch /\ importer'.max = importer.max
    BY <1>1, <1>9 DEF NextNode, AddEnd, Commit, Importers
  <2> QED
    BY <1>4, <2>1, <2>2
<1>10. CASE ExporterStep \/ PrunerStep \/ DrainExport \/ Terminated \/ UNCHANGED vars
  BY <1>3, <1>10 DEF ExporterStep, Traverse, SendNode, ExportCancelled, ExportEnd, PrunerStep, DeleteVersionsTo,
     DeleteNode, DeletionEnd, DrainExport, Terminated, vars
<1> QED
  BY <1>5, <1>6, <1>7, <1>8, <1>9, <1>10, WriteNodeSized DEF Next, ConsumerStep

(* A root in the database stands for its tree (writeNode, Commit): for     *)
(* every tree and every size of a batch, whenever the process ends and     *)
(* whichever writes fail, an import whose root was written lacks at most   *)
(* one batch, the one that was handed to the goroutine last.               *)
THEOREM OneBatchAtMostMissingAlways ==
  ASSUME Hazards = {} PROVE Spec => []OneBatchAtMostMissing
<1>1. ASSUME IInv, Sized PROVE OneBatchAtMostMissing
  <2> SUFFICES ASSUME Root \in disk
               PROVE  /\ Nodes \ disk \subseteq dropped \cup flight.nodes
                      /\ Cardinality(Nodes \ disk) <= importer.max
    BY DEF OneBatchAtMostMissing
  <2>1. Nodes \ disk \subseteq dropped \cup flight.nodes
    BY <1>1 DEF IInv, Accounted, LastBatchMissing
  <2>2. PICK lost \in {dropped, flight.nodes} : Nodes \ disk \subseteq lost
    <3>1. CASE consumer \in Over
      <4>1. flight = Idle
        BY <1>1, <3>1 DEF IInv, Flying
      <4>2. flight.nodes = {}
        BY <4>1 DEF Idle
      <4> QED
        BY <2>1, <4>2
    <3>2. CASE consumer \notin Over
      BY <1>1, <2>1, <3>2 DEF Sized
    <3> QED
      BY <3>1, <3>2
  <2>3. flight.nodes \subseteq Nodes /\ importer.max \in Nat
    BY <1>1 DEF IInv, Types, Flights, Importers
  <2>4. Cardinality(lost) <= importer.max
    BY <1>1, <2>2 DEF Sized
  <2>5. IsFiniteSet(lost) /\ Cardinality(lost) \in Nat
    BY <1>1, <2>2, <2>3, NodesFinite DEF Sized
  <2>6. Cardinality(Nodes \ disk) <= Cardinality(lost) /\ Cardinality(Nodes \ disk) \in Nat
    BY <2>2, <2>5, FS_Subset, NodesFinite
  <2> QED
    BY SMTT(60), <2>1, <2>3, <2>4, <2>5, <2>6
<1>2. Spec => []Sized
  BY InitSized, NextSized, Invariance, PTL DEF Spec
<1> QED
  BY <1>1, <1>2, Invariance, PTL

=============================================================================
