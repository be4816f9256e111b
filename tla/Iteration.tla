----------------------------- MODULE Iteration ------------------------------
(***************************************************************************)
(* Iteration over a tree: the traversal of ImmutableTree with its stack of *)
(* delayed nodes, the TreeIterator of v2, and the merge of the fast index  *)
(* with the unsaved changes of a MutableTree.                              *)
(*                                                                         *)
(* Keys are positive numbers; the bound 0 stands for nil.                  *)
(***************************************************************************)
EXTENDS AVLTree, FiniteSetsExt

NoBound == 0

Top(s) == s[Len(s)]
Rest(s) == SubSeq(s, 1, Len(s) - 1)

-----------------------------------------------------------------------------
(* traversal.  A traversal t has the domain, the order, the stack, and in  *)
(* out the nodes that next has returned so far.                            *)

newTraversal(root, start, end, ascending, inclusive, post) ==
  [start |-> start, end |-> end, ascending |-> ascending, inclusive |-> inclusive, post |-> post,
   delayed |-> <<[node |-> root, delayed |-> TRUE]>>, out |-> <<>>]

afterStart(t, k) == t.start = NoBound \/ t.start < k
startOrAfter(t, k) == afterStart(t, k) \/ t.start = k

(* Mutant: the end of an inclusive range is left out.                      *)
beforeEnd_Exclusive(t, k) == t.end = NoBound \/ k < t.end
beforeEnd(t, k) == t.end = NoBound \/ k < t.end \/ (t.inclusive /\ k = t.end)

Returned(t, n) == ~isLeaf(n) \/ (startOrAfter(t, n.key) /\ beforeEnd(t, n.key))

(* What a branch leaves on the stack, the child to visit first on top.     *)
LeftOf(t, n) == IF afterStart(t, n.key) THEN <<[node |-> n.left, delayed |-> TRUE]>> ELSE <<>>
RightOf(t, n) == IF beforeEnd(t, n.key) THEN <<[node |-> n.right, delayed |-> TRUE]>> ELSE <<>>

Children(t, n) ==
  CASE isLeaf(n)                  -> <<>>
    [] ~isLeaf(n) /\ t.ascending  -> RightOf(t, n) \o LeftOf(t, n)
    [] ~isLeaf(n) /\ ~t.ascending -> LeftOf(t, n) \o RightOf(t, n)

Self(t, n) == IF t.post /\ Returned(t, n) THEN <<[node |-> n, delayed |-> FALSE]>> ELSE <<>>

(* One round of next with the node d popped from the stack.                *)
Visit(t, d, rest) ==
  IF ~d.delayed THEN [t EXCEPT !.delayed = rest, !.out = Append(@, d.node)]
  ELSE [t EXCEPT !.delayed = rest \o Self(t, d.node) \o Children(t, d.node),
                 !.out = IF ~t.post /\ Returned(t, d.node) THEN Append(@, d.node) ELSE @]

RECURSIVE Traversed(_)
Traversed(t) ==
  IF t.delayed = <<>> \/ Top(t.delayed).node = NilNode THEN t.out
  ELSE Traversed(Visit(t, Top(t.delayed), Rest(t.delayed)))

(* Iterator passes over the branches.                                      *)
LeavesOf(nodes) == SelectSeq(nodes, isLeaf)

Iterator(root, start, end, ascending) ==
  LeavesOf(Traversed(newTraversal(root, start, end, ascending, FALSE, FALSE)))

IterateRangeInclusive(root, start, end, ascending) ==
  LeavesOf(Traversed(newTraversal(root, start, end, ascending, TRUE, FALSE)))

-----------------------------------------------------------------------------
(* TreeIterator of v2.                                                     *)

treeIterator(root, start, end, ascending, inclusive) ==
  [start |-> start, end |-> end, ascending |-> ascending, inclusive |-> inclusive,
   stack |-> <<root>>, started |-> FALSE, valid |-> TRUE, out |-> <<>>]

isPastEndAscend(i, k) == i.end /= NoBound /\ IF i.inclusive THEN k > i.end ELSE k >= i.end
isPastEndDescend(i, k) == i.start /= NoBound /\ k < i.start

(* The first leaf may lie outside of the domain.  The test with inclusive  *)
(* in stepDescend is followed by the one without it.                       *)
(* Mutant: the first key of the domain is left out.                        *)
Skipped_Start(i, k) ==
  /\ ~i.started
  /\ IF i.ascending THEN k <= i.start ELSE i.end /= NoBound /\ i.end <= k

Skipped(i, k) ==
  /\ ~i.started
  /\ IF i.ascending THEN k < i.start ELSE i.end /= NoBound /\ i.end <= k

Past(i, k) == IF i.ascending THEN isPastEndAscend(i, k) ELSE isPastEndDescend(i, k)

AtLeaf(i, n) ==
  CASE Skipped(i, n.key) -> i
    [] ~Skipped(i, n.key) /\ Past(i, n.key) -> [i EXCEPT !.valid = FALSE]
    [] OTHER -> [i EXCEPT !.out = Append(@, n), !.started = TRUE]

Below(i, n) ==
  IF i.ascending THEN <<n.right>> \o IF i.start < n.key THEN <<n.left>> ELSE <<>>
  ELSE <<n.left>> \o IF i.end = NoBound \/ n.key <= i.end THEN <<n.right>> ELSE <<>>

(* One round of stepAscend or stepDescend with the node n popped.          *)
Pop(i, n) == IF isLeaf(n) THEN AtLeaf(i, n) ELSE [i EXCEPT !.stack = @ \o Below(i, n)]

RECURSIVE Stepped(_)
Stepped(i) ==
  IF ~i.valid \/ i.stack = <<>> \/ Top(i.stack) = NilNode THEN i.out
  ELSE Stepped(Pop([i EXCEPT !.stack = Rest(@)], Top(i.stack)))

TreeIterator(root, start, end, inclusive) == Stepped(treeIterator(root, start, end, TRUE, inclusive))
ReverseIterator(root, start, end) == Stepped(treeIterator(root, start, end, FALSE, FALSE))

-----------------------------------------------------------------------------
(* UnsavedFastIterator.  disk and unsaved are the keys that are left on    *)
(* either side, cur is the current key; additions and removals are the     *)
(* unsaved changes.                                                        *)

InRange(k, start, end) == (start = NoBound \/ start <= k) /\ (end = NoBound \/ k < end)

Sorted(ks, ascending) ==
  [i \in 1 .. Cardinality(ks) |->
     CHOOSE k \in ks : Cardinality({j \in ks : IF ascending THEN j <= k ELSE j >= k}) = i]

InOrder(ks, start, end, ascending) == Sorted({k \in ks : InRange(k, start, end)}, ascending)

(* The fast nodes in the range, in the order of the database.              *)
FastIterator(ks, start, end, ascending) == InOrder(ks, start, end, ascending)

unsavedFastIterator(disk, additions, removals, start, end, ascending) ==
  [disk |-> FastIterator(disk, start, end, ascending), unsaved |-> InOrder(additions, start, end, ascending),
   removals |-> removals, ascending |-> ascending, cur |-> NoBound]

isUnsavedNext(i) ==
  IF i.ascending THEN Head(i.disk) >= Head(i.unsaved) ELSE Head(i.disk) <= Head(i.unsaved)

TakeUnsaved(i) == [i EXCEPT !.cur = Head(i.unsaved), !.unsaved = Tail(@)]
TakeDisk(i) == [i EXCEPT !.cur = Head(i.disk), !.disk = Tail(@)]
PassDisk(i) == [i EXCEPT !.disk = Tail(@)]

(* Mutant: a copy on disk that is going to be replaced is returned too.    *)
TakeNext_Both(i) ==
  CASE i.disk = <<>> /\ i.unsaved = <<>> -> [i EXCEPT !.cur = NoBound]
    [] i.disk = <<>> /\ i.unsaved /= <<>> -> TakeUnsaved(i)
    [] i.disk /= <<>> /\ i.unsaved = <<>> -> TakeDisk(i)
    [] OTHER -> IF isUnsavedNext(i) THEN TakeUnsaved(i) ELSE TakeDisk(i)

TakeNext(i) ==
  CASE i.disk = <<>> /\ i.unsaved = <<>> -> [i EXCEPT !.cur = NoBound]
    [] i.disk = <<>> /\ i.unsaved /= <<>> -> TakeUnsaved(i)
    [] i.disk /= <<>> /\ i.unsaved = <<>> -> TakeDisk(i)
    [] OTHER -> CASE ~isUnsavedNext(i) -> TakeDisk(i)
                  [] isUnsavedNext(i) /\ Head(i.disk) = Head(i.unsaved) -> TakeUnsaved(PassDisk(i))
                  [] OTHER -> TakeUnsaved(i)

RECURSIVE MergeNext(_)
MergeNext(i) ==
  IF i.disk /= <<>> /\ Head(i.disk) \in i.removals THEN MergeNext(PassDisk(i)) ELSE TakeNext(i)

(* Valid, for a range that is not empty.                                   *)
MergeValid(i) == i.disk /= <<>> \/ i.unsaved /= <<>> \/ i.cur /= NoBound

RECURSIVE MergedFrom(_)
MergedFrom(i) == IF MergeValid(i) THEN <<i.cur>> \o MergedFrom(MergeNext(i)) ELSE <<>>

Merged(disk, additions, removals, start, end, ascending) ==
  IF start /= NoBound /\ end /= NoBound /\ end <= start THEN <<>>
  ELSE MergedFrom(MergeNext(unsavedFastIterator(disk, additions, removals, start, end, ascending)))

=============================================================================
