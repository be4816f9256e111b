------------------------------ MODULE Transfer ------------------------------
(***************************************************************************)
(* A version moves from one database to another: an Exporter reads it in a *)
(* goroutine of its own while versions of the source may be deleted, and a *)
(* consumer gives what it receives to an Importer, which writes batches in *)
(* goroutines.                                                             *)
(*                                                                         *)
(* The nodes of the version are the numbers 1 .. N in post-order.  The     *)
(* source is empty of a node once it was deleted; the caches that may      *)
(* still have it are left out.                                             *)
(***************************************************************************)
EXTENDS Integers, Sequences, FiniteSetsExt, TLC

CONSTANTS
  Heights,      \* the heights of the nodes, in post-order
  Old,          \* the nodes that no later version of the source has
  ExportBuffer, \* exportBufferSize
  MaxBatches,   \* what maxBatchSize of the importer may be
  Hazards       \* what may happen besides, out of HazardNames

HazardNames == {"lateExport"}

N == Len(Heights)
Nodes == 1 .. N
Root == N

ASSUME HeightsAssumption == Heights \in Seq(Nat) /\ N > 0
ASSUME OldAssumption == Old \subseteq Nodes
ASSUME SizesAssumption == ExportBuffer \in Nat \ {0} /\ MaxBatches \subseteq Nat \ {0}
ASSUME HazardsAssumption == Hazards \subseteq HazardNames

VARIABLES
  source,    \* the nodes of the version that the source has
  readers,   \* nodeDB.versionReaders of the version
  pruner,    \* DeleteVersionsTo: before, after and past its deletions
  exporter,  \* Exporter, its channel and its traversal
  consumer,  \* what the consumer is doing
  importer,  \* Importer: stack, batch and the nodes still to write
  flight,    \* the goroutine that writes a batch
  disk,      \* the nodes in the target database
  got,       \* history: the nodes received from the exporter
  index,     \* the leaves in the fast index of the target
  dropped    \* history: the batch that was not written when the importer went away

vars == <<source, readers, pruner, exporter, consumer, importer, flight, disk, index, got, dropped>>

isLeaf(i) == Heights[i] = 0

(* In post-order a subtree is an interval that ends with its root: First   *)
(* is where it begins.                                                     *)
First(i) == Max({f \in 1 .. i : 2 * Cardinality({k \in f .. i : isLeaf(k)}) = i - f + 2})
Right(i) == i - 1
Left(i) == First(Right(i)) - 1

(* Heights are those of a tree: a leaf is a subtree by itself, a branch    *)
(* comes after its two children, which are lower, and the root after all.  *)
ASSUME TreeAssumption ==
  /\ First(Root) = 1
  /\ \A i \in Nodes : First(i) \in 1 .. i
  /\ \A i \in Nodes :
       IF isLeaf(i) THEN First(i) = i
       ELSE /\ {Left(i), Right(i)} \subseteq Nodes
            /\ First(Left(i)) = First(i)
            /\ Heights[Left(i)] < Heights[i] /\ Heights[Right(i)] < Heights[i]

-----------------------------------------------------------------------------
(* The exporter.                                                           *)

Stopped == [pc |-> "new", delayed |-> <<>>, node |-> 0, ch |-> <<>>, cancelled |-> FALSE]

(* newExporter: the version is read from here on, and a goroutine starts. *)
(* The tree was loaded before, so its root is at hand.                     *)
newExporter ==
  /\ consumer = "start"
  /\ pruner \in {"before"} \cup IF "lateExport" \in Hazards THEN {"deleting"} ELSE {}
  /\ readers' = readers + 1
  /\ exporter' = [exporter EXCEPT !.pc = "export", !.delayed = <<[node |-> Root, delayed |-> TRUE]>>]
  /\ consumer' = "next"
  /\ UNCHANGED <<source, pruner, importer, flight, disk, index, got, dropped>>

(* Mutant: the children are pushed in the order of a descent.               *)
Pushed_Descending(delayed, i) == delayed \o <<[node |-> i, delayed |-> FALSE],
                                              [node |-> Left(i), delayed |-> TRUE],
                                              [node |-> Right(i), delayed |-> TRUE]>>

Pushed(delayed, i) == delayed \o <<[node |-> i, delayed |-> FALSE],
                                   [node |-> Right(i), delayed |-> TRUE],
                                   [node |-> Left(i), delayed |-> TRUE]>>

(* One round of traversal.next.  A child that cannot be read ends the      *)
(* traversal like its end does.                                            *)
Traverse ==
  /\ exporter.pc = "export" /\ exporter.node = 0 /\ exporter.delayed /= <<>>
  /\ LET top  == exporter.delayed[Len(exporter.delayed)]
         rest == SubSeq(exporter.delayed, 1, Len(exporter.delayed) - 1)
     IN  exporter' = IF ~top.delayed \/ isLeaf(top.node)
                     THEN [exporter EXCEPT !.node = top.node, !.delayed = rest]
                     ELSE IF {Left(top.node), Right(top.node)} \subseteq source
                     THEN [exporter EXCEPT !.delayed = Pushed(rest, top.node)]
                     ELSE [exporter EXCEPT !.delayed = <<>>]
  /\ UNCHANGED <<source, readers, pruner, consumer, importer, flight, disk, index, got, dropped>>

(* export: the node goes to the channel unless the exporter was closed. *)
SendNode ==
  /\ exporter.pc = "export" /\ exporter.node /= 0
  /\ Len(exporter.ch) < ExportBuffer
  /\ exporter' = [exporter EXCEPT !.ch = Append(@, exporter.node), !.node = 0]
  /\ UNCHANGED <<source, readers, pruner, consumer, importer, flight, disk, index, got, dropped>>

ExportCancelled ==
  /\ exporter.pc = "export" /\ exporter.node /= 0 /\ exporter.cancelled
  /\ exporter' = [exporter EXCEPT !.node = 0, !.delayed = <<>>]
  /\ UNCHANGED <<source, readers, pruner, consumer, importer, flight, disk, index, got, dropped>>

ExportEnd ==
  /\ exporter.pc = "export" /\ exporter.node = 0 /\ exporter.delayed = <<>>
  /\ exporter' = [exporter EXCEPT !.pc = "closed"]
  /\ UNCHANGED <<source, readers, pruner, consumer, importer, flight, disk, index, got, dropped>>

(* Exporter.Close drains the channel until the goroutine closes it, and    *)
(* only then is the version no longer read.                                *)
ExporterClosed == exporter.pc = "closed" /\ exporter.ch = <<>>

DrainExport ==
  /\ consumer \in {"closeDone", "closeEarly"}
  /\ exporter.ch /= <<>>
  /\ exporter' = [exporter EXCEPT !.ch = Tail(@)]
  /\ UNCHANGED <<source, readers, pruner, consumer, importer, flight, disk, index, got, dropped>>

(* Mutant: Close does not wait for the goroutine.                           *)
CloseExporter_AtOnce ==
  /\ consumer \in {"closeDone", "closeEarly"}
  /\ readers' = readers - 1
  /\ consumer' = IF consumer = "closeDone" THEN "commit" ELSE "abort"
  /\ UNCHANGED <<source, pruner, exporter, importer, flight, disk, index, got, dropped>>

(* Mutant: Close forgets decrVersionReaders.                                *)
CloseExporter_KeepsReader ==
  /\ consumer \in {"closeDone", "closeEarly"}
  /\ ExporterClosed
  /\ consumer' = IF consumer = "closeDone" THEN "commit" ELSE "abort"
  /\ UNCHANGED <<source, readers, pruner, exporter, importer, flight, disk, index, got, dropped>>

CloseExporter ==
  /\ consumer \in {"closeDone", "closeEarly"}
  /\ ExporterClosed
  /\ readers' = readers - 1
  /\ consumer' = IF consumer = "closeDone" THEN "commit" ELSE "abort"
  /\ UNCHANGED <<source, pruner, exporter, importer, flight, disk, index, got, dropped>>

-----------------------------------------------------------------------------
(* The deletion of the version from the source.                            *)

(* DeleteVersionsTo looks at the readers once, holding the lock; while     *)
(* there are readers it returns an error and its caller comes back later.  *)
DeleteVersionsTo ==
  /\ pruner = "before" /\ readers = 0
  /\ pruner' = "deleting"
  /\ UNCHANGED <<source, readers, exporter, consumer, importer, flight, disk, index, got, dropped>>

(* The batch of the deletions may reach the database in pieces. *)
DeleteNode ==
  /\ pruner = "deleting"
  /\ \E i \in source \cap Old : source' = source \ {i}
  /\ UNCHANGED <<readers, pruner, exporter, consumer, importer, flight, disk, index, got, dropped>>

DeletionEnd ==
  /\ pruner = "deleting" /\ source \cap Old = {}
  /\ pruner' = "after"
  /\ UNCHANGED <<source, readers, exporter, consumer, importer, flight, disk, index, got, dropped>>

-----------------------------------------------------------------------------
(* The consumer and the importer.                                          *)

(* What an Add of node i writes: the two nodes on top of the stack, when   *)
(* they are lower than it.                                                 *)
ToWrite(stack, i) ==
  LET size == Len(stack)
  IN  IF size >= 2 /\ Heights[stack[size]] < Heights[i] /\ Heights[stack[size - 1]] < Heights[i]
      THEN <<stack[size - 1], stack[size]>>
      ELSE <<>>

(* Exporter.Next, and the Add of the node it returns begins. *)
NextNode ==
  /\ consumer = "next" /\ exporter.ch /= <<>>
  /\ LET i == Head(exporter.ch)
     IN  /\ got' = Append(got, i)
         /\ importer' = [importer EXCEPT !.adding = i, !.todo = ToWrite(importer.stack, i)]
  /\ exporter' = [exporter EXCEPT !.ch = Tail(@)]
  /\ consumer' = "add"
  /\ UNCHANGED <<source, readers, pruner, flight, disk, index, dropped>>

(* Next returns ErrorExportDone. *)
NextDone ==
  /\ consumer = "next" /\ ExporterClosed
  /\ exporter' = [exporter EXCEPT !.cancelled = TRUE]
  /\ consumer' = "closeDone"
  /\ UNCHANGED <<source, readers, pruner, importer, flight, disk, index, got, dropped>>

(* The consumer gives up. *)
GiveUp ==
  /\ consumer = "next"
  /\ exporter' = [exporter EXCEPT !.cancelled = TRUE]
  /\ consumer' = "closeEarly"
  /\ UNCHANGED <<source, readers, pruner, importer, flight, disk, index, got, dropped>>

(* writeNode adds a node to the batch.  A full batch is written by a       *)
(* goroutine, once the one before has said how it ended.                   *)
Idle == [pc |-> "none", nodes |-> {}, failed |-> FALSE]
Writing(batch) == [pc |-> "write", nodes |-> batch, failed |-> FALSE]

(* Mutant: the error of the batch before is not looked at.                  *)
writeNode_IgnoresFailure(batch) ==
  IF Cardinality(batch) < importer.max
  THEN /\ importer' = [importer EXCEPT !.batch = batch, !.todo = Tail(@)]
       /\ UNCHANGED <<flight, consumer, exporter>>
  ELSE /\ flight.pc \in {"none", "send"}
       /\ flight' = Writing(batch)
       /\ importer' = [importer EXCEPT !.batch = {}, !.todo = Tail(@)]
       /\ UNCHANGED <<consumer, exporter>>

writeNode(batch) ==
  IF Cardinality(batch) < importer.max
  THEN /\ importer' = [importer EXCEPT !.batch = batch, !.todo = Tail(@)]
       /\ UNCHANGED <<flight, consumer, exporter>>
  ELSE \/ /\ flight.pc = "none" \/ (flight.pc = "send" /\ ~flight.failed)
          /\ flight' = Writing(batch)
          /\ importer' = [importer EXCEPT !.batch = {}, !.todo = Tail(@)]
          /\ UNCHANGED <<consumer, exporter>>
       \/ /\ flight.pc = "send" /\ flight.failed
          /\ flight' = Idle
          /\ importer' = [importer EXCEPT !.batch = batch, !.todo = <<>>]
          /\ consumer' = IF consumer = "add" THEN "closeEarly" ELSE "abort"
          /\ exporter' = [exporter EXCEPT !.cancelled = TRUE]

WriteNode ==
  /\ consumer \in {"add", "commitRoot"} /\ importer.todo /= <<>>
  /\ writeNode(importer.batch \cup {Head(importer.todo)})
  /\ UNCHANGED <<source, readers, pruner, disk, index, got, dropped>>

(* The end of Add: the node is on the stack, in the place of its children. *)
AddEnd ==
  /\ consumer = "add" /\ importer.todo = <<>>
  /\ LET written == Len(ToWrite(importer.stack, importer.adding))
         kept    == SubSeq(importer.stack, 1, Len(importer.stack) - written)
     IN  importer' = [importer EXCEPT !.stack = Append(kept, importer.adding), !.adding = 0]
  /\ consumer' = "next"
  /\ UNCHANGED <<source, readers, pruner, exporter, flight, disk, index, got, dropped>>

(* The goroutine of writeNode. *)
WriteBatch ==
  /\ flight.pc = "write"
  /\ \/ /\ disk' = disk \cup flight.nodes
        /\ flight' = [flight EXCEPT !.pc = "send"]
     \/ /\ flight' = [flight EXCEPT !.pc = "send", !.failed = TRUE]
        /\ UNCHANGED disk
  /\ UNCHANGED <<source, readers, pruner, exporter, consumer, importer, index, got, dropped>>

(* Commit: the one node on the stack is the root; anything else is an      *)
(* error, and the consumer closes the importer.  The stack is not empty,   *)
(* as the version has nodes, and the root is of the version itself: the    *)
(* reference that a version with the root of an earlier one needs beside   *)
(* it is left out.                                                         *)
Commit ==
  /\ consumer = "commit"
  /\ IF Len(importer.stack) = 1
     THEN /\ importer' = [importer EXCEPT !.todo = <<importer.stack[1]>>]
          /\ consumer' = "commitRoot"
     ELSE consumer' = "abort" /\ UNCHANGED importer
  /\ UNCHANGED <<source, readers, pruner, exporter, flight, disk, index, got, dropped>>

(* The rest of Commit flushes the last batch, which may fail. *)
WriteSync ==
  /\ consumer = "commitRoot" /\ importer.todo = <<>>
  /\ \/ /\ disk' = disk \cup importer.batch
        /\ importer' = [importer EXCEPT !.batch = {}]
        /\ consumer' = "commitLoad"
     \/ /\ consumer' = "abort"
        /\ UNCHANGED <<disk, importer>>
  /\ UNCHANGED <<source, readers, pruner, exporter, flight, index, got, dropped>>

(* LoadVersion of the imported version builds the fast index with an       *)
(* iterator, which ends at the first branch whose children it cannot read. *)
Unreadable == {b \in Nodes : ~isLeaf(b) /\ ~({Left(b), Right(b)} \subseteq disk)}

LoadImported ==
  /\ consumer = "commitLoad"
  /\ IF Root \in disk
     THEN /\ index' = {l \in Nodes : isLeaf(l) /\ \A b \in Unreadable : l < First(b)}
          /\ consumer' = "commitClose"
     ELSE consumer' = "abort" /\ UNCHANGED index
  /\ UNCHANGED <<source, readers, pruner, exporter, importer, flight, disk, got, dropped>>

(* The batch of the goroutine, if the database does not have it. *)
Unwritten == IF flight.pc = "write" \/ flight.failed THEN flight.nodes ELSE {}

(* Importer.Close waits for the goroutine and drops what it says. *)
CloseImporter ==
  /\ consumer \in {"commitClose", "abort"}
  /\ flight.pc \in {"none", "send"}
  /\ dropped' = Unwritten
  /\ flight' = Idle
  /\ importer' = [importer EXCEPT !.batch = {}, !.stack = <<>>]
  /\ consumer' = IF consumer = "abort" THEN "aborted" ELSE "committed"
  /\ UNCHANGED <<source, readers, pruner, exporter, disk, index, got>>

(* The process ends, and with it everything but the databases.  Whoever    *)
(* deletes versions comes back after it.                                   *)
Crash ==
  /\ consumer \notin {"start", "committed", "aborted", "crashed"}
  /\ consumer' = "crashed"
  /\ exporter' = Stopped
  /\ readers' = 0
  /\ dropped' = Unwritten
  /\ flight' = Idle
  /\ UNCHANGED <<source, pruner, importer, disk, index, got>>

-----------------------------------------------------------------------------
Init ==
  /\ source = Nodes
  /\ readers = 0
  /\ pruner = "before"
  /\ exporter = Stopped
  /\ consumer = "start"
  /\ \E max \in MaxBatches :
       importer = [stack |-> <<>>, batch |-> {}, todo |-> <<>>, adding |-> 0, max |-> max]
  /\ flight = Idle
  /\ disk = {} /\ index = {}
  /\ got = <<>>
  /\ dropped = {}

Ended == consumer \in {"committed", "aborted", "crashed"} \/ (consumer = "start" /\ pruner = "after")

Terminated == Ended /\ UNCHANGED vars

ExporterStep == Traverse \/ SendNode \/ ExportCancelled \/ ExportEnd

ConsumerStep == DrainExport \/ CloseExporter \/ NextNode \/ NextDone \/ WriteNode \/ AddEnd
                \/ Commit \/ WriteSync \/ LoadImported \/ CloseImporter

PrunerStep == DeleteVersionsTo \/ DeleteNode \/ DeletionEnd

Next == newExporter \/ ExporterStep \/ ConsumerStep \/ GiveUp \/ PrunerStep \/ WriteBatch \/ Crash
        \/ Terminated

(* Goroutines that can run do run, and the caller of DeleteVersionsTo      *)
(* comes back; nobody has to give up or to begin an export.                *)
Fairness == WF_vars(ExporterStep) /\ WF_vars(ConsumerStep) /\ WF_vars(PrunerStep) /\ WF_vars(WriteBatch)

Spec == Init /\ [][Next]_vars /\ Fairness

-----------------------------------------------------------------------------
(* Types: the channel and the batch keep to their bounds, and the stack of *)
(* the importer has only nodes that it received.                           *)
TypeOK ==
  /\ source \subseteq Nodes /\ disk \subseteq Nodes
  /\ readers \in 0 .. 1
  /\ pruner \in {"before", "deleting", "after"}
  /\ exporter.pc \in {"new", "export", "closed"}
  /\ Len(exporter.ch) <= ExportBuffer
  /\ exporter.node \in Nodes \cup {0}
  /\ consumer \in {"start", "next", "add", "closeDone", "closeEarly", "commit", "commitRoot", "commitLoad", "commitClose",
                   "abort", "committed", "aborted", "crashed"}
  /\ \A k \in DOMAIN importer.stack : importer.stack[k] \in {got[j] : j \in DOMAIN got}
  /\ Cardinality(importer.batch) <= importer.max
  /\ flight.pc \in {"none", "write", "send"}

(* An export is whole (Exporter.Next): a consumer that reaches             *)
(* ErrorExportDone received every node of the version once, in post-order, *)
(* whatever versions were deleted meanwhile.                               *)
ExportIsWhole ==
  consumer \in {"closeDone", "commit", "commitRoot", "commitLoad", "commitClose", "committed"} => got = [i \in Nodes |-> i]

(* A version is read only while it is there (versionReaders): as long as   *)
(* the goroutine of an export may still read nodes, none of the version's  *)
(* nodes is deleted.                                                       *)
NothingDeletedUnderAReader == exporter.pc = "export" => source = Nodes

(* A root in the database stands for its tree (writeNode, Commit): at any  *)
(* time, whenever the process ends and whichever writes fail, an import    *)
(* whose root was written lacks at most one batch, the one that was handed *)
(* to the goroutine last.  An earlier batch that failed has stopped the    *)
(* import before its root was written.                                     *)
OneBatchAtMostMissing ==
  Root \in disk => /\ Nodes \ disk \subseteq dropped \cup flight.nodes
                  /\ Cardinality(Nodes \ disk) <= importer.max

(* A transfer comes to an end (Exporter.Close, Importer.Close): whenever   *)
(* the consumer gives up, the goroutines end, the consumer is not blocked, *)
(* and the version can be deleted after that.                              *)
TransferEnds == <>[](pruner = "after" /\ Ended /\ exporter.pc \in {"new", "closed"} /\ flight = Idle)

-----------------------------------------------------------------------------
(* Opening the target: getLatestVersion takes the version of the greatest  *)
(* node key, and LoadVersion then wants the root of that version.          *)
LoadSucceeds == disk = {} \/ Root \in disk

(* What the comment on Importer.Close says: nodes that were flushed before *)
(* an import was given up are not visible, so the database opens as before *)
(* the import.                                                             *)
AbortedImportInvisible == consumer = "aborted" => LoadSucceeds

(* What the comment on Importer.Commit says: it finalizes the import by    *)
(* flushing any outstanding nodes to the database, so when it returns no   *)
(* error every node is there.                                              *)
CommitFlushesEverything == consumer = "committed" => Nodes \subseteq disk

(* What the comment on Importer.Commit says: it finalizes the import by    *)
(* flushing any outstanding nodes to the database and updating the tree    *)
(* metadata, so when it returns no error the fast index has every key.     *)
CommitIndexesEverything == consumer = "committed" => index = {l \in Nodes : isLeaf(l)}

=============================================================================
