------------------------------ MODULE MultiTree -----------------------------
(***************************************************************************)
(* The v2 MultiTree: calls that start one goroutine per tree and collect   *)
(* one message from each, over two channels that all the calls share.      *)
(*                                                                         *)
(* A tree is its version and its checkpoints.  What SaveVersion does to it *)
(* is in SqlWriter and TreeV2.                                             *)
(***************************************************************************)
EXTENDS Integers, Sequences, FiniteSetsExt

CONSTANTS
  Trees,      \* the store keys
  Interval,   \* TreeOptions.CheckpointInterval
  MaxCalls,   \* bound: calls of the MultiTree
  MayFail     \* the calls, out of Kinds, that may fail for a tree

Kinds == {"import", "save", "snapshot", "warm"}

ASSUME TreesAssumption == IsFiniteSet(Trees) /\ Trees # {}
ASSUME IntervalAssumption == Interval \in Nat \ {0}
ASSUME CallsAssumption == MaxCalls \in Nat /\ MayFail \subseteq Kinds

VARIABLES
  trees,             \* the version and the checkpoints of each tree
  shouldCheckpoint,  \* MultiTree.shouldCheckpoint
  doneCh,            \* MultiTree.doneCh: the versions of the results in it
  errorCh,           \* MultiTree.errorCh: the number of errors in it
  routines,          \* the goroutines that are running
  call,              \* the call in progress
  calls,             \* the number of calls so far
  failed             \* history: the trees for which the call failed

vars == <<trees, shouldCheckpoint, doneCh, errorCh, routines, call, calls, failed>>

NoCall == [pc |-> "none"]

(* The process begins with a new MultiTree whose trees have been loaded,   *)
(* or with ImportMultiTree.                                                *)
Init ==
  /\ trees = [t \in Trees |-> [version |-> 0, checkpoints |-> {}]]
  /\ shouldCheckpoint = FALSE
  /\ doneCh = <<>> /\ errorCh = 0 /\ routines = {}
  /\ call = NoCall /\ calls = 0 /\ failed = {}

-----------------------------------------------------------------------------
(* The beginning of a call: a goroutine per tree.  want, a history field,  *)
(* is the checkpoint that was asked for at that time.                      *)

(* Mutant: the flag is reset before the trees are saved.                   *)
FlagAtStart_Reset(kind) == shouldCheckpoint /\ kind # "save"
FlagAtStart(kind) == shouldCheckpoint

Start(kind) ==
  /\ call.pc = "none" /\ calls < MaxCalls
  /\ kind = "import" => calls = 0
  /\ calls' = calls + 1
  /\ routines' = routines \cup
       {[tree |-> t, call |-> calls', kind |-> kind, pc |-> "start", want |-> FALSE] : t \in Trees}
  /\ call' = [pc |-> "collect", kind |-> kind, left |-> Cardinality(Trees), version |-> -1, errs |-> 0,
              want |-> shouldCheckpoint]
  /\ shouldCheckpoint' = FlagAtStart(kind)
  /\ failed' = {}
  /\ UNCHANGED <<trees, doneCh, errorCh>>

Becomes(r, pc) == routines' = (routines \ {r}) \cup {[r EXCEPT !.pc = pc]}
Ends(r) == routines' = routines \ {r}

(* A save reads the flag of the MultiTree first.                           *)
ReadFlag(r) ==
  /\ r.kind = "save" /\ r.pc = "start"
  /\ routines' = (routines \ {r}) \cup {[r EXCEPT !.pc = "work", !.want = shouldCheckpoint]}
  /\ UNCHANGED <<trees, shouldCheckpoint, doneCh, errorCh, call, calls, failed>>

(* Tree.SaveVersion: the version counts also if it fails.  full says that  *)
(* the tree has reached CheckpointMemory by itself.                        *)
LastOf(cs) == IF cs = {} THEN -1 ELSE Max(cs)

TreeSaved(t, want, full, fails) ==
  LET v == t.version + 1
      c == want \/ full \/ v = 1 \/ v - LastOf(t.checkpoints) >= Interval
  IN  [version |-> v, checkpoints |-> t.checkpoints \cup IF c /\ ~fails THEN {v} ELSE {}]

(* SaveVersion, SaveSnapshot, WarmLeaves or LoadSnapshot of a tree.        *)
Work(r, fails) ==
  /\ r.pc = IF r.kind = "save" THEN "work" ELSE "start"
  /\ fails => r.kind \in MayFail
  /\ IF r.kind = "save"
     THEN \E full \in BOOLEAN : trees' = [trees EXCEPT ![r.tree] = TreeSaved(@, r.want, full, fails)]
     ELSE UNCHANGED trees
  /\ Becomes(r, IF fails THEN "error" ELSE "done")
  /\ failed' = IF fails THEN failed \cup {r.tree} ELSE failed
  /\ UNCHANGED <<shouldCheckpoint, doneCh, errorCh, call, calls>>

(* The channels have room for 1000 messages.  After an error a save sends  *)
(* its result too.                                                         *)
(* Mutant: a snapshot does as well.                                        *)
AfterError_Always(r) == Becomes(r, "done")

AfterError(r) == IF r.kind = "save" THEN Becomes(r, "done") ELSE Ends(r)

SendError(r) ==
  /\ r.kind # "import" /\ r.pc = "error"
  /\ errorCh' = errorCh + 1
  /\ AfterError(r)
  /\ UNCHANGED <<trees, shouldCheckpoint, doneCh, call, calls, failed>>

SendDone(r) ==
  /\ r.kind # "import" /\ r.pc = "done"
  /\ doneCh' = Append(doneCh, IF r.kind = "save" THEN trees[r.tree].version ELSE 0)
  /\ Ends(r)
  /\ UNCHANGED <<trees, shouldCheckpoint, errorCh, call, calls, failed>>

-----------------------------------------------------------------------------
(* The collection of the messages.                                         *)

Collecting == call.pc = "collect" /\ call.left > 0

(* A message, which is an error or not.  The first error ends WarmLeaves   *)
(* and ImportMultiTree.                                                    *)
(* Mutant: an error is logged only.                                        *)
Counted_Logged(err) ==
  [call EXCEPT !.left = IF err /\ call.kind \in {"warm", "import"} THEN 0 ELSE @ - 1]

(* Mutant: any message ends ImportMultiTree.                               *)
Counted_First(err) ==
  [call EXCEPT !.errs = IF err THEN @ + 1 ELSE @,
               !.left = IF (err /\ call.kind = "warm") \/ call.kind = "import" THEN 0 ELSE @ - 1]

Counted(err) ==
  [call EXCEPT !.errs = IF err THEN @ + 1 ELSE @,
               !.left = IF err /\ call.kind \in {"warm", "import"} THEN 0 ELSE @ - 1]

TakeError ==
  /\ Collecting /\ call.kind # "import" /\ errorCh > 0
  /\ errorCh' = errorCh - 1
  /\ call' = Counted(TRUE)
  /\ UNCHANGED <<trees, shouldCheckpoint, doneCh, routines, calls, failed>>

(* A result of another version than the one before it is an error.         *)
TakeDone ==
  /\ Collecting /\ call.kind # "import" /\ doneCh # <<>>
  /\ doneCh' = Tail(doneCh)
  /\ LET v == Head(doneCh)
         differs == call.kind = "save" /\ call.version \notin {-1, v}
     IN  call' = [Counted(FALSE) EXCEPT !.version = v, !.errs = IF differs THEN @ + 1 ELSE @]
  /\ UNCHANGED <<trees, shouldCheckpoint, errorCh, routines, calls, failed>>

(* ImportMultiTree has channels of its own, without room: a goroutine and  *)
(* the collection meet.                                                    *)
Receive(r) ==
  /\ Collecting /\ call.kind = "import" /\ r.kind = "import" /\ r.pc \in {"error", "done"}
  /\ call' = Counted(r.pc = "error")
  /\ Ends(r)
  /\ UNCHANGED <<trees, shouldCheckpoint, doneCh, errorCh, calls, failed>>

(* The call returns.  A save resets the flag, and sets it again if the     *)
(* trees have reached CheckpointMemory together.                           *)
Return ==
  /\ call.pc = "collect" /\ call.left = 0
  /\ IF call.kind = "save" THEN shouldCheckpoint' \in BOOLEAN ELSE UNCHANGED shouldCheckpoint
  /\ call' = [call EXCEPT !.pc = "returned"]
  /\ UNCHANGED <<trees, doneCh, errorCh, routines, calls, failed>>

(* The caller goes on.                                                     *)
Proceed ==
  /\ call.pc = "returned"
  /\ call' = NoCall
  /\ UNCHANGED <<trees, shouldCheckpoint, doneCh, errorCh, routines, calls, failed>>

(* MultiTree.SaveVersion: the trees one after the other, until one, t,     *)
(* fails or is at another version.                                         *)
SavedUntil(t, before, full, fails) ==
  LET saved(u) == TreeSaved(trees[u], FALSE, u \in full, u = t /\ fails)
      same == \A u, w \in before \cup {t} : trees[u].version = trees[w].version
  IN  /\ fails => "save" \in MayFail
      /\ \A u, w \in before : trees[u].version = trees[w].version
      /\ ~fails /\ same => before = Trees \ {t}
      /\ trees' = [u \in Trees |-> IF u \in before \cup {t} THEN saved(u) ELSE trees[u]]
      /\ call' = [pc |-> "returned", kind |-> "save", left |-> 0, version |-> saved(t).version,
                  errs |-> IF fails \/ ~same THEN 1 ELSE 0, want |-> FALSE]
      /\ failed' = IF fails THEN {t} ELSE {}

SaveVersion ==
  /\ call.pc = "none" /\ calls < MaxCalls
  /\ calls' = calls + 1
  /\ \E t \in Trees : \E before \in SUBSET (Trees \ {t}), full \in SUBSET Trees, fails \in BOOLEAN :
       SavedUntil(t, before, full, fails)
  /\ UNCHANGED <<shouldCheckpoint, doneCh, errorCh, routines>>

Terminated == call.pc = "none" /\ calls = MaxCalls /\ UNCHANGED vars

RoutineStep == \E r \in routines : \/ ReadFlag(r) \/ SendError(r) \/ SendDone(r)
                                  \/ \E fails \in BOOLEAN : Work(r, fails)

CallStep == TakeError \/ TakeDone \/ (\E r \in routines : Receive(r)) \/ Return

Next == \/ \E kind \in Kinds : Start(kind)
        \/ RoutineStep \/ CallStep \/ Proceed \/ SaveVersion \/ Terminated

(* The scheduler runs every goroutine that can run.                        *)
Fairness == WF_vars(RoutineStep) /\ WF_vars(CallStep)

Spec == Init /\ [][Next]_vars /\ Fairness

-----------------------------------------------------------------------------
(* Properties.                                                             *)

(* The channels never hold more than a message per tree: their size, 1000, *)
(* bounds the number of trees and not the number of calls.                 *)
TypeOK ==
  /\ trees \in [Trees -> [version : 0 .. MaxCalls, checkpoints : SUBSET (1 .. MaxCalls)]]
  /\ shouldCheckpoint \in BOOLEAN /\ failed \subseteq Trees
  /\ Len(doneCh) + errorCh <= Cardinality(Trees)

(* A call that has returned has no goroutine left and no message in the    *)
(* channels: the next call counts its own messages only, and the caller    *)
(* may change the trees.                                                   *)
CallsJoin == call.pc # "collect" => routines = {} /\ doneCh = <<>> /\ errorCh = 0

(* A call reports an error if and only if it failed for some tree; and a   *)
(* save without an error returns the version that all the trees have.      *)
ResultsAreTrue ==
  call.pc = "returned" =>
    /\ call.errs = 0 <=> failed = {}
    /\ call.kind = "save" /\ call.errs = 0 => \A t \in Trees : trees[t].version = call.version

(* A checkpoint that the MultiTree wants when a save begins is made by     *)
(* every tree in that save, whatever else the trees decide.                *)
CheckpointsTogether ==
  call.pc = "returned" /\ call.kind = "save" /\ call.want =>
    \A t \in Trees \ failed : trees[t].version \in trees[t].checkpoints

(* Every call returns, also one that fails, and its goroutines end.        *)
CallsReturn == <>[](call.pc # "collect" /\ routines = {})
=============================================================================
