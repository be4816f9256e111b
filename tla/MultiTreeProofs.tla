-------------------------- MODULE MultiTreeProofs ---------------------------
(***************************************************************************)
(* Proofs about MultiTree, for any set of trees, any checkpoint interval   *)
(* and any number of calls, when nothing but SaveSnapshot may fail: one    *)
(* message per goroutine is what makes the calls join, return what         *)
(* happened, and checkpoint the trees together.                            *)
(***************************************************************************)
EXTENDS MultiTree, FiniteSetTheorems, TLAPS

(* A leaf is for Zenon unless it names the SMT solver; each prover has up to
   sixty seconds, so that no proof depends on the speed of a machine.       *)
USE ZenonT(60)

OnlySnapshotsFail == MayFail \subseteq {"snapshot"}

-----------------------------------------------------------------------------
(* The inductive invariant.                                                *)

Routines ==
  [tree : Trees, call : Nat, kind : Kinds, pc : {"start", "work", "error", "done"}, want : BOOLEAN]

Calls ==
  [pc : {"collect", "returned"}, kind : Kinds, left : Nat, version : Int, errs : Nat, want : BOOLEAN]

Types ==
  /\ trees \in [Trees -> [version : Nat, checkpoints : SUBSET Nat]]
  /\ shouldCheckpoint \in BOOLEAN
  /\ doneCh \in Seq(Nat) /\ errorCh \in Nat
  /\ routines \subseteq Routines
  /\ call \in Calls \cup {NoCall} /\ calls \in Nat
  /\ failed \subseteq Trees

OneEach == \A r, s \in routines : r.tree = s.tree => r = s

(* While a call collects, its goroutines and the messages in the channels  *)
(* are as many as the messages it still waits for.                         *)
Counting ==
  call.pc = "collect" =>
    /\ IsFiniteSet(routines) /\ OneEach
    /\ Cardinality(routines) + Len(doneCh) + errorCh = call.left
    /\ \A r \in routines : r.kind = call.kind /\ (r.pc = "error" => r.kind = "snapshot")
    /\ call.kind # "snapshot" => errorCh = 0

(* A tree that its goroutine has not saved yet, and the version that it    *)
(* will have.                                                              *)
Pending(t) == \E r \in routines : r.tree = t /\ r.pc \in {"start", "work"}
Target(t) == IF call.pc = "collect" /\ call.kind = "save" /\ Pending(t)
             THEN trees[t].version + 1 ELSE trees[t].version

(* The trees are at the same version, or will be, and so are the messages. *)
Together ==
  /\ \A t, u \in Trees : Target(t) = Target(u)
  /\ call.pc = "collect" /\ call.kind = "save" =>
       /\ \A i \in 1 .. Len(doneCh), t \in Trees : doneCh[i] = Target(t)
       /\ call.version = -1 \/ \A t \in Trees : call.version = Target(t)
       /\ call.left < Cardinality(Trees) => call.version # -1
  /\ call.pc = "returned" /\ call.kind = "save" => \A t \in Trees : call.version = trees[t].version

(* A checkpoint that is wanted reaches every goroutine.                    *)
Checkpoints ==
  call.pc # "none" /\ call.kind = "save" /\ call.want =>
    /\ call.pc = "collect" => shouldCheckpoint /\ \A r \in routines : r.pc = "work" => r.want
    /\ \A t \in Trees : ~ Pending(t) => trees[t].version \in trees[t].checkpoints

(* An error is at the goroutine, in the channel or counted.                *)
Errors ==
  call.pc # "none" =>
    /\ failed # {} <=> \/ call.errs > 0 \/ errorCh > 0
                       \/ \E r \in routines : r.pc = "error"
    /\ call.kind # "snapshot" => call.errs = 0

IInv == Types /\ Counting /\ CallsJoin /\ Together /\ Checkpoints /\ Errors

-----------------------------------------------------------------------------
(* A save of a tree adds one to its version, and makes a checkpoint of it  *)
(* if one is wanted.                                                       *)
LEMMA TreeSavedLemma ==
  ASSUME NEW t \in [version : Nat, checkpoints : SUBSET Nat], NEW want \in BOOLEAN,
         NEW full \in BOOLEAN, NEW fails \in BOOLEAN
  PROVE  /\ TreeSaved(t, want, full, fails) \in [version : Nat, checkpoints : SUBSET Nat]
         /\ TreeSaved(t, want, full, fails).version = t.version + 1
         /\ want /\ ~fails => t.version + 1 \in TreeSaved(t, want, full, fails).checkpoints
<1> DEFINE v == t.version + 1
           c == want \/ full \/ v = 1 \/ v - LastOf(t.checkpoints) >= Interval
           new == IF c /\ ~fails THEN {v} ELSE {}
<1>1. TreeSaved(t, want, full, fails) = [version |-> v, checkpoints |-> t.checkpoints \cup new]
  BY DEF TreeSaved
<1>2. v \in Nat /\ new \subseteq Nat /\ (want /\ ~fails => v \in new)
  BY SMTT(60)
<1> HIDE DEF v, c, new
<1>3. t.checkpoints \cup new \in SUBSET Nat
  BY <1>2
<1>4. /\ TreeSaved(t, want, full, fails).version = v
      /\ TreeSaved(t, want, full, fails).checkpoints = t.checkpoints \cup new
  BY SMTT(60), <1>1
<1> QED
  BY <1>1, <1>2, <1>3, <1>4 DEF v

(* A goroutine that goes on is still one goroutine, the only one of its    *)
(* tree.                                                                   *)
LEMMA BecomesLemma ==
  ASSUME IsFiniteSet(routines), OneEach, NEW r \in routines, NEW s, s.tree = r.tree,
         routines' = (routines \ {r}) \cup {s}
  PROVE  IsFiniteSet(routines') /\ OneEach' /\ Cardinality(routines') = Cardinality(routines)
<1>1. s \notin routines \ {r}
  BY DEF OneEach
<1>2. /\ IsFiniteSet(routines \ {r}) /\ Cardinality(routines \ {r}) = Cardinality(routines) - 1
      /\ Cardinality(routines) \in Nat
  BY FS_RemoveElement, FS_CardinalityType
<1>3. /\ IsFiniteSet((routines \ {r}) \cup {s})
      /\ Cardinality((routines \ {r}) \cup {s}) = Cardinality(routines \ {r}) + 1
  BY <1>1, <1>2, FS_AddElement
<1>4. OneEach'
  BY SMTT(60) DEF OneEach
<1> QED
  BY SMTT(60), <1>2, <1>3, <1>4

(* A goroutine that ends is one goroutine less.                            *)
LEMMA EndsLemma ==
  ASSUME IsFiniteSet(routines), OneEach, NEW r \in routines, Ends(r)
  PROVE  /\ IsFiniteSet(routines') /\ OneEach'
         /\ Cardinality(routines') = Cardinality(routines) - 1
         /\ Cardinality(routines) \in Nat /\ Cardinality(routines') \in Nat
<1>1. /\ IsFiniteSet(routines \ {r}) /\ Cardinality(routines \ {r}) = Cardinality(routines) - 1
      /\ Cardinality(routines) \in Nat
  BY FS_RemoveElement, FS_CardinalityType
<1>2. Cardinality(routines \ {r}) \in Nat
  BY <1>1, FS_CardinalityType
<1> QED
  BY <1>1, <1>2 DEF Ends, OneEach

(* A goroutine exists only while a call collects.                          *)
LEMMA RunningCall ==
  ASSUME IInv, NEW r \in routines
  PROVE  /\ call.pc = "collect" /\ call \in Calls /\ r \in Routines
         /\ IsFiniteSet(routines) /\ OneEach /\ r.kind = call.kind
<1>1. call.pc = "collect"
  BY DEF IInv, CallsJoin
<1>2. call # NoCall
  BY SMTT(60), <1>1 DEF NoCall
<1> QED
  BY <1>1, <1>2 DEF IInv, Types, Counting

-----------------------------------------------------------------------------
(* Before the first call the trees are at version 0 and nothing runs.      *)
LEMMA InitInv == Init => IInv
<1> SUFFICES ASSUME Init PROVE IInv
  OBVIOUS
<1> USE DEF Init
<1>0. call.pc = "none" /\ call = NoCall
  BY DEF NoCall
<1>a. [version |-> 0, checkpoints |-> {}] \in [version : Nat, checkpoints : SUBSET Nat]
  OBVIOUS
<1>b. trees \in [Trees -> [version : Nat, checkpoints : SUBSET Nat]]
  BY <1>a
<1>c. doneCh \in Seq(Nat)
  BY SMTT(60)
<1>1. Types
  BY <1>0, <1>b, <1>c DEF Types
<1>2. Counting /\ CallsJoin
  BY <1>0 DEF Counting, CallsJoin
<1>3. Together
  BY <1>0 DEF Together, Target
<1>4. Checkpoints /\ Errors
  BY <1>0 DEF Checkpoints, Errors
<1> QED
  BY <1>1, <1>2, <1>3, <1>4 DEF IInv

(* Start: a goroutine for every tree, and as many messages to wait for.    *)
LEMMA StartStep ==
  ASSUME IInv, NEW kind \in Kinds, Start(kind)
  PROVE  IInv'
<1> DEFINE new(t) == [tree |-> t, call |-> calls + 1, kind |-> kind, pc |-> "start", want |-> FALSE]
           all == {new(t) : t \in Trees}
<1>a. /\ Types /\ call.pc = "none" /\ routines = {} /\ doneCh = <<>> /\ errorCh = 0
      /\ \A t, u \in Trees : trees[t].version = trees[u].version
  BY DEF IInv, Start, CallsJoin, Together, Target
<1>b. /\ calls' = calls + 1 /\ routines' = all /\ failed' = {} /\ shouldCheckpoint' = shouldCheckpoint
      /\ call' = [pc |-> "collect", kind |-> kind, left |-> Cardinality(Trees), version |-> -1,
                  errs |-> 0, want |-> shouldCheckpoint]
      /\ UNCHANGED <<trees, doneCh, errorCh>>
  BY <1>a DEF Start, FlagAtStart
<1>c. Cardinality(Trees) \in Nat
  BY TreesAssumption, FS_CardinalityType
<1>h. ASSUME NEW t \in Trees
      PROVE  new(t) \in all /\ new(t).tree = t /\ new(t).pc = "start" /\ new(t).kind = kind
  OBVIOUS
<1>i. ASSUME NEW r \in all
      PROVE  \E t \in Trees : r = new(t)
  OBVIOUS
<1>d. IsFiniteSet(all) /\ Cardinality(all) = Cardinality(Trees)
  <2> DEFINE f == [t \in Trees |-> new(t)]
  <2>1. f \in [Trees -> all] /\ \A t \in Trees : f[t] = new(t)
    BY <1>h
  <2> HIDE DEF new, all, f
  <2>2. f \in Injection(Trees, all)
    BY SMTT(60), <1>h, <2>1 DEF Injection, IsInjective
  <2>3. f \in Surjection(Trees, all)
    BY <1>i, <2>1 DEF Surjection
  <2>4. ExistsBijection(Trees, all)
    BY <2>2, <2>3 DEF Bijection, ExistsBijection
  <2> QED
    BY <2>4, TreesAssumption, FS_Bijection
<1>e. /\ call'.pc = "collect" /\ call'.kind = kind /\ call'.left = Cardinality(Trees)
      /\ call'.version = -1 /\ call'.errs = 0 /\ call'.want = shouldCheckpoint
  BY <1>b
<1>f. \A r \in all : r.kind = kind /\ r.pc = "start"
  BY SMTT(60)
<1>g. \A t \in Trees : Pending(t)'
  <2> HIDE DEF new, all
  <2> QED
    BY <1>b, <1>h DEF Pending
<1>1. Types'
  <2>1. ASSUME NEW t \in Trees PROVE new(t) \in Routines
    BY SMTT(60), <1>a DEF Types, Routines
  <2>2. call' \in Calls
    BY SMTT(60), <1>a, <1>b, <1>c DEF Calls, Types
  <2>3. all \subseteq Routines
    <3> HIDE DEF new, all
    <3> QED BY <1>i, <2>1
  <2> QED
    BY SMTT(60), <1>a, <1>b, <2>2, <2>3 DEF Types
<1>2. Counting'
  <2> HIDE DEF new, all
  <2>1. OneEach'
    BY SMTT(60), <1>b, <1>h, <1>i DEF OneEach
  <2> QED
    BY SMTT(60), <1>a, <1>b, <1>c, <1>d, <1>e, <1>f, <2>1 DEF Counting
<1>3. CallsJoin'
  BY <1>e DEF CallsJoin
<1>4. Together'
  <2>1. \A t, u \in Trees : Target(t)' = Target(u)'
    BY <1>a, <1>b, <1>e, <1>g DEF Target
  <2> QED
    BY SMTT(60), <1>a, <1>b, <1>c, <1>e, <2>1 DEF Together
<1>5. Checkpoints'
  BY <1>b, <1>e, <1>f, <1>g DEF Checkpoints
<1>6. Errors'
  BY SMTT(60), <1>a, <1>b, <1>e, <1>f DEF Errors
<1> QED
  BY <1>1, <1>2, <1>3, <1>4, <1>5, <1>6 DEF IInv

-----------------------------------------------------------------------------
(* ReadFlag: the flag is still the one that the call began with.           *)
LEMMA ReadFlagStep ==
  ASSUME IInv, NEW r \in routines, ReadFlag(r)
  PROVE  IInv'
<1> DEFINE s == [r EXCEPT !.pc = "work", !.want = shouldCheckpoint]
<1>a. /\ call.pc = "collect" /\ r \in Routines /\ IsFiniteSet(routines) /\ OneEach
      /\ r.kind = call.kind /\ r.pc = "start"
      /\ Types /\ Counting /\ CallsJoin /\ Together /\ Checkpoints /\ Errors
  BY RunningCall DEF ReadFlag, IInv
<1>b. /\ routines' = (routines \ {r}) \cup {s}
      /\ UNCHANGED <<trees, shouldCheckpoint, doneCh, errorCh, call, calls, failed>>
  BY DEF ReadFlag
<1>c. /\ s \in Routines /\ s.tree = r.tree /\ s.kind = r.kind /\ s.pc = "work"
      /\ s.want = shouldCheckpoint
  BY <1>a DEF Types, Routines
<1> HIDE DEF s
<1>d. IsFiniteSet(routines') /\ OneEach' /\ Cardinality(routines') = Cardinality(routines)
  BY <1>a, <1>b, <1>c, BecomesLemma
<1>e. \A t : Pending(t)' <=> Pending(t)
  BY <1>a, <1>b, <1>c DEF Pending
<1>1. Types'
  BY <1>a, <1>b, <1>c DEF Types
<1>2. Counting'
  BY <1>a, <1>b, <1>c, <1>d DEF Counting
<1>3. CallsJoin'
  BY <1>a, <1>b DEF CallsJoin
<1>4. Together'
  <2>1. \A t \in Trees : Target(t)' = Target(t)
    BY <1>b, <1>e DEF Target
  <2> QED
    BY <1>a, <1>b, <2>1 DEF Together
<1>5. Checkpoints'
  BY <1>a, <1>b, <1>c, <1>e DEF Checkpoints
<1>6. Errors'
  BY <1>a, <1>b, <1>c DEF Errors
<1> QED
  BY <1>1, <1>2, <1>3, <1>4, <1>5, <1>6 DEF IInv

(* Work: a tree that is saved goes to the version it was bound for, and a  *)
(* call that fails leaves a goroutine that has the error.                  *)
LEMMA WorkStep ==
  ASSUME IInv, OnlySnapshotsFail, NEW r \in routines, NEW fails \in BOOLEAN, Work(r, fails)
  PROVE  IInv'
<1> DEFINE s == [r EXCEPT !.pc = IF fails THEN "error" ELSE "done"]
<1>a. /\ call.pc = "collect" /\ r \in Routines /\ IsFiniteSet(routines) /\ OneEach
      /\ r.kind = call.kind /\ r.pc = IF r.kind = "save" THEN "work" ELSE "start"
      /\ Types /\ Counting /\ CallsJoin /\ Together /\ Checkpoints /\ Errors
  BY RunningCall DEF Work, IInv
<1>b. /\ routines' = (routines \ {r}) \cup {s}
      /\ failed' = IF fails THEN failed \cup {r.tree} ELSE failed
      /\ fails => r.kind = "snapshot"
      /\ UNCHANGED <<shouldCheckpoint, doneCh, errorCh, call, calls>>
  BY DEF Work, Becomes, OnlySnapshotsFail
<1>c. /\ s \in Routines /\ s.tree = r.tree /\ s.kind = r.kind /\ s.want = r.want
      /\ s.pc = IF fails THEN "error" ELSE "done"
  BY <1>a DEF Routines
<1> HIDE DEF s
<1>d. IsFiniteSet(routines') /\ OneEach' /\ Cardinality(routines') = Cardinality(routines)
  BY <1>a, <1>b, <1>c, BecomesLemma
<1>e. r.tree \in Trees /\ r.want \in BOOLEAN
  BY <1>a DEF Routines
<1>f. /\ \A t : t # r.tree => (Pending(t)' <=> Pending(t))
      /\ Pending(r.tree) /\ ~ Pending(r.tree)'
  <2>1. \A t : t # r.tree => (Pending(t)' <=> Pending(t))
    BY <1>b, <1>c DEF Pending
  <2>2. Pending(r.tree)
    BY <1>a DEF Pending
  <2>3. ~ Pending(r.tree)'
    BY <1>a, <1>b, <1>c DEF Pending, OneEach
  <2> QED
    BY <2>1, <2>2, <2>3
<1>g. /\ trees' \in [Trees -> [version : Nat, checkpoints : SUBSET Nat]]
      /\ r.kind # "save" => trees' = trees
      /\ \A t \in Trees \ {r.tree} : trees'[t] = trees[t]
      /\ r.kind = "save" => trees'[r.tree].version = trees[r.tree].version + 1
      /\ r.kind = "save" /\ r.want => trees'[r.tree].version \in trees'[r.tree].checkpoints
  <2>1. CASE r.kind # "save"
    BY <1>a, <2>1 DEF Work, Types
  <2>2. CASE r.kind = "save"
    <3>1. ~ fails
      BY <1>b, <2>2
    <3>2. PICK full \in BOOLEAN :
            trees' = [trees EXCEPT ![r.tree] = TreeSaved(trees[r.tree], r.want, full, fails)]
      BY <2>2 DEF Work
    <3>3. trees[r.tree] \in [version : Nat, checkpoints : SUBSET Nat]
      BY <1>a, <1>e DEF Types
    <3> DEFINE new == TreeSaved(trees[r.tree], r.want, full, fails)
    <3>4. /\ new \in [version : Nat, checkpoints : SUBSET Nat]
          /\ new.version = trees[r.tree].version + 1
          /\ r.want => trees[r.tree].version + 1 \in new.checkpoints
      BY SMTT(60), <1>e, <3>1, <3>3, TreeSavedLemma
    <3> HIDE DEF new
    <3>5. trees' = [trees EXCEPT ![r.tree] = new]
      BY <3>2 DEF new
    <3> QED
      BY <1>a, <1>e, <2>2, <3>4, <3>5 DEF Types
  <2> QED
    BY <2>1, <2>2
<1>1. Types'
  BY <1>a, <1>b, <1>c, <1>e, <1>g DEF Types
<1>2. Counting'
  BY <1>a, <1>b, <1>c, <1>d DEF Counting
<1>3. CallsJoin'
  BY <1>a, <1>b DEF CallsJoin
<1>4. Together'
  <2>1. \A t \in Trees : Target(t)' = Target(t)
    BY <1>a, <1>b, <1>f, <1>g DEF Target
  <2> QED
    BY <1>a, <1>b, <2>1 DEF Together
<1>5. Checkpoints'
  <2> SUFFICES ASSUME call.kind = "save", call.want
               PROVE  /\ shouldCheckpoint /\ \A q \in routines' : q.pc = "work" => q.want
                      /\ \A t \in Trees : ~ Pending(t)' => trees'[t].version \in trees'[t].checkpoints
    BY <1>a, <1>b DEF Checkpoints
  <2>1. shouldCheckpoint /\ r.want /\ \A q \in routines : q.pc = "work" => q.want
    BY <1>a DEF Checkpoints
  <2>2. \A q \in routines' : q.pc = "work" => q.want
    BY <1>b, <1>c, <2>1
  <2>3. ASSUME NEW t \in Trees, ~ Pending(t)' PROVE trees'[t].version \in trees'[t].checkpoints
    <3>1. CASE t = r.tree
      BY <1>a, <1>g, <2>1, <3>1
    <3>2. CASE t # r.tree
      BY <1>a, <1>f, <1>g, <2>3, <3>2 DEF Checkpoints
    <3> QED
      BY <3>1, <3>2
  <2> QED
    BY <2>1, <2>2, <2>3
<1>6. Errors'
  <2>1. CASE fails
    BY <1>a, <1>b, <1>c, <2>1 DEF Errors
  <2>2. CASE ~ fails
    BY <1>a, <1>b, <1>c, <2>2 DEF Errors
  <2> QED
    BY <2>1, <2>2
<1> QED
  BY <1>1, <1>2, <1>3, <1>4, <1>5, <1>6 DEF IInv

(* SendError: the goroutine of a snapshot ends with its error, so that one *)
(* message is all that it sends.                                           *)
LEMMA SendErrorStep ==
  ASSUME IInv, NEW r \in routines, SendError(r)
  PROVE  IInv'
<1>a. /\ call.pc = "collect" /\ r \in Routines /\ IsFiniteSet(routines) /\ OneEach
      /\ r.kind = call.kind /\ r.pc = "error"
      /\ Types /\ Counting /\ CallsJoin /\ Together /\ Checkpoints /\ Errors
  BY RunningCall DEF SendError, IInv
<1>b. r.kind = "snapshot" /\ call.kind = "snapshot"
  BY <1>a DEF Counting
<1>c. /\ Ends(r) /\ errorCh' = errorCh + 1
      /\ UNCHANGED <<trees, shouldCheckpoint, doneCh, call, calls, failed>>
  BY <1>b DEF SendError, AfterError
<1>d. /\ IsFiniteSet(routines') /\ OneEach' /\ Cardinality(routines') = Cardinality(routines) - 1
      /\ Cardinality(routines) \in Nat /\ Cardinality(routines') \in Nat
  BY <1>a, <1>c, EndsLemma
<1>e. routines' = routines \ {r} /\ errorCh \in Nat /\ Len(doneCh) \in Nat
  BY SMTT(60), <1>a, <1>c DEF Ends, Types
<1>1. Types'
  BY SMTT(60), <1>a, <1>c, <1>e DEF Types
<1>2. Counting'
  <2>1. Cardinality(routines) + Len(doneCh) + errorCh = call.left
    BY <1>a DEF Counting
  <2>2. Cardinality(routines') + Len(doneCh) + (errorCh + 1) = call.left
    BY SMTT(60), <1>d, <1>e, <2>1
  <2> QED
    BY <1>a, <1>b, <1>c, <1>d, <1>e, <2>2 DEF Counting
<1>3. CallsJoin'
  BY <1>a, <1>c DEF CallsJoin
<1>4. Together'
  BY <1>a, <1>b, <1>c DEF Together, Target
<1>5. Checkpoints'
  BY <1>a, <1>b, <1>c DEF Checkpoints
<1>6. Errors'
  BY SMTT(60), <1>a, <1>b, <1>c, <1>e DEF Errors
<1> QED
  BY <1>1, <1>2, <1>3, <1>4, <1>5, <1>6 DEF IInv

(* SendDone: the version that is sent is the one the trees are bound for.  *)
LEMMA SendDoneStep ==
  ASSUME IInv, NEW r \in routines, SendDone(r)
  PROVE  IInv'
<1> DEFINE v == IF r.kind = "save" THEN trees[r.tree].version ELSE 0
<1>a. /\ call.pc = "collect" /\ r \in Routines /\ IsFiniteSet(routines) /\ OneEach
      /\ r.kind = call.kind /\ r.pc = "done"
      /\ Types /\ Counting /\ CallsJoin /\ Together /\ Checkpoints /\ Errors
  BY RunningCall DEF SendDone, IInv
<1>b. /\ Ends(r) /\ doneCh' = Append(doneCh, v)
      /\ UNCHANGED <<trees, shouldCheckpoint, errorCh, call, calls, failed>>
  BY DEF SendDone
<1>c. r.tree \in Trees /\ v \in Nat
  BY <1>a DEF Types, Routines
<1>d. /\ IsFiniteSet(routines') /\ OneEach' /\ Cardinality(routines') = Cardinality(routines) - 1
      /\ Cardinality(routines) \in Nat /\ Cardinality(routines') \in Nat
  BY <1>a, <1>b, EndsLemma
<1>e. routines' = routines \ {r} /\ errorCh \in Nat /\ Len(doneCh) \in Nat
  BY SMTT(60), <1>a, <1>b DEF Ends, Types
<1>f. \A t : Pending(t)' <=> Pending(t)
  BY <1>a, <1>e DEF Pending
<1>g. ~ Pending(r.tree)
  BY <1>a DEF Pending, OneEach
<1>h. \A t \in Trees : Target(t)' = Target(t)
  BY <1>b, <1>f DEF Target
<1>i. call.kind = "save" => v = Target(r.tree)
  BY <1>a, <1>g DEF Target
<1> HIDE DEF v
<1>j. /\ doneCh' \in Seq(Nat) /\ Len(doneCh') = Len(doneCh) + 1
      /\ \A i \in 1 .. Len(doneCh) : doneCh'[i] = doneCh[i]
      /\ doneCh'[Len(doneCh) + 1] = v
  BY SMTT(60), <1>a, <1>b, <1>c DEF Types
<1>1. Types'
  BY <1>a, <1>b, <1>e, <1>j DEF Types
<1>2. Counting'
  <2>1. Cardinality(routines') + Len(doneCh') + errorCh' = call'.left
    BY SMTT(60), <1>a, <1>b, <1>d, <1>e, <1>j DEF Counting
  <2> QED
    BY <1>a, <1>b, <1>d, <1>e, <2>1 DEF Counting
<1>3. CallsJoin'
  BY <1>a, <1>b DEF CallsJoin
<1>4. Together'
  <2>1. ASSUME call.kind = "save", NEW i \in 1 .. Len(doneCh'), NEW t \in Trees
        PROVE  doneCh'[i] = Target(t)'
    <3>1. Target(t)' = Target(t) /\ Target(t) = Target(r.tree)
      BY <1>a, <1>c, <1>h DEF Together
    <3>2. CASE i \in 1 .. Len(doneCh)
      BY <1>a, <1>j, <2>1, <3>1, <3>2 DEF Together
    <3>3. CASE i = Len(doneCh) + 1
      BY <1>i, <1>j, <2>1, <3>1, <3>3
    <3> QED
      BY SMTT(60), <1>e, <1>j, <3>2, <3>3
  <2>2. /\ \A t, u \in Trees : Target(t)' = Target(u)'
        /\ call.kind = "save" =>
             /\ call.version = -1 \/ \A t \in Trees : call.version = Target(t)'
             /\ call.left < Cardinality(Trees) => call.version # -1
    BY <1>a, <1>h DEF Together
  <2> QED
    BY <1>a, <1>b, <2>1, <2>2 DEF Together
<1>5. Checkpoints'
  BY <1>a, <1>b, <1>e, <1>f DEF Checkpoints
<1>6. Errors'
  BY <1>a, <1>b, <1>e DEF Errors
<1> QED
  BY <1>1, <1>2, <1>3, <1>4, <1>5, <1>6 DEF IInv

-----------------------------------------------------------------------------
(* A message counts once, and is an error or not.                          *)
LEMMA CountedLemma ==
  ASSUME NEW err \in BOOLEAN, call \in Calls, call.left > 0, err => call.kind = "snapshot"
  PROVE  /\ Counted(err) \in Calls /\ Counted(err).left = call.left - 1
         /\ Counted(err).errs = IF err THEN call.errs + 1 ELSE call.errs
         /\ Counted(err).pc = call.pc /\ Counted(err).kind = call.kind
         /\ Counted(err).version = call.version /\ Counted(err).want = call.want
<1> DEFINE errs == IF err THEN call.errs + 1 ELSE call.errs
<1>1. /\ call.pc \in {"collect", "returned"} /\ call.kind \in Kinds /\ call.left \in Nat
      /\ call.version \in Int /\ call.errs \in Nat /\ call.want \in BOOLEAN
      /\ call = [pc |-> call.pc, kind |-> call.kind, left |-> call.left, version |-> call.version,
                 errs |-> call.errs, want |-> call.want]
  BY DEF Calls
<1>2. ~ (err /\ call.kind \in {"warm", "import"})
  OBVIOUS
<1>3. Counted(err) = [call EXCEPT !.errs = errs, !.left = call.left - 1]
  BY <1>2 DEF Counted
<1>4. errs \in Nat /\ call.left - 1 \in Nat
  BY SMTT(60), <1>1
<1> HIDE DEF errs
<1>5. Counted(err) = [pc |-> call.pc, kind |-> call.kind, left |-> call.left - 1,
                      version |-> call.version, errs |-> errs, want |-> call.want]
  BY <1>1, <1>3
<1>6. Counted(err) \in Calls
  BY SMTT(60), <1>1, <1>4, <1>5 DEF Calls
<1> QED
  BY SMTT(60), <1>5, <1>6 DEF errs

(* TakeError: the error leaves the channel and is counted.                 *)
LEMMA TakeErrorStep ==
  ASSUME IInv, TakeError
  PROVE  IInv'
<1>a. /\ call.pc = "collect" /\ call.left > 0 /\ errorCh > 0
      /\ Types /\ Counting /\ CallsJoin /\ Together /\ Checkpoints /\ Errors
      /\ errorCh' = errorCh - 1 /\ call' = Counted(TRUE)
      /\ UNCHANGED <<trees, shouldCheckpoint, doneCh, routines, calls, failed>>
  BY DEF TakeError, Collecting, IInv
<1>b. call \in Calls /\ errorCh \in Nat /\ Len(doneCh) \in Nat
  BY SMTT(60), <1>a DEF Types, NoCall
<1>c. call.kind = "snapshot"
  BY SMTT(60), <1>a, <1>b DEF Counting
<1>d. /\ call' \in Calls /\ call'.left = call.left - 1 /\ call'.errs = call.errs + 1
      /\ call'.pc = call.pc /\ call'.kind = call.kind
  BY <1>a, <1>b, <1>c, CountedLemma
<1>e. /\ call.errs \in Nat /\ call.left \in Nat /\ errorCh' \in Nat
      /\ IsFiniteSet(routines) /\ Cardinality(routines) \in Nat
  BY SMTT(60), <1>a, <1>b, FS_CardinalityType DEF Calls, Counting
<1>1. Types'
  BY <1>a, <1>d, <1>e DEF Types
<1>2. Counting'
  <2>0. Cardinality(routines) + Len(doneCh) + errorCh = call.left
    BY <1>a DEF Counting
  <2>1. Cardinality(routines) + Len(doneCh) + (errorCh - 1) = call.left - 1
    BY SMTT(60), <1>b, <1>e, <2>0
  <2> QED
    BY <1>a, <1>c, <1>d, <2>1 DEF Counting, OneEach
<1>3. CallsJoin'
  BY <1>a, <1>d DEF CallsJoin
<1>4. Together'
  BY <1>a, <1>c, <1>d DEF Together, Target
<1>5. Checkpoints'
  BY <1>a, <1>c, <1>d DEF Checkpoints
<1>6. Errors'
  <2>0. failed # {}
    BY <1>a DEF Errors
  <2>1. failed # {} /\ call'.errs > 0
    BY SMTT(60), <1>d, <1>e, <2>0
  <2> QED
    BY <1>a, <1>c, <1>d, <2>1 DEF Errors
<1> QED
  BY <1>1, <1>2, <1>3, <1>4, <1>5, <1>6 DEF IInv

(* TakeDone: the version in the message is the one of every other message, *)
(* so that none of them is taken for an error.                             *)
LEMMA TakeDoneStep ==
  ASSUME IInv, TakeDone
  PROVE  IInv'
<1> DEFINE v == Head(doneCh)
           differs == call.kind = "save" /\ call.version \notin {-1, v}
<1>a. /\ call.pc = "collect" /\ call.left > 0 /\ doneCh # <<>>
      /\ Types /\ Counting /\ CallsJoin /\ Together /\ Checkpoints /\ Errors
      /\ doneCh' = Tail(doneCh)
      /\ call' = [Counted(FALSE) EXCEPT !.version = v, !.errs = IF differs THEN @ + 1 ELSE @]
      /\ UNCHANGED <<trees, shouldCheckpoint, errorCh, routines, calls, failed>>
  BY DEF TakeDone, Collecting, IInv
<1>b. call \in Calls /\ errorCh \in Nat /\ doneCh \in Seq(Nat)
  BY SMTT(60), <1>a DEF Types, NoCall
<1>c. /\ v \in Nat /\ v = doneCh[1] /\ doneCh' \in Seq(Nat)
      /\ Len(doneCh) \in Nat /\ Len(doneCh) >= 1 /\ Len(doneCh') = Len(doneCh) - 1
      /\ \A i \in 1 .. Len(doneCh') : doneCh'[i] = doneCh[i + 1] /\ i + 1 \in 1 .. Len(doneCh)
  BY SMTT(60), <1>a, <1>b
<1>d. call.kind = "save" => \A t \in Trees : v = Target(t)
  <2>1. 1 \in 1 .. Len(doneCh)
    BY SMTT(60), <1>c
  <2> QED
    BY <1>a, <1>c, <2>1 DEF Together
<1>e. ~ differs
  <2>1. PICK t \in Trees : TRUE
    BY TreesAssumption
  <2> QED
    BY <1>a, <1>d, <2>1 DEF Together
<1>f. /\ Counted(FALSE) \in Calls /\ Counted(FALSE).left = call.left - 1
      /\ Counted(FALSE).errs = call.errs
      /\ Counted(FALSE).pc = call.pc /\ Counted(FALSE).kind = call.kind
      /\ Counted(FALSE).want = call.want
  BY <1>a, <1>b, CountedLemma
<1> HIDE DEF v, differs
<1>0. call' = [Counted(FALSE) EXCEPT !.version = v]
  BY <1>a, <1>e, <1>f DEF differs, Calls
<1>g. /\ call' \in Calls /\ call'.left = call.left - 1 /\ call'.errs = call.errs
      /\ call'.pc = call.pc /\ call'.kind = call.kind /\ call'.want = call.want
      /\ call'.version = v
  <2> DEFINE c == Counted(FALSE)
  <2>1. /\ c \in Calls /\ c.left = call.left - 1 /\ c.errs = call.errs
        /\ c.pc = call.pc /\ c.kind = call.kind /\ c.want = call.want
        /\ call' = [c EXCEPT !.version = v]
    BY <1>0, <1>f
  <2> HIDE DEF c
  <2>2. v \in Int
    BY SMTT(60), <1>c
  <2>3. call' \in Calls
    BY <2>1, <2>2 DEF Calls
  <2>4. /\ call'.left = c.left /\ call'.errs = c.errs /\ call'.pc = c.pc /\ call'.kind = c.kind
        /\ call'.want = c.want /\ call'.version = v
    BY <2>1, <2>2 DEF Calls
  <2> QED
    BY <2>1, <2>3, <2>4
<1>h. call.left \in Nat /\ IsFiniteSet(routines) /\ Cardinality(routines) \in Nat
  BY <1>a, <1>b, FS_CardinalityType DEF Calls, Counting
<1>i. \A t : Pending(t)' <=> Pending(t)
  BY <1>a DEF Pending
<1>j. \A t \in Trees : Target(t)' = Target(t)
  BY <1>a, <1>g, <1>i DEF Target
<1>1. Types'
  BY <1>a, <1>c, <1>g DEF Types
<1>2. Counting'
  <2>0. Cardinality(routines) + Len(doneCh) + errorCh = call.left
    BY <1>a DEF Counting
  <2>1. Cardinality(routines) + Len(doneCh') + errorCh = call'.left
    BY SMTT(60), <1>b, <1>c, <1>g, <1>h, <2>0
  <2> QED
    BY <1>a, <1>g, <2>1 DEF Counting, OneEach
<1>3. CallsJoin'
  BY <1>a, <1>g DEF CallsJoin
<1>4. Together'
  <2>1. ASSUME call.kind = "save", NEW i \in 1 .. Len(doneCh'), NEW t \in Trees
        PROVE  doneCh'[i] = Target(t)'
    BY <1>a, <1>c, <1>j, <2>1 DEF Together
  <2>2. \A t, u \in Trees : Target(t)' = Target(u)'
    BY <1>a, <1>j DEF Together
  <2>3. call.kind = "save" => \A t \in Trees : call'.version = Target(t)'
    BY <1>d, <1>g, <1>j
  <2>4. call'.version # -1
    BY SMTT(60), <1>c, <1>g
  <2> QED
    BY <1>a, <1>g, <2>1, <2>2, <2>3, <2>4 DEF Together
<1>5. Checkpoints'
  BY <1>a, <1>g, <1>i DEF Checkpoints
<1>6. Errors'
  BY <1>a, <1>g DEF Errors
<1> QED
  BY <1>1, <1>2, <1>3, <1>4, <1>5, <1>6 DEF IInv

(* Receive: a goroutine of an import meets the collection and ends.        *)
LEMMA ReceiveStep ==
  ASSUME IInv, NEW r \in routines, Receive(r)
  PROVE  IInv'
<1>a. /\ call.pc = "collect" /\ call.left > 0 /\ call \in Calls /\ call.kind = "import"
      /\ IsFiniteSet(routines) /\ OneEach /\ r.kind = "import" /\ Ends(r)
      /\ Types /\ Counting /\ CallsJoin /\ Together /\ Checkpoints /\ Errors
      /\ UNCHANGED <<trees, shouldCheckpoint, doneCh, errorCh, calls, failed>>
  BY RunningCall DEF Receive, Collecting, IInv
<1>b. r.pc # "error" /\ call' = Counted(FALSE)
  <2>1. r.pc # "error"
    BY <1>a DEF Counting
  <2> QED
    BY <2>1 DEF Receive
<1>c. /\ call' \in Calls /\ call'.left = call.left - 1 /\ call'.errs = call.errs
      /\ call'.pc = call.pc /\ call'.kind = call.kind
  BY <1>a, <1>b, CountedLemma
<1>d. /\ IsFiniteSet(routines') /\ OneEach' /\ Cardinality(routines') = Cardinality(routines) - 1
      /\ Cardinality(routines) \in Nat
  BY <1>a, EndsLemma
<1>e. routines' = routines \ {r} /\ errorCh \in Nat /\ Len(doneCh) \in Nat
  BY SMTT(60), <1>a DEF Ends, Types
<1>1. Types'
  BY <1>a, <1>c, <1>e DEF Types
<1>2. Counting'
  <2>1. Cardinality(routines) + Len(doneCh) + errorCh = call.left
    BY <1>a DEF Counting
  <2>2. Cardinality(routines') + Len(doneCh) + errorCh = call'.left
    BY SMTT(60), <1>c, <1>d, <1>e, <2>1
  <2> QED
    BY <1>a, <1>c, <1>d, <1>e, <2>2 DEF Counting
<1>3. CallsJoin'
  BY <1>a, <1>c DEF CallsJoin
<1>4. Together'
  BY <1>a, <1>c DEF Together, Target
<1>5. Checkpoints'
  BY <1>a, <1>c DEF Checkpoints
<1>6. Errors'
  BY <1>a, <1>b, <1>c, <1>e DEF Errors
<1> QED
  BY <1>1, <1>2, <1>3, <1>4, <1>5, <1>6 DEF IInv

(* Return: a call that waits for no message has no goroutine, and nothing  *)
(* is in the channels.                                                     *)
LEMMA ReturnStep ==
  ASSUME IInv, Return
  PROVE  IInv'
<1>a. /\ call.pc = "collect" /\ call.left = 0 /\ call' = [call EXCEPT !.pc = "returned"]
      /\ Types /\ Counting /\ Together /\ Checkpoints /\ Errors
      /\ UNCHANGED <<trees, doneCh, errorCh, routines, calls, failed>>
  BY DEF Return, IInv
<1>b. shouldCheckpoint' \in BOOLEAN
  BY <1>a DEF Return, Types
<1>c. call \in Calls
  BY SMTT(60), <1>a DEF Types, NoCall
<1>d. /\ call' \in Calls /\ call'.pc = "returned" /\ call'.kind = call.kind /\ call'.errs = call.errs
      /\ call'.version = call.version /\ call'.want = call.want
  BY <1>a, <1>c DEF Calls
<1>e. routines = {} /\ doneCh = <<>> /\ errorCh = 0
  <2>1. /\ IsFiniteSet(routines) /\ Cardinality(routines) + Len(doneCh) + errorCh = 0
        /\ doneCh \in Seq(Nat) /\ errorCh \in Nat
    BY <1>a DEF Counting, Types
  <2>2. Cardinality(routines) \in Nat /\ Len(doneCh) \in Nat
    BY SMTT(60), <2>1, FS_CardinalityType
  <2>3. Cardinality(routines) = 0 /\ Len(doneCh) = 0 /\ errorCh = 0
    BY SMTT(60), <2>1, <2>2
  <2>4. routines = {}
    BY <2>1, <2>3, FS_EmptySet
  <2> QED
    BY SMTT(60), <2>1, <2>3, <2>4
<1>f. /\ \A t : ~ Pending(t) /\ ~ Pending(t)'
      /\ \A t \in Trees : Target(t) = trees[t].version /\ Target(t)' = trees[t].version
  BY <1>a, <1>e DEF Pending, Target
<1>g. call.kind = "save" => call.version # -1
  <2>1. Cardinality(Trees) \in Nat /\ Cardinality(Trees) # 0
    BY TreesAssumption, FS_CardinalityType, FS_EmptySet
  <2> QED
    BY SMTT(60), <1>a, <2>1 DEF Together
<1>1. Types'
  BY <1>a, <1>b, <1>d DEF Types
<1>2. Counting' /\ CallsJoin'
  BY <1>a, <1>d, <1>e DEF Counting, CallsJoin
<1>3. Together'
  BY SMTT(60), <1>a, <1>d, <1>f, <1>g DEF Together
<1>4. Checkpoints'
  BY <1>a, <1>d, <1>f DEF Checkpoints
<1>5. Errors'
  BY <1>a, <1>d DEF Errors
<1> QED
  BY <1>1, <1>2, <1>3, <1>4, <1>5 DEF IInv

(* Proceed: between two calls the trees are at the same version.           *)
LEMMA ProceedStep ==
  ASSUME IInv, Proceed
  PROVE  IInv'
<1>a. /\ call.pc = "returned" /\ call' = NoCall /\ call'.pc = "none"
      /\ Types /\ CallsJoin /\ Together
      /\ UNCHANGED <<trees, shouldCheckpoint, doneCh, errorCh, routines, calls, failed>>
  BY DEF Proceed, IInv, NoCall
<1>1. Types'
  BY <1>a DEF Types
<1>2. Counting' /\ CallsJoin' /\ Checkpoints' /\ Errors'
  BY <1>a DEF Counting, CallsJoin, Checkpoints, Errors
<1>3. Together'
  BY <1>a DEF Together, Target
<1> QED
  BY <1>1, <1>2, <1>3 DEF IInv

(* SaveVersion: the trees are at the same version, so that none of them    *)
(* stops the others from being saved.                                      *)
LEMMA SaveVersionStep ==
  ASSUME IInv, OnlySnapshotsFail, SaveVersion
  PROVE  IInv'
<1>a. /\ call.pc = "none" /\ Types /\ CallsJoin /\ Together
      /\ routines = {} /\ doneCh = <<>> /\ errorCh = 0
      /\ calls' = calls + 1
      /\ UNCHANGED <<shouldCheckpoint, doneCh, errorCh, routines>>
  BY DEF SaveVersion, IInv, CallsJoin
<1>b. \A u, w \in Trees : trees[u].version = trees[w].version
  BY <1>a DEF Together, Target
<1>0. PICK t \in Trees : \E before \in SUBSET (Trees \ {t}), full \in SUBSET Trees, fails \in BOOLEAN :
                            SavedUntil(t, before, full, fails)
  BY DEF SaveVersion
<1>c. PICK before \in SUBSET (Trees \ {t}), full \in SUBSET Trees, fails \in BOOLEAN :
        SavedUntil(t, before, full, fails)
  BY <1>0
<1> DEFINE saved(u) == TreeSaved(trees[u], FALSE, u \in full, u = t /\ fails)
<1>d. /\ ~ fails /\ before \cup {t} = Trees
      /\ \A u, w \in before \cup {t} : trees[u].version = trees[w].version
  BY SMTT(60), <1>b, <1>c DEF OnlySnapshotsFail, SavedUntil
<1>j. /\ trees' = [u \in Trees |-> saved(u)] /\ failed' = {}
      /\ call' = [pc |-> "returned", kind |-> "save", left |-> 0, version |-> saved(t).version,
                  errs |-> 0, want |-> FALSE]
  BY <1>c, <1>d DEF SavedUntil
<1>e. ASSUME NEW u \in Trees
      PROVE  /\ saved(u) \in [version : Nat, checkpoints : SUBSET Nat]
             /\ saved(u).version = trees[u].version + 1
  <2>1. trees[u] \in [version : Nat, checkpoints : SUBSET Nat]
    BY <1>a DEF Types
  <2> DEFINE f == u \in full
             g == u = t /\ fails
  <2>2. f \in BOOLEAN /\ g \in BOOLEAN
    BY SMTT(60)
  <2> HIDE DEF f, g
  <2>3. /\ TreeSaved(trees[u], FALSE, f, g) \in [version : Nat, checkpoints : SUBSET Nat]
        /\ TreeSaved(trees[u], FALSE, f, g).version = trees[u].version + 1
    BY <2>1, <2>2, TreeSavedLemma
  <2> QED
    BY <2>3 DEF f, g
<1> HIDE DEF saved
<1>g. /\ call'.pc = "returned" /\ call'.kind = "save" /\ call'.version = trees[t].version + 1
      /\ call'.errs = 0 /\ call'.want = FALSE
  BY <1>e, <1>j
<1>h. call' \in Calls
  <2>1. trees[t].version + 1 \in Int
    BY SMTT(60), <1>a DEF Types
  <2>2. call' = [pc |-> "returned", kind |-> "save", left |-> 0, version |-> trees[t].version + 1,
                 errs |-> 0, want |-> FALSE]
    BY <1>e, <1>j
  <2> QED
    BY <2>1, <2>2 DEF Calls, Kinds
<1>i. \A u \in Trees : trees'[u].version = trees[u].version + 1
  BY <1>e, <1>j
<1>1. Types'
  BY SMTT(60), <1>a, <1>e, <1>j, <1>h DEF Types
<1>2. Counting' /\ CallsJoin' /\ Checkpoints'
  BY <1>a, <1>g DEF Counting, CallsJoin, Checkpoints
<1>3. Together'
  BY SMTT(60), <1>b, <1>g, <1>i DEF Together, Target
<1>4. Errors'
  BY SMTT(60), <1>a, <1>g, <1>j DEF Errors
<1> QED
  BY <1>1, <1>2, <1>3, <1>4 DEF IInv

-----------------------------------------------------------------------------
(* Every step keeps the invariant.                                         *)
LEMMA NextInv == OnlySnapshotsFail /\ IInv /\ [Next]_vars => IInv'
<1> SUFFICES ASSUME OnlySnapshotsFail, IInv, [Next]_vars PROVE IInv'
  OBVIOUS
<1>1. CASE UNCHANGED vars
  BY SMTT(60), <1>1 DEF vars, IInv, Types, Counting, OneEach, CallsJoin, Together, Target, Pending, Checkpoints,
              Errors
<1>2. CASE \E kind \in Kinds : Start(kind)
  BY <1>2, StartStep
<1>3. CASE RoutineStep
  BY <1>3, ReadFlagStep, WorkStep, SendErrorStep, SendDoneStep DEF RoutineStep
<1>4. CASE CallStep
  BY <1>4, TakeErrorStep, TakeDoneStep, ReceiveStep, ReturnStep DEF CallStep
<1>5. CASE Proceed
  BY <1>5, ProceedStep
<1>6. CASE SaveVersion
  BY <1>6, SaveVersionStep
<1>7. CASE Terminated
  BY <1>1, <1>7 DEF Terminated
<1> QED
  BY <1>1, <1>2, <1>3, <1>4, <1>5, <1>6, <1>7 DEF Next

(* The invariant holds in every reachable state.                           *)
LEMMA Invariance == OnlySnapshotsFail => (Spec => []IInv)
<1>1. OnlySnapshotsFail => (IInv /\ [][Next]_vars => []IInv)
  <2> SUFFICES ASSUME OnlySnapshotsFail PROVE IInv /\ [][Next]_vars => []IInv
    OBVIOUS
  <2>1. IInv /\ [Next]_vars => IInv'
    BY NextInv
  <2> QED
    BY <2>1, PTL
<1> QED
  BY <1>1, InitInv, PTL DEF Spec

(* A call of the MultiTree that has returned leaves no goroutine and no    *)
(* message behind, for any number of trees, when only SaveSnapshot may     *)
(* fail.                                                                   *)
THEOREM CallsJoinAlways == ASSUME OnlySnapshotsFail PROVE Spec => []CallsJoin
<1>1. IInv => CallsJoin
  BY DEF IInv
<1> QED
  BY <1>1, Invariance, PTL

(* What a call returns is what happened: an error if and only if some tree *)
(* failed, and from a save the version that all the trees are at.          *)
THEOREM ResultsAreTrueAlways == ASSUME OnlySnapshotsFail PROVE Spec => []ResultsAreTrue
<1>1. IInv => ResultsAreTrue
  <2> SUFFICES ASSUME IInv, call.pc = "returned" PROVE ResultsAreTrue
    BY DEF ResultsAreTrue
  <2>1. routines = {} /\ errorCh = 0 /\ call \in Calls
    BY SMTT(60) DEF IInv, CallsJoin, Types, NoCall
  <2>2. call.errs \in Nat
    BY <2>1 DEF Calls
  <2>3. call.errs = 0 <=> failed = {}
    BY SMTT(60), <2>1, <2>2 DEF IInv, Errors
  <2> QED
    BY <2>3 DEF IInv, Together, ResultsAreTrue
<1> QED
  BY <1>1, Invariance, PTL

(* A checkpoint that the MultiTree wants at the beginning of a save is one *)
(* of every tree at the end of it.                                         *)
THEOREM CheckpointsTogetherAlways == ASSUME OnlySnapshotsFail PROVE Spec => []CheckpointsTogether
<1>1. IInv => CheckpointsTogether
  BY DEF IInv, CallsJoin, Checkpoints, Pending, CheckpointsTogether
<1> QED
  BY <1>1, Invariance, PTL
=============================================================================
