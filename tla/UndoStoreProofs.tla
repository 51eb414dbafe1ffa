---------------------------- MODULE UndoStoreProofs ----------------------------
(***************************************************************************)
(* What holds of the undo of a retained commit for every number of paths,  *)
(* wherever it stops and whatever anybody else changes: the journal stays  *)
(* readable, the old content is never lost, and unless somebody else       *)
(* changes a target the undo is exact (it implements ExactUndo) and never  *)
(* refused.                                                                *)
(***************************************************************************)
EXTENDS UndoStore, TLAPS

USE JournalAssumption, UndoAssumption DEF Path

-----------------------------------------------------------------------------
(* Type correctness, part by part.                                         *)

LEMMA RecordTypes ==
  /\ Header \in Record /\ FinishedRolledBack \in Record
  /\ \A p \in Path : RollbackIntent(p) \in Record /\ RolledBack(p) \in Record
  BY DEF Record, Finished

LEMMA StepTypes ==
  ASSUME CallOK, EnvOK, NEW l, NEW i, Step(l, i),
         \/ l \in CallPoints /\ i = 0
         \/ l = "path" /\ i \in 0..N
         \/ l \in PathPoints /\ i \in Path
  PROVE  CallOK' /\ EnvOK'
  BY DEF Step, CallOK, EnvOK, env

LEMMA LeaveTypes == ASSUME EnvOK, NEW r \in Reports, Leave(r) PROVE CallOK' /\ EnvOK'
<1>1. <<>> \in Seq(Record) /\ "down" \in CallPoints
  BY DEF CallPoints
<1> QED BY <1>1 DEF Leave, CallOK, EnvOK, env

LEMMA LogTypes == ASSUME DiskOK, NEW r \in Record, Log(r) PROVE DiskOK'
<1>1. Append(log, r) \in Seq(Record)
  BY DEF DiskOK
<1> QED BY <1>1 DEF Log, store, DiskOK

\* Where a call is at a path.
LEMMA AtPath ==
  ASSUME CallOK
  PROVE  /\ pc \in PathPoints => at \in Path
         /\ pc = "path" => at \in 0..N /\ (at > 0 => at \in Path /\ at - 1 \in 0..N)
         /\ pc \in PathPoints => at - 1 \in 0..N
  BY DEF CallOK, PathPoints, CallPoints

\* The actions that change no target, backup or file.
StillStep ==
  \/ RollbackUndo \/ AllPassed \/ RefuseRestore \/ Verify
  \/ Recover \/ RecoverConsumed \/ RecoverFinished \/ RecoverStarted
  \/ ResumeLinked \/ PassRestored \/ RecordRestored \/ RefusePath
  \/ DiscardUndo \/ Stop

LEMMA StillStays == StillStep => Still
  BY DEF StillStep, RollbackUndo, AllPassed, RefuseRestore, Verify, Recover, RecoverConsumed,
         RecoverFinished, RecoverStarted, ResumeLinked, PassRestored, RecordRestored,
         RefusePath, DiscardUndo, Stop

LEMMA StillTypes == ASSUME TypeOK, StillStep PROVE TypeOK'
<1>1. DiskOK /\ CallOK /\ EnvOK
  BY DEF TypeOK
<1>2. DiskOK'
  BY <1>1, StillStays DEF Still, store, DiskOK
<1>3. CASE Stop
  <2>1. <<>> \in Seq(Record) /\ "down" \in CallPoints
    BY DEF CallPoints
  <2> QED BY <1>1, <1>2, <1>3, <2>1 DEF Stop, CallOK, EnvOK, Reports, TypeOK
<1>4. CASE \E r \in Reports : Leave(r)
  BY <1>1, <1>2, <1>4, LeaveTypes DEF TypeOK
<1>5. CASE Recover
  <2>1. CASE pc' = "recover" /\ at' = 0 /\ parsed' = log /\ UNCHANGED <<report, env>>
    BY <1>1, <1>2, <2>1 DEF CallOK, EnvOK, DiskOK, CallPoints, env, TypeOK
  <2>2. CASE Step("drop_journal", 0)
    BY <1>1, <1>2, <2>2, StepTypes DEF CallPoints, TypeOK
  <2> QED BY <1>4, <1>5, <2>1, <2>2 DEF Recover, Reports
<1>6. CASE \E l \in CallPoints : Step(l, 0)
  BY <1>1, <1>2, <1>6, StepTypes DEF TypeOK
<1>7. CASE \E i \in 0..N : Step("path", i)
  BY <1>1, <1>2, <1>7, StepTypes DEF TypeOK
<1>8. CASE \E l \in PathPoints : at \in Path /\ Step(l, at)
  BY <1>1, <1>2, <1>8, StepTypes DEF TypeOK
<1>9. CASE RollbackUndo
  BY <1>4, <1>6, <1>9 DEF RollbackUndo, CallPoints, Reports
<1>10. CASE AllPassed
  BY <1>6, <1>10 DEF AllPassed, CallPoints
<1>11. CASE RefuseRestore \/ Verify
  BY <1>1, <1>4, <1>8, <1>11, AtPath DEF RefuseRestore, Verify, PathPoints, Reports
<1>12. CASE RecoverConsumed \/ RecoverFinished
  BY <1>4, <1>6, <1>12 DEF RecoverConsumed, RecoverFinished, CallPoints, Reports
<1>13. CASE RecoverStarted
  BY <1>6, <1>7, <1>13 DEF RecoverStarted, CallPoints
<1>14. CASE ResumeLinked \/ RecordRestored
  BY <1>1, <1>8, <1>14, AtPath DEF ResumeLinked, RecordRestored, Converging, PathPoints
<1>15. CASE PassRestored
  BY <1>1, <1>7, <1>15, AtPath DEF PassRestored, Converging
<1>16. CASE RefusePath
  BY <1>4, <1>16 DEF RefusePath, Reports
<1>17. CASE DiscardUndo
  <2>1. "discard" \in PathPoints /\ 1 \in Path
    BY DEF PathPoints
  <2> QED BY <1>1, <1>2, <1>17, <2>1, StepTypes DEF DiscardUndo, TypeOK
<1> QED BY <1>3, <1>5, <1>9, <1>10, <1>11, <1>12, <1>13, <1>14, <1>15, <1>16, <1>17
           DEF StillStep

LEMMA LogStepTypes ==
  ASSUME TypeOK, WriteHeader \/ Intend \/ Complete \/ Finish \/ RestoreCommitted
  PROVE  TypeOK'
<1>1. DiskOK /\ CallOK /\ EnvOK
  BY DEF TypeOK
<1>2. CASE WriteHeader \/ Finish
  <2>1. PICK r \in Record : Log(r)
    BY <1>2, RecordTypes DEF WriteHeader, Finish
  <2>2. Step("path", N) \/ Step("drop_receipt", 0)
    BY <1>2 DEF WriteHeader, Finish
  <2>3. CallOK' /\ EnvOK'
    BY <1>1, <2>2, StepTypes DEF CallPoints
  <2> QED BY <1>1, <2>1, <2>3, LogTypes DEF TypeOK
<1>3. CASE Intend \/ RestoreCommitted
  <2>1. at \in Path /\ Step("restore", at)
    BY <1>1, <1>3, AtPath DEF Intend, RestoreCommitted, Converging
  <2>2. DiskOK'
    <3>1. CASE Still
      BY <1>1, <3>1 DEF Still, store, DiskOK
    <3>2. CASE Log(RollbackIntent(at))
      BY <1>1, <2>1, <3>2, RecordTypes, LogTypes
    <3> QED BY <1>3, <3>1, <3>2 DEF Intend, RestoreCommitted
  <2>3. CallOK' /\ EnvOK'
    BY <1>1, <2>1, StepTypes DEF PathPoints
  <2> QED BY <2>2, <2>3 DEF TypeOK
<1>4. CASE Complete
  <2>1. at \in Path /\ at - 1 \in 0..N
    BY <1>1, <1>4, AtPath DEF Complete, PathPoints
  <2>2. DiskOK'
    BY <1>1, <1>4, <2>1, RecordTypes, LogTypes DEF Complete
  <2>3. CallOK' /\ EnvOK'
    BY <1>1, <1>4, <2>1, StepTypes DEF Complete
  <2> QED BY <2>2, <2>3 DEF TypeOK
<1> QED BY <1>2, <1>3, <1>4

LEMMA FileTypes ==
  ASSUME TypeOK, CreateJournal \/ DropReceipt \/ DropJournal PROVE TypeOK'
<1>1. DiskOK /\ CallOK /\ EnvOK
  BY DEF TypeOK
<1>2. <<>> \in Seq(Record)
  OBVIOUS
<1>3. DiskOK'
  BY <1>1, <1>2 DEF CreateJournal, DropReceipt, DropJournal, DiskOK, store
<1>4. \/ \E l \in CallPoints : Step(l, 0)
      \/ \E r \in Reports : Leave(r)
  BY DEF CreateJournal, DropReceipt, DropJournal, CallPoints, Reports
<1>5. CallOK' /\ EnvOK'
  BY <1>1, <1>4, StepTypes, LeaveTypes
<1> QED BY <1>3, <1>5 DEF TypeOK

LEMMA RestoreTypes ==
  ASSUME TypeOK, RemoveCreated \/ ReplaceChanged \/ LinkAbsent \/ Unlink \/ DiscardPath
  PROVE  TypeOK'
<1>1. DiskOK /\ CallOK /\ EnvOK
  BY DEF TypeOK
<1>2. at \in Path
  BY <1>1, AtPath
     DEF RemoveCreated, ReplaceChanged, LinkAbsent, Unlink, DiscardPath, PathPoints
<1>3. DiskOK'
  <2>1. slot' = slot \/ \E file \in {"none", "bak"} : Becomes(at, file)
    BY DEF RemoveCreated, ReplaceChanged, LinkAbsent, Unlink, DiscardPath, store
  <2>2. kept' = kept \/ Gone(at)
    BY DEF RemoveCreated, ReplaceChanged, LinkAbsent, Unlink, DiscardPath, store
  <2>3. UNCHANGED <<kind, receipt, journal, log>>
    BY DEF RemoveCreated, ReplaceChanged, LinkAbsent, Unlink, DiscardPath, store
  <2>4. slot' \in [Path -> {"none", "new", "bak", "ext"}]
    BY <1>1, <1>2, <2>1 DEF Becomes, DiskOK
  <2>5. kept' \in [Path -> {"none", "bak"}]
    BY <1>1, <1>2, <2>2 DEF Gone, DiskOK
  <2> QED BY <1>1, <2>3, <2>4, <2>5 DEF DiskOK
<1>4. \/ \E l \in PathPoints, p \in Path : Step(l, p)
      \/ Step("drop_receipt", 0)
      \/ \E r \in Reports : Leave(r)
  <2>1. CASE RemoveCreated \/ ReplaceChanged \/ LinkAbsent \/ Unlink
    BY <1>2, <2>1 DEF RemoveCreated, ReplaceChanged, LinkAbsent, Unlink, PathPoints, Reports
  <2>2. CASE DiscardPath
    <3>1. at < N => at + 1 \in Path
      BY <1>2
    <3> QED BY <2>2, <3>1 DEF DiscardPath, PathPoints, Reports
  <2> QED BY <2>1, <2>2
<1>5. CallOK' /\ EnvOK'
  BY <1>1, <1>4, StepTypes, LeaveTypes DEF CallPoints
<1> QED BY <1>3, <1>5 DEF TypeOK

LEMMA ForeignTypes == ASSUME TypeOK, NEW p \in Path, Foreign(p) PROVE TypeOK'
<1>1. \E file \in {"ext", "none"} : Becomes(p, file)
  BY DEF Foreign
<1>2. DiskOK'
  BY <1>1 DEF Foreign, Becomes, TypeOK, DiskOK, store
<1>3. CallOK' /\ EnvOK'
  BY DEF Foreign, TypeOK, CallOK, EnvOK, call
<1> QED BY <1>2, <1>3 DEF TypeOK

LEMMA InitTypes == Init => TypeOK
<1> SUFFICES ASSUME Init PROVE TypeOK
  OBVIOUS
<1>1. <<>> \in Seq(Record)
  OBVIOUS
<1>2. DiskOK
  BY <1>1 DEF Init, DiskOK, After
<1>3. CallOK
  BY <1>1 DEF Init, CallOK, CallPoints, Reports
<1>4. EnvOK
  BY DEF Init, EnvOK
<1> QED BY <1>2, <1>3, <1>4 DEF TypeOK

\* What an action is, for the proofs below.
LEMMA Steps ==
  ASSUME [Next]_vars
  PROVE  \/ StillStep
         \/ WriteHeader \/ Intend \/ Complete \/ Finish \/ RestoreCommitted
         \/ CreateJournal \/ DropReceipt \/ DropJournal
         \/ RemoveCreated \/ ReplaceChanged \/ LinkAbsent \/ Unlink \/ DiscardPath
         \/ \E p \in Path : Foreign(p)
         \/ UNCHANGED vars
  BY DEF Next, Running, StillStep, Consumed

\* Every variable keeps its type: no restore, recovery or discard runs off the
\* paths of the receipt.
THEOREM UndoTypeOK == Spec => []TypeOK
<1>1. TypeOK /\ [Next]_vars => TypeOK'
  <2> SUFFICES ASSUME TypeOK, [Next]_vars PROVE TypeOK'
    OBVIOUS
  <2>1. CASE UNCHANGED vars
    BY <2>1 DEF vars, store, call, env, TypeOK, DiskOK, CallOK, EnvOK
  <2> QED BY <2>1, Steps, StillTypes, LogStepTypes, FileTypes, RestoreTypes, ForeignTypes
<1> QED BY <1>1, InitTypes, PTL DEF Spec

-----------------------------------------------------------------------------
(* What a step does to targets and backups needs no history: every look    *)
(* is part of the step that relies on it.                                  *)

LEMMA DiskSteps ==
  ASSUME [Next]_vars
  PROVE  \/ UNCHANGED <<slot, kept>>
         \/ RemoveCreated \/ ReplaceChanged \/ LinkAbsent \/ Unlink \/ DiscardPath
         \/ \E p \in Path : Foreign(p)
<1>1. CASE StillStep
  BY <1>1, StillStays DEF Still, store
<1>2. CASE WriteHeader \/ Intend \/ Complete \/ Finish \/ RestoreCommitted
  BY <1>2 DEF WriteHeader, Intend, Complete, Finish, RestoreCommitted, Log, Still, store
<1>3. CASE CreateJournal \/ DropReceipt \/ DropJournal
  BY <1>3 DEF CreateJournal, DropReceipt, DropJournal, store
<1>4. CASE UNCHANGED vars
  BY <1>4 DEF vars, store
<1> QED BY <1>1, <1>2, <1>3, <1>4, Steps

LEMMA RestoreIndex ==
  ASSUME TypeOK, RemoveCreated \/ ReplaceChanged \/ LinkAbsent \/ Unlink \/ DiscardPath
  PROVE  at \in Path
  BY AtPath
     DEF TypeOK, RemoveCreated, ReplaceChanged, LinkAbsent, Unlink, DiscardPath, PathPoints

\* No restore and no recovery removes or replaces what somebody else put in the
\* place of a target.
THEOREM ForeignFilesSurviveUndo == Spec => ForeignPreserved
<1>1. TypeOK /\ [Next]_vars =>
        [\A p \in Path : slot[p] = "ext" /\ foreign' = foreign => slot'[p] = "ext"]_vars
  <2> SUFFICES ASSUME TypeOK, [Next]_vars, NEW p \in Path, slot[p] = "ext", foreign' = foreign
               PROVE  slot'[p] = "ext"
    OBVIOUS
  <2>1. CASE RemoveCreated
    BY <2>1, RestoreIndex DEF RemoveCreated, Becomes, After, TypeOK, DiskOK
  <2>2. CASE ReplaceChanged \/ LinkAbsent
    BY <2>2, RestoreIndex DEF ReplaceChanged, LinkAbsent, Becomes, TypeOK, DiskOK
  <2>3. CASE Unlink \/ DiscardPath
    BY <2>3 DEF Unlink, DiscardPath
  <2>4. ~ \E q \in Path : Foreign(q)
    BY DEF Foreign, TypeOK, EnvOK
  <2> QED BY <2>1, <2>2, <2>3, <2>4, DiskSteps
<1> QED BY <1>1, UndoTypeOK, PTL DEF Spec, ForeignPreserved

\* The old content is never lost: a backup goes only by becoming its target, or
\* because the caller discards the receipt.
THEOREM OldContentSurvives == Spec => BackupBecomesTarget
<1>1. TypeOK /\ [Next]_vars =>
        [\A p \in Path : kept'[p] # kept[p] => slot'[p] = "bak" \/ pc = "discard"]_vars
  <2> SUFFICES ASSUME TypeOK, [Next]_vars, NEW p \in Path, kept'[p] # kept[p]
               PROVE  slot'[p] = "bak" \/ pc = "discard"
    OBVIOUS
  <2>1. CASE RemoveCreated \/ LinkAbsent \/ \E q \in Path : Foreign(q)
    BY <2>1 DEF RemoveCreated, LinkAbsent, Foreign, store
  <2>2. CASE ReplaceChanged
    BY <2>2, RestoreIndex DEF ReplaceChanged, Becomes, Gone, TypeOK, DiskOK
  <2>3. CASE Unlink
    BY <2>3, RestoreIndex DEF Unlink, Linked, Gone, TypeOK, DiskOK
  <2>4. CASE DiscardPath
    BY <2>4 DEF DiscardPath
  <2> QED BY <2>1, <2>2, <2>3, <2>4, DiskSteps
<1> QED BY <1>1, UndoTypeOK, PTL DEF Spec, BackupBecomesTarget

-----------------------------------------------------------------------------
(* The order of journal, receipt and restores.                             *)

\* Where a call may be without a journal, what it has made sure of where it is,
\* and that a recovery works from what the journal still says.
Order ==
  /\ ~journal => log = <<>> /\ pc \in {"down", "create", "discard", "drop_receipt"}
  /\ journal => pc \notin {"create", "discard"}
  /\ pc = "create" => receipt
  /\ pc = "drop_receipt" /\ journal => IsFinished(log)
  /\ pc = "drop_journal" => RollbackIntents(log) = {} \/ ~receipt
  /\ pc = "recover" => parsed = log
  /\ RollbackIntents(parsed) \subseteq RollbackIntents(log)
  /\ pc = "restore" => at \in RollbackIntents(log)

LEMMA EmptySays ==
  /\ RollbackIntents(<<>>) = {} /\ RolledBackPaths(<<>>) = {}
  /\ ~IsFinished(<<>>) /\ ReplayableUndo(<<>>)
  BY DEF RollbackIntents, RolledBackPaths, IsFinished, Has, ReplayableUndo

LEMMA AppendSays ==
  ASSUME NEW j \in Seq(Record), NEW r \in Record
  PROVE  /\ Append(j, r) \in Seq(Record) /\ Append(j, r) # <<>>
         /\ \A s : Has(Append(j, r), s) <=> Has(j, s) \/ s = r
<1>1. /\ DOMAIN Append(j, r) = 1..Len(j) + 1 /\ DOMAIN j = 1..Len(j) /\ Len(j) \in Nat
      /\ Append(j, r)[Len(j) + 1] = r /\ Append(j, r) \in Seq(Record) /\ Append(j, r) # <<>>
      /\ \A k \in DOMAIN j : Append(j, r)[k] = j[k]
  OBVIOUS
<1> QED BY <1>1 DEF Has

LEMMA LogGrows ==
  ASSUME TypeOK, NEW r \in Record, Log(r)
  PROVE  /\ Has(log', r)
         /\ RollbackIntents(log) \subseteq RollbackIntents(log')
  BY AppendSays DEF Log, RollbackIntents, TypeOK, DiskOK

LEMMA StillOrder == ASSUME TypeOK, Order, StillStep PROVE Order'
<1>1. UNCHANGED <<journal, log, receipt>>
  BY StillStays DEF Still, store
<1>2. CASE \E r \in Reports : Leave(r)
  BY <1>1, <1>2, EmptySays DEF Leave, Order
<1>3. CASE Stop
  BY <1>1, <1>3, EmptySays DEF Stop, Order
<1>4. CASE RollbackUndo \/ DiscardUndo
  BY <1>1, <1>2, <1>4 DEF RollbackUndo, DiscardUndo, Step, Order, Reports
<1>5. CASE AllPassed \/ PassRestored \/ RecordRestored \/ Verify \/ ResumeLinked
  BY <1>1, <1>2, <1>5
     DEF AllPassed, PassRestored, RecordRestored, Verify, ResumeLinked, Converging, Step,
         Order, Reports
<1>6. CASE RefuseRestore \/ RefusePath
  BY <1>2, <1>6 DEF RefuseRestore, RefusePath, Reports
<1>7. CASE Recover
  BY <1>1, <1>2, <1>7, EmptySays DEF Recover, Step, Order, Reports
<1>8. CASE RecoverConsumed \/ RecoverFinished \/ RecoverStarted
  BY <1>1, <1>2, <1>8
     DEF RecoverConsumed, RecoverFinished, RecoverStarted, Step, Order, Reports
<1> QED BY <1>3, <1>4, <1>5, <1>6, <1>7, <1>8 DEF StillStep

LEMMA LogOrder ==
  ASSUME TypeOK, Order, WriteHeader \/ Intend \/ Complete \/ Finish \/ RestoreCommitted
  PROVE  Order'
<1>1. /\ journal' = journal /\ receipt' = receipt /\ journal
      /\ parsed' = parsed
  BY DEF WriteHeader, Intend, Complete, Finish, RestoreCommitted, Converging, Log, Still,
         Step, store, Order
<1>2. CASE WriteHeader
  BY <1>1, <1>2, LogGrows, RecordTypes DEF WriteHeader, Step, Order
<1>3. CASE Complete
  <2>1. RolledBack(at) \in Record
    BY <1>3, AtPath, RecordTypes DEF Complete, TypeOK, PathPoints
  <2> QED BY <1>1, <1>3, <2>1, LogGrows DEF Complete, Step, Order
<1>4. CASE Finish
  <2>1. Has(log', FinishedRolledBack)
    BY <1>4, LogGrows, RecordTypes DEF Finish
  <2>2. IsFinished(log')
    BY <2>1 DEF IsFinished, Finished
  <2> QED BY <1>1, <1>4, <2>2, LogGrows, RecordTypes DEF Finish, Step, Order
<1>5. CASE Intend \/ RestoreCommitted
  <2>1. at \in Path /\ RollbackIntent(at) \in Record
    BY <1>5, AtPath, RecordTypes DEF Intend, RestoreCommitted, Converging, TypeOK
  <2>2. Step("restore", at)
    BY <1>5 DEF Intend, RestoreCommitted
  <2>3. CASE Log(RollbackIntent(at))
    <3>1. at \in RollbackIntents(log')
      BY <2>1, <2>3, LogGrows DEF RollbackIntents
    <3> QED BY <1>1, <2>1, <2>2, <2>3, <3>1, LogGrows DEF Step, Order
  <2>4. CASE Still /\ at \in RollbackIntents(parsed)
    BY <1>1, <2>2, <2>4 DEF Still, Step, Order
  <2> QED BY <1>5, <2>3, <2>4 DEF Intend, RestoreCommitted, Announced
<1> QED BY <1>2, <1>3, <1>4, <1>5

LEMMA DiskOrder ==
  ASSUME Order, RemoveCreated \/ ReplaceChanged \/ LinkAbsent \/ Unlink \/ DiscardPath
  PROVE  Order'
<1>1. UNCHANGED <<journal, log, receipt>>
  BY DEF RemoveCreated, ReplaceChanged, LinkAbsent, Unlink, DiscardPath, store
<1>2. CASE \E r \in Reports : Leave(r)
  BY <1>1, <1>2, EmptySays DEF Leave, Order
<1>3. CASE RemoveCreated \/ ReplaceChanged \/ LinkAbsent \/ Unlink
  BY <1>1, <1>2, <1>3
     DEF RemoveCreated, ReplaceChanged, LinkAbsent, Unlink, Step, Order, Reports
<1>4. CASE DiscardPath
  BY <1>1, <1>2, <1>4 DEF DiscardPath, Step, Order, Reports
<1> QED BY <1>3, <1>4

LEMMA OrderHolds == Spec => [](TypeOK /\ Order)
<1>1. Init => Order
  BY EmptySays DEF Init, Order
<1>2. TypeOK /\ Order /\ [Next]_vars => Order'
  <2> SUFFICES ASSUME TypeOK, Order, [Next]_vars PROVE Order'
    OBVIOUS
  <2>1. CASE CreateJournal
    BY <2>1 DEF CreateJournal, Step, Order, store
  <2>2. CASE DropReceipt
    BY <2>2, EmptySays DEF DropReceipt, Step, Leave, Order
  <2>3. CASE DropJournal
    BY <2>3, EmptySays DEF DropJournal, Leave, Order, store
  <2>4. CASE \E p \in Path : Foreign(p)
    BY <2>4 DEF Foreign, Order, store, call
  <2>5. CASE UNCHANGED vars
    BY <2>5 DEF vars, Order, store, call
  <2> QED BY <2>1, <2>2, <2>3, <2>4, <2>5, Steps, StillOrder, LogOrder, DiskOrder
<1> QED BY <1>1, <1>2, UndoTypeOK, PTL DEF Spec

\* A receipt is consumed only behind Finished, and a journal with an intent is
\* removed only behind its receipt: no crash leaves half an undo unannounced.
THEOREM UndoIsSeenThrough == Spec => NeverAbandoned
<1>1. TypeOK /\ Order /\ [Next]_vars =>
        [/\ journal /\ ~journal' => RollbackIntents(log) = {} \/ ~receipt
         /\ journal /\ receipt /\ ~receipt' => IsFinished(log)]_vars
  <2> SUFFICES ASSUME Order, [Next]_vars
               PROVE  /\ journal /\ ~journal' => RollbackIntents(log) = {} \/ ~receipt
                      /\ journal /\ receipt /\ ~receipt' => IsFinished(log)
    OBVIOUS
  <2>1. CASE StillStep
    BY <2>1, StillStays DEF Still, store
  <2>2. CASE WriteHeader \/ Intend \/ Complete \/ Finish \/ RestoreCommitted
    BY <2>2 DEF WriteHeader, Intend, Complete, Finish, RestoreCommitted, Log, Still, store
  <2>3. CASE RemoveCreated \/ ReplaceChanged \/ LinkAbsent \/ Unlink \/ DiscardPath
    BY <2>3 DEF RemoveCreated, ReplaceChanged, LinkAbsent, Unlink, DiscardPath, store
  <2>4. CASE CreateJournal \/ (\E p \in Path : Foreign(p)) \/ UNCHANGED vars
    BY <2>4 DEF CreateJournal, Foreign, vars, store
  <2>5. CASE DropReceipt \/ DropJournal
    BY <2>5 DEF DropReceipt, DropJournal, Order, store
  <2> QED BY <2>1, <2>2, <2>3, <2>4, <2>5, Steps
<1> QED BY <1>1, OrderHolds, PTL DEF Spec, NeverAbandoned

\* A backup returns to its target only behind its durable intent: whoever finds
\* one there knows from the journal that an undo put it there.
THEOREM UndoIntentsComeFirst == Spec => []IntentBeforeRestore
<1>1. Init => IntentBeforeRestore
  BY DEF Init, IntentBeforeRestore, After
<1>2. TypeOK /\ Order /\ IntentBeforeRestore /\ [Next]_vars => IntentBeforeRestore'
  <2> SUFFICES ASSUME TypeOK, Order, IntentBeforeRestore, [Next]_vars, NEW p \in Path,
                      slot'[p] = "bak"
               PROVE  IF journal' THEN p \in RollbackIntents(log') ELSE ~receipt'
    BY DEF IntentBeforeRestore
  <2>1. CASE StillStep \/ UNCHANGED vars
    BY <2>1, StillStays DEF Still, vars, store, IntentBeforeRestore
  <2>2. CASE WriteHeader \/ Intend \/ Complete \/ Finish \/ RestoreCommitted
    <3>1. UNCHANGED <<slot, journal>> /\ journal
      BY <2>2
         DEF WriteHeader, Intend, Complete, Finish, RestoreCommitted, Converging, Log, Still,
             store, Order
    <3>2. CASE Still
      BY <3>1, <3>2 DEF Still, IntentBeforeRestore
    <3>3. CASE \E r \in Record : Log(r)
      BY <3>1, <3>3, LogGrows DEF IntentBeforeRestore
    <3>4. Still \/ \E r \in Record : Log(r)
      BY <2>2, AtPath, RecordTypes
         DEF WriteHeader, Intend, Complete, Finish, RestoreCommitted, Converging, TypeOK,
             PathPoints
    <3> QED BY <3>2, <3>3, <3>4
  <2>3. CASE CreateJournal \/ DropReceipt \/ DropJournal
    BY <2>3 DEF CreateJournal, DropReceipt, DropJournal, Order, IntentBeforeRestore, store
  <2>4. CASE ReplaceChanged \/ LinkAbsent
    <3>1. /\ journal /\ at \in RollbackIntents(log)
          /\ UNCHANGED <<journal, log>> /\ Becomes(at, "bak") /\ at \in Path
      BY <2>4, RestoreIndex DEF ReplaceChanged, LinkAbsent, Order, store
    <3> QED BY <3>1 DEF Becomes, IntentBeforeRestore, TypeOK, DiskOK
  <2>5. CASE RemoveCreated
    BY <2>5, RestoreIndex
       DEF RemoveCreated, Becomes, IntentBeforeRestore, TypeOK, DiskOK, store
  <2>6. CASE Unlink \/ DiscardPath
    BY <2>6 DEF Unlink, DiscardPath, IntentBeforeRestore
  <2>7. ASSUME NEW q \in Path, Foreign(q)
        PROVE  IF journal' THEN p \in RollbackIntents(log') ELSE ~receipt'
    BY <2>7 DEF Foreign, Becomes, IntentBeforeRestore, TypeOK, DiskOK, store
  <2> QED BY <2>1, <2>2, <2>3, <2>4, <2>5, <2>6, <2>7, Steps
<1> QED BY <1>1, <1>2, OrderHolds, PTL DEF Spec
-----------------------------------------------------------------------------
(* The journal stays readable, whatever anybody changes.                   *)

\* What the journal says behind each record an undo writes.
LEMMA RecordSays ==
  ASSUME NEW j \in Seq(Record), NEW p \in Path
  PROVE  /\ RollbackIntents(Append(j, Header)) = RollbackIntents(j)
         /\ RolledBackPaths(Append(j, Header)) = RolledBackPaths(j)
         /\ IsFinished(Append(j, Header)) <=> IsFinished(j)
         /\ RollbackIntents(Append(j, RollbackIntent(p))) = RollbackIntents(j) \cup {p}
         /\ RolledBackPaths(Append(j, RollbackIntent(p))) = RolledBackPaths(j)
         /\ IsFinished(Append(j, RollbackIntent(p))) <=> IsFinished(j)
         /\ RollbackIntents(Append(j, RolledBack(p))) = RollbackIntents(j)
         /\ RolledBackPaths(Append(j, RolledBack(p))) = RolledBackPaths(j) \cup {p}
         /\ IsFinished(Append(j, RolledBack(p))) <=> IsFinished(j)
         /\ RollbackIntents(Append(j, FinishedRolledBack)) = RollbackIntents(j)
         /\ RolledBackPaths(Append(j, FinishedRolledBack)) = RolledBackPaths(j)
<1>1. /\ Header \notin Finished
      /\ \A q \in Path : RollbackIntent(q) \notin Finished /\ RolledBack(q) \notin Finished
  BY DEF Header, RollbackIntent, RolledBack, Finished, FinishedCommitted, FinishedAborted,
         FinishedRolledBack
<1>2. /\ \A q \in Path : /\ RollbackIntent(q) \notin {Header, RolledBack(p), FinishedRolledBack}
                         /\ RolledBack(q) \notin {Header, RollbackIntent(p), FinishedRolledBack}
                         /\ RollbackIntent(q) = RollbackIntent(p) <=> q = p
                         /\ RolledBack(q) = RolledBack(p) <=> q = p
  BY DEF Header, RollbackIntent, RolledBack, FinishedRolledBack
<1>3. /\ Header \in Record /\ FinishedRolledBack \in Record
      /\ RollbackIntent(p) \in Record /\ RolledBack(p) \in Record
  BY RecordTypes
<1>4. /\ \A s : Has(Append(j, Header), s) <=> Has(j, s) \/ s = Header
      /\ \A s : Has(Append(j, FinishedRolledBack), s) <=> Has(j, s) \/ s = FinishedRolledBack
      /\ \A s : Has(Append(j, RollbackIntent(p)), s) <=> Has(j, s) \/ s = RollbackIntent(p)
      /\ \A s : Has(Append(j, RolledBack(p)), s) <=> Has(j, s) \/ s = RolledBack(p)
  BY <1>3, AppendSays
<1>5. /\ RollbackIntents(Append(j, Header)) = RollbackIntents(j)
      /\ RolledBackPaths(Append(j, Header)) = RolledBackPaths(j)
      /\ RollbackIntents(Append(j, FinishedRolledBack)) = RollbackIntents(j)
      /\ RolledBackPaths(Append(j, FinishedRolledBack)) = RolledBackPaths(j)
  BY <1>2, <1>4 DEF RollbackIntents, RolledBackPaths
<1>6. /\ RollbackIntents(Append(j, RollbackIntent(p))) = RollbackIntents(j) \cup {p}
      /\ RolledBackPaths(Append(j, RollbackIntent(p))) = RolledBackPaths(j)
  BY <1>2, <1>4 DEF RollbackIntents, RolledBackPaths
<1>7. /\ RollbackIntents(Append(j, RolledBack(p))) = RollbackIntents(j)
      /\ RolledBackPaths(Append(j, RolledBack(p))) = RolledBackPaths(j) \cup {p}
  BY <1>2, <1>4 DEF RollbackIntents, RolledBackPaths
<1>8. /\ IsFinished(Append(j, Header)) <=> IsFinished(j)
      /\ IsFinished(Append(j, RollbackIntent(p))) <=> IsFinished(j)
      /\ IsFinished(Append(j, RolledBack(p))) <=> IsFinished(j)
  BY <1>1, <1>4 DEF IsFinished
<1> QED BY <1>5, <1>6, <1>7, <1>8

LEMMA ReadFurther ==
  ASSUME NEW j \in Seq(Record), NEW r \in Record, ReplayableUndo(j), MayFollowUndo(j, r)
  PROVE  ReplayableUndo(Append(j, r))
<1> DEFINE jj == Append(j, r)
<1>1. /\ Len(j) \in Nat /\ DOMAIN j = 1..Len(j) /\ DOMAIN jj = 1..Len(j)+1
      /\ jj[Len(j)+1] = r /\ \A k \in 1..Len(j) : jj[k] = j[k]
  OBVIOUS
<1>2. \A k \in 1..Len(j) : SubSeq(jj, 1, k - 1) = SubSeq(j, 1, k - 1)
  OBVIOUS
<1>3. SubSeq(jj, 1, (Len(j) + 1) - 1) = j
  OBVIOUS
<1> HIDE DEF jj
<1>4. \A k \in 1..Len(j) : MayFollowUndo(SubSeq(jj, 1, k - 1), jj[k])
  BY <1>1, <1>2 DEF ReplayableUndo
<1>5. MayFollowUndo(SubSeq(jj, 1, (Len(j) + 1) - 1), jj[Len(j) + 1])
  BY <1>1, <1>3
<1>6. \A k \in 1..Len(j)+1 : k \in 1..Len(j) \/ k = Len(j) + 1
  BY <1>1
<1> QED BY <1>1, <1>4, <1>5, <1>6 DEF ReplayableUndo, jj

\* The call passes the paths from the last downwards: those behind it are
\* recorded, those ahead are as the journal it started from has them.
Writing   == {"path", "restore", "unlink", "verify", "record", "finish"}
Restoring == {"restore", "unlink", "verify", "record"}
Behind(p) == p > at
Ahead(p)  == p < at \/ (p = at /\ pc = "path")

Passed ==
  /\ log # <<>> /\ ~IsFinished(log)
  /\ \A p \in Path : Behind(p) => p \in RolledBackPaths(log)
  /\ \A p \in Path : Ahead(p) =>
       /\ p \in RollbackIntents(log) <=> p \in RollbackIntents(parsed)
       /\ p \in RolledBackPaths(log) <=> p \in RolledBackPaths(parsed)

Progress ==
  /\ RolledBackPaths(log) \subseteq RollbackIntents(log)
  /\ IsFinished(log) => RolledBackPaths(log) = Path
  /\ pc \in {"down", "create", "header"} => parsed = <<>>
  /\ pc = "header" => log = <<>>
  /\ pc = "recover" => log # <<>>
  /\ pc \in Writing => Passed
  /\ pc \in Restoring => at \in RollbackIntents(log) \ RolledBackPaths(log)
  /\ journal /\ ~IsFinished(log) => receipt
  /\ pc \in {"discard", "drop_receipt"} => receipt

Read == TypeOK /\ Order /\ Progress /\ JournalReadable

\* Leaving a call needs nothing, and a step to a point without a path only what
\* Progress says of the point.
LEMMA LeaveProgress ==
  ASSUME Read, UNCHANGED <<log, journal, receipt>>, NEW r, Leave(r)
  PROVE  Progress' /\ JournalReadable'
  BY DEF Read, Leave, Progress, JournalReadable, Writing, Restoring

LEMMA StillProgress == ASSUME Read, StillStep PROVE Progress' /\ JournalReadable'
<1>1. UNCHANGED <<journal, log, receipt>>
  BY StillStays DEF Still, store
<1>2. JournalReadable'
  BY <1>1 DEF Read, JournalReadable
<1>3. CASE \E r \in Reports : Leave(r)
  BY <1>1, <1>3, LeaveProgress
<1>4. CASE Stop
  BY <1>1, <1>2, <1>4 DEF Stop, Read, Progress, Writing, Restoring
<1>5. CASE RollbackUndo \/ DiscardUndo
  BY <1>1, <1>2, <1>3, <1>5
     DEF RollbackUndo, DiscardUndo, Step, Read, Progress, Writing, Restoring, Reports
<1>6. CASE AllPassed
  <2>1. Passed'
    BY <1>1, <1>6 DEF AllPassed, Step, Read, Progress, Passed, Writing, Behind, Ahead
  <2> QED BY <1>1, <1>2, <1>6, <2>1 DEF AllPassed, Step, Read, Progress, Restoring
<1>7. CASE Verify
  <2>1. CASE Step("record", at)
    <3>1. Passed'
      BY <1>1, <1>7, <2>1 DEF Verify, Step, Read, Progress, Passed, Writing, Behind, Ahead
    <3> QED BY <1>1, <1>2, <1>7, <2>1, <3>1
            DEF Verify, Step, Read, Progress, Writing, Restoring
  <2> QED BY <1>3, <1>7, <2>1 DEF Verify, Reports
<1>8. CASE RefuseRestore \/ RefusePath
  BY <1>3, <1>8 DEF RefuseRestore, RefusePath, Reports
<1>9. CASE Recover
  BY <1>1, <1>2, <1>3, <1>9
     DEF Recover, Step, Read, Progress, Writing, Restoring, Reports
<1>10. CASE RecoverConsumed \/ RecoverFinished
  BY <1>1, <1>2, <1>3, <1>10
     DEF RecoverConsumed, RecoverFinished, Step, Read, Progress, Writing, Restoring, Reports
<1>11. CASE RecoverStarted
  <2>1. CASE Step("path", N)
    <3>1. Passed'
      BY <1>1, <1>11, <2>1
         DEF RecoverStarted, Step, Read, Progress, Order, Passed, Behind, Ahead
    <3> QED BY <1>1, <1>2, <1>11, <2>1, <3>1
            DEF RecoverStarted, Step, Read, Progress, Writing, Restoring
  <2>2. CASE Step("drop_journal", 0)
    BY <1>1, <1>2, <1>11, <2>2
       DEF RecoverStarted, Step, Read, Progress, Writing, Restoring
  <2> QED BY <1>11, <2>1, <2>2 DEF RecoverStarted
<1>12. CASE ResumeLinked \/ RecordRestored
  <2>1. at \in Path /\ pc = "path" /\ Passed
    BY <1>12, AtPath DEF ResumeLinked, RecordRestored, Converging, Read, TypeOK, Progress,
                         Writing
  <2>2. at \in RollbackIntents(log) \ RolledBackPaths(log)
    BY <1>12, <2>1 DEF ResumeLinked, RecordRestored, Announced, Recorded, Passed, Ahead
  <2>3. pc' \in {"unlink", "record"} /\ at' = at /\ parsed' = parsed
    BY <1>12 DEF ResumeLinked, RecordRestored, Step
  <2>4. Passed'
    BY <1>1, <2>1, <2>3 DEF Passed, Behind, Ahead
  <2> QED BY <1>1, <1>2, <2>2, <2>3, <2>4 DEF Read, Progress, Writing, Restoring
<1>13. CASE PassRestored
  <2>1. at \in Path /\ pc = "path" /\ Passed
    BY <1>13, AtPath DEF PassRestored, Converging, Read, TypeOK, Progress, Writing
  <2>2. at \in RolledBackPaths(log)
    BY <1>13, <2>1 DEF PassRestored, Recorded, Passed, Ahead
  <2>3. pc' = "path" /\ at' = at - 1 /\ parsed' = parsed
    BY <1>13 DEF PassRestored, Step
  <2>4. Passed'
    BY <1>1, <2>1, <2>2, <2>3 DEF Passed, Behind, Ahead
  <2> QED BY <1>1, <1>2, <2>3, <2>4 DEF Read, Progress, Writing, Restoring
<1> QED BY <1>4, <1>5, <1>6, <1>7, <1>8, <1>9, <1>10, <1>11, <1>12, <1>13 DEF StillStep

LEMMA LogProgress ==
  ASSUME Read, WriteHeader \/ Intend \/ Complete \/ Finish \/ RestoreCommitted
  PROVE  Progress' /\ JournalReadable'
<1>1. /\ UNCHANGED <<journal, receipt, parsed>> /\ journal /\ log \in Seq(Record)
      /\ ReplayableUndo(log) /\ Progress /\ TypeOK
  BY DEF WriteHeader, Intend, Complete, Finish, RestoreCommitted, Converging, Log, Still,
         Step, store, Order, Read, TypeOK, DiskOK, JournalReadable
<1>2. CASE WriteHeader
  <2>1. log = <<>> /\ parsed = <<>> /\ log' = Append(log, Header)
    BY <1>1, <1>2 DEF WriteHeader, Log, Progress
  <2>2. /\ RollbackIntents(log') = {} /\ RolledBackPaths(log') = {} /\ ~IsFinished(log')
        /\ log' # <<>>
    <3>1. 1 \in Path
      OBVIOUS
    <3> QED BY <1>1, <2>1, <3>1, RecordSays, EmptySays, AppendSays, RecordTypes
  <2>3. ReplayableUndo(log')
    BY <1>1, <2>1, ReadFurther, RecordTypes DEF MayFollowUndo
  <2>4. pc' = "path" /\ at' = N
    BY <1>2 DEF WriteHeader, Step
  <2>5. Passed'
    <3>1. RollbackIntents(parsed') = {} /\ RolledBackPaths(parsed') = {}
      BY <1>1, <2>1, EmptySays
    <3>2. \A p \in Path : ~ (p > at')
      BY <2>4
    <3> QED BY <2>2, <3>1, <3>2 DEF Passed, Behind
  <2> QED BY <1>1, <2>1, <2>2, <2>3, <2>4, <2>5, EmptySays
         DEF Progress, Restoring, JournalReadable
<1>3. CASE Intend \/ RestoreCommitted
  <2>1. /\ at \in Path /\ pc = "path" /\ Passed
        /\ pc' = "restore" /\ at' = at
    BY <1>1, <1>3, AtPath
       DEF Intend, RestoreCommitted, Converging, TypeOK, Progress, Writing, Step
  <2>2. at \notin RolledBackPaths(log)
    <3>1. at \notin RolledBackPaths(parsed)
      BY <1>3, EmptySays DEF Intend, RestoreCommitted, Recovering, Recorded
    <3> QED BY <2>1, <3>1 DEF Passed, Ahead
  <2>3. CASE Still /\ Announced
    <3>1. at \in RollbackIntents(log) /\ log' = log
      BY <2>1, <2>3 DEF Announced, Passed, Ahead, Still
    <3>2. Passed'
      BY <1>1, <2>1, <3>1 DEF Passed, Behind, Ahead
    <3> QED BY <1>1, <2>1, <2>2, <3>1, <3>2 DEF Progress, JournalReadable
  <2>4. CASE Log(RollbackIntent(at)) /\ at \notin RollbackIntents(parsed)
    <3>1. at \notin RollbackIntents(log) /\ log' = Append(log, RollbackIntent(at))
      BY <2>1, <2>4 DEF Passed, Ahead, Log
    <3>2. /\ RollbackIntents(log') = RollbackIntents(log) \cup {at}
          /\ RolledBackPaths(log') = RolledBackPaths(log)
          /\ IsFinished(log') <=> IsFinished(log)
          /\ log' # <<>>
      BY <1>1, <2>1, <3>1, RecordSays, AppendSays, RecordTypes
    <3>3. ReplayableUndo(log')
      <4>1. MayFollowUndo(log, RollbackIntent(at))
        BY <2>1, <3>1 DEF MayFollowUndo, Passed
      <4> QED BY <1>1, <2>1, <3>1, <4>1, ReadFurther, RecordTypes
    <3>4. Passed'
      BY <1>1, <2>1, <3>2 DEF Passed, Behind, Ahead
    <3> QED BY <1>1, <2>1, <2>2, <3>2, <3>3, <3>4 DEF Progress, JournalReadable
  <2>5. \/ Still /\ Announced
        \/ Log(RollbackIntent(at)) /\ at \notin RollbackIntents(parsed)
    BY <1>3, EmptySays DEF Intend, RestoreCommitted, Announced, Recovering
  <2> QED BY <2>3, <2>4, <2>5
<1>4. CASE Complete
  <2>1. /\ at \in Path /\ pc = "record" /\ Passed
        /\ pc' = "path" /\ at' = at - 1 /\ log' = Append(log, RolledBack(at))
        /\ at \in RollbackIntents(log) \ RolledBackPaths(log)
    BY <1>1, <1>4, AtPath
       DEF Complete, TypeOK, PathPoints, Progress, Writing, Restoring, Step, Log
  <2>2. /\ RollbackIntents(log') = RollbackIntents(log)
        /\ RolledBackPaths(log') = RolledBackPaths(log) \cup {at}
        /\ IsFinished(log') <=> IsFinished(log)
        /\ log' # <<>>
    BY <1>1, <2>1, RecordSays, AppendSays, RecordTypes
  <2>3. ReplayableUndo(log')
    <3>1. MayFollowUndo(log, RolledBack(at))
      BY <2>1 DEF MayFollowUndo, Passed
    <3> QED BY <1>1, <2>1, <3>1, ReadFurther, RecordTypes
  <2>4. Passed'
    BY <1>1, <2>1, <2>2 DEF Passed, Behind, Ahead
  <2> QED BY <1>1, <2>1, <2>2, <2>3, <2>4 DEF Progress, Restoring, JournalReadable
<1>5. CASE Finish
  <2>1. /\ pc = "finish" /\ at = 0 /\ Passed /\ pc' = "drop_receipt"
        /\ log' = Append(log, FinishedRolledBack)
    BY <1>1, <1>5 DEF Finish, TypeOK, CallOK, PathPoints, Progress, Writing, Step, Log
  <2>2. RolledBackPaths(log) = Path
    BY <2>1 DEF Passed, Behind, RolledBackPaths
  <2>3. /\ RollbackIntents(log') = RollbackIntents(log)
        /\ RolledBackPaths(log') = RolledBackPaths(log)
    BY <1>1, <2>1, RecordSays
  <2>4. ReplayableUndo(log')
    <3>1. MayFollowUndo(log, FinishedRolledBack)
      BY <2>1, <2>2 DEF MayFollowUndo, Passed
    <3> QED BY <1>1, <2>1, <3>1, ReadFurther, RecordTypes
  <2>5. receipt'
    BY <1>1, <2>1 DEF Progress, Passed
  <2> QED BY <1>1, <2>1, <2>2, <2>3, <2>4, <2>5
          DEF Progress, Writing, Restoring, JournalReadable
<1> QED BY <1>2, <1>3, <1>4, <1>5

LEMMA DiskProgress ==
  ASSUME Read, RemoveCreated \/ ReplaceChanged \/ LinkAbsent \/ Unlink \/ DiscardPath
  PROVE  Progress' /\ JournalReadable'
<1>1. UNCHANGED <<journal, log, receipt>> /\ Progress /\ JournalReadable'
  BY DEF RemoveCreated, ReplaceChanged, LinkAbsent, Unlink, DiscardPath, store, Read,
         JournalReadable
<1>2. CASE \E r \in Reports : Leave(r)
  BY <1>1, <1>2, LeaveProgress
<1>3. CASE /\ pc \in {"restore", "unlink"} /\ pc' \in {"unlink", "verify"}
           /\ at' = at /\ parsed' = parsed
  <2>1. Passed /\ pc # "path" /\ pc' # "path"
    BY <1>1, <1>3 DEF Progress, Writing
  <2>2. Passed'
    BY <1>1, <1>3, <2>1 DEF Passed, Behind, Ahead
  <2> QED BY <1>1, <1>3, <2>2 DEF Progress, Restoring
<1>4. CASE DiscardPath
  BY <1>1, <1>2, <1>4 DEF DiscardPath, Step, Progress, Writing, Restoring, Reports
<1>5. CASE RemoveCreated \/ ReplaceChanged \/ LinkAbsent \/ Unlink
  BY <1>2, <1>3, <1>5
     DEF RemoveCreated, ReplaceChanged, LinkAbsent, Unlink, Step, Reports
<1> QED BY <1>4, <1>5

LEMMA FileProgress ==
  ASSUME Read, CreateJournal \/ DropReceipt \/ DropJournal PROVE Progress' /\ JournalReadable'
<1>1. Progress /\ Order /\ JournalReadable /\ TypeOK
  BY DEF Read
<1>2. CASE CreateJournal
  BY <1>1, <1>2 DEF CreateJournal, Step, store, Progress, Order, Writing, Restoring,
                    JournalReadable
<1>3. CASE DropReceipt
  BY <1>1, <1>3, EmptySays
     DEF DropReceipt, Step, Leave, Progress, Order, Writing, Restoring, JournalReadable
<1>4. CASE DropJournal
  BY <1>1, <1>4, EmptySays
     DEF DropJournal, Leave, store, Progress, Writing, Restoring, JournalReadable
<1> QED BY <1>2, <1>3, <1>4

LEMMA ReadHolds == Spec => []Read
<1>1. Init => Progress /\ JournalReadable
  BY EmptySays DEF Init, Progress, Writing, Restoring, JournalReadable
<1>2. Read /\ [Next]_vars => Progress' /\ JournalReadable'
  <2> SUFFICES ASSUME Read, [Next]_vars PROVE Progress' /\ JournalReadable'
    OBVIOUS
  <2>1. CASE UNCHANGED vars \/ \E p \in Path : Foreign(p)
    <3>1. UNCHANGED <<store, journal, log, call>>
      BY <2>1 DEF vars, Foreign
    <3> QED BY <3>1 DEF store, call, Read, Progress, Passed, Behind, Ahead, JournalReadable
  <2> QED BY <2>1, Steps, StillProgress, LogProgress, DiskProgress, FileProgress
<1> QED BY <1>1, <1>2, OrderHolds, PTL DEF Spec, Read

\* Whatever calls wrote the journal of an undo, and wherever they stopped, the next
\* recovery parses it.
THEOREM UndoJournalsAreRead == Spec => []JournalReadable
<1>1. Read => JournalReadable
  BY DEF Read
<1> QED BY <1>1, ReadHolds, PTL

-----------------------------------------------------------------------------
(* All or nothing: as long as nobody else changes a target, each path is   *)
(* where the journal says it is.                                           *)

PathKnown(p) ==
  IF p \in RolledBackPaths(log) THEN AsRestored(p)
  ELSE \/ AsCommitted(p)
       \/ p \in RollbackIntents(log) /\ (AsRestored(p) \/ Linked(p))

Known ==
  /\ journal => \A p \in Path : PathKnown(p)
  /\ ~journal /\ receipt => \A p \in Path : slot[p] = After(p)
  /\ ~journal /\ ~receipt =>
       \/ \A p \in Path : slot[p] = After(p)
       \/ \A p \in Path : AsRestored(p)

\* What the running call has made sure of, where it relies on it.
Looked ==
  /\ pc = "create" => \A p \in Path : AsCommitted(p)
  /\ pc = "restore" => AsCommitted(at)
  /\ pc = "unlink" => Linked(at)
  /\ pc \in {"verify", "record"} => AsRestored(at)

Unrefused     == report \notin {"refused", "corrupt"}
CreatedUnkept == \A p \in Path : kind[p] = "create" => kept[p] = "none"

Evidence == CreatedUnkept /\ (foreign = 0 => Known /\ Looked /\ Unrefused)

\* Committed, half restored and restored are told apart by the target alone.
LEMMA Apart ==
  ASSUME TypeOK, NEW p \in Path
  PROVE  /\ AsCommitted(p) => ~AsRestored(p) /\ ~Linked(p)
         /\ slot[p] = After(p) => ~AsRestored(p) /\ ~Linked(p)
  BY DEF TypeOK, DiskOK, Kinds, AsCommitted, AsRestored, Linked, After, Restored

\* Where a path is depends on its target and its backup alone.
LEMMA SamePath ==
  ASSUME NEW p, kind' = kind, slot'[p] = slot[p], kept'[p] = kept[p]
  PROVE  /\ AsCommitted(p)' <=> AsCommitted(p)
         /\ AsRestored(p)' <=> AsRestored(p)
         /\ Linked(p)' <=> Linked(p)
         /\ After(p)' = After(p)
  BY DEF AsCommitted, AsRestored, Linked, After, Restored

LEMMA SameKnown ==
  ASSUME Known, UNCHANGED <<kind, slot, kept, journal, log, receipt>> PROVE Known'
<1>1. \A p \in Path : /\ AsCommitted(p)' <=> AsCommitted(p)
                      /\ AsRestored(p)' <=> AsRestored(p)
                      /\ Linked(p)' <=> Linked(p)
                      /\ After(p)' = After(p)
  BY SamePath
<1> QED BY <1>1 DEF Known, PathKnown

LEMMA LeaveLooked ==
  ASSUME NEW r, Leave(r), r \notin {"refused", "corrupt"} PROVE Looked' /\ Unrefused'
  BY DEF Leave, Looked, Unrefused

LEMMA StillTargets ==
  ASSUME Read, Evidence, foreign = 0, StillStep PROVE Known' /\ Looked' /\ Unrefused'
<1>1. /\ UNCHANGED <<kind, slot, kept, journal, log, receipt>>
      /\ Known /\ Looked /\ Unrefused /\ TypeOK /\ Order /\ Progress /\ JournalReadable
  BY StillStays DEF Still, store, Evidence, Read
<1>2. Known'
  BY <1>1, SameKnown
<1>3. \A p \in Path : /\ AsCommitted(p)' <=> AsCommitted(p)
                      /\ AsRestored(p)' <=> AsRestored(p)
                      /\ Linked(p)' <=> Linked(p)
  BY <1>1, SamePath
<1>4. CASE Stop
  BY <1>2, <1>4 DEF Stop, Looked, Unrefused
<1>5. CASE RollbackUndo
  <2>1. CASE Leave("conflict")
    BY <1>2, <2>1, LeaveLooked
  <2>2. CASE Step("create", 0) /\ \A p \in Path : AsCommitted(p)
    BY <1>1, <1>2, <1>3, <2>2 DEF Step, Looked, Unrefused
  <2> QED BY <1>5, <2>1, <2>2 DEF RollbackUndo
<1>6. CASE DiscardUndo \/ AllPassed \/ PassRestored \/ RecoverStarted
  BY <1>1, <1>2, <1>6
     DEF DiscardUndo, AllPassed, PassRestored, RecoverStarted, Step, Looked, Unrefused
<1>7. CASE Verify
  <2>1. AsRestored(at) /\ at \in Path
    BY <1>1, <1>7, AtPath DEF Verify, Looked, TypeOK, PathPoints
  <2>2. Step("record", at)
    BY <1>7, <2>1 DEF Verify
  <2> QED BY <1>1, <1>2, <1>3, <2>1, <2>2 DEF Step, Looked, Unrefused
<1>8. CASE RefuseRestore
  BY <1>1, <1>8 DEF RefuseRestore, Looked, AsCommitted
<1>9. CASE RefusePath
  <2>1. at \in Path /\ pc = "path" /\ Recovering /\ Passed /\ journal
    BY <1>1, <1>9, AtPath
       DEF RefusePath, Converging, TypeOK, Progress, Writing, Order
  <2>2. PathKnown(at)
    BY <1>1, <2>1 DEF Known
  <2>3. /\ Announced <=> at \in RollbackIntents(log)
        /\ Recorded <=> at \in RolledBackPaths(log)
    BY <2>1 DEF Announced, Recorded, Passed, Ahead
  <2>4. RolledBackPaths(log) \subseteq RollbackIntents(log)
    BY <1>1 DEF Progress
  <2> QED BY <1>9, <2>1, <2>2, <2>3, <2>4 DEF RefusePath, PathKnown, AsCommitted
<1>10. CASE Recover
  <2>1. CASE Step("drop_journal", 0)
    BY <1>1, <1>2, <2>1 DEF Step, Looked, Unrefused
  <2>2. CASE pc' = "recover" /\ UNCHANGED <<report, env>>
    BY <1>1, <1>2, <2>2 DEF Looked, Unrefused
  <2> QED BY <1>1, <1>10, <2>1, <2>2 DEF Recover, JournalReadable
<1>11. CASE RecoverConsumed
  <2>1. journal /\ parsed = log
    BY <1>1, <1>11 DEF RecoverConsumed, Order
  <2>2. IsFinished(parsed)
    BY <1>1, <1>11, <2>1 DEF RecoverConsumed, Progress
  <2>3. Step("drop_journal", 0)
    BY <1>11, <2>2 DEF RecoverConsumed
  <2> QED BY <1>1, <1>2, <2>3 DEF Step, Looked, Unrefused
<1>12. CASE RecoverFinished
  <2>1. journal /\ IsFinished(log)
    BY <1>1, <1>12 DEF RecoverFinished, Order
  <2>2. \A p \in Path : AsRestored(p)
    BY <1>1, <2>1 DEF Progress, Known, PathKnown
  <2>3. Step("drop_receipt", 0)
    BY <1>12, <2>2 DEF RecoverFinished
  <2> QED BY <1>1, <1>2, <2>3 DEF Step, Looked, Unrefused
<1>13. CASE ResumeLinked \/ RecordRestored
  <2>1. at \in Path
    BY <1>1, <1>13, AtPath DEF ResumeLinked, RecordRestored, Converging, TypeOK
  <2> QED BY <1>1, <1>2, <1>3, <1>13, <2>1
          DEF ResumeLinked, RecordRestored, Step, Looked, Unrefused
<1> QED BY <1>4, <1>5, <1>6, <1>7, <1>8, <1>9, <1>10, <1>11, <1>12, <1>13 DEF StillStep

LEMMA LogTargets ==
  ASSUME Read, Evidence, foreign = 0,
         WriteHeader \/ Intend \/ Complete \/ Finish \/ RestoreCommitted
  PROVE  Known' /\ Looked' /\ Unrefused'
<1>1. /\ UNCHANGED <<kind, slot, kept, journal, receipt, parsed, report>> /\ journal
      /\ Known /\ Looked /\ Unrefused /\ TypeOK /\ Progress /\ log \in Seq(Record)
  BY DEF WriteHeader, Intend, Complete, Finish, RestoreCommitted, Converging, Log, Still,
         Step, store, Order, Read, TypeOK, DiskOK, Evidence
<1>2. \A p \in Path : /\ AsCommitted(p)' <=> AsCommitted(p)
                      /\ AsRestored(p)' <=> AsRestored(p)
                      /\ Linked(p)' <=> Linked(p)
  BY <1>1, SamePath
<1>3. ASSUME RollbackIntents(log) \subseteq RollbackIntents(log'),
             \A p \in RolledBackPaths(log') \ RolledBackPaths(log) : AsRestored(p),
             RolledBackPaths(log) \subseteq RolledBackPaths(log')
      PROVE  Known'
  BY <1>1, <1>2, <1>3 DEF Known, PathKnown
<1>4. CASE WriteHeader \/ Finish
  <2>1. 1 \in Path
    OBVIOUS
  <2>2. /\ RollbackIntents(log') = RollbackIntents(log)
        /\ RolledBackPaths(log') = RolledBackPaths(log)
    BY <1>1, <1>4, <2>1, RecordSays DEF WriteHeader, Finish, Log
  <2>3. Known'
    BY <1>3, <2>2
  <2> QED BY <1>1, <1>4, <2>3 DEF WriteHeader, Finish, Step, Looked, Unrefused
<1>5. CASE Intend \/ RestoreCommitted
  <2>1. at \in Path /\ pc = "path" /\ Passed /\ pc' = "restore" /\ at' = at
    BY <1>1, <1>5, AtPath
       DEF Intend, RestoreCommitted, Converging, TypeOK, Progress, Writing, Step
  <2>2. PathKnown(at)
    BY <1>1, <2>1 DEF Known
  <2>3. AsCommitted(at)
    <3>1. CASE Intend
      <4>1. at \notin RollbackIntents(log) /\ at \notin RolledBackPaths(log)
        BY <2>1, <3>1, EmptySays DEF Intend, Recovering, Passed, Ahead
      <4> QED BY <2>2, <4>1 DEF PathKnown
    <3>2. CASE RestoreCommitted
      BY <1>1, <2>1, <2>2, <3>2, Apart DEF RestoreCommitted, PathKnown
    <3> QED BY <1>5, <3>1, <3>2
  <2>4. /\ RollbackIntents(log) \subseteq RollbackIntents(log')
        /\ RolledBackPaths(log') = RolledBackPaths(log)
    <3>1. log' = log \/ log' = Append(log, RollbackIntent(at))
      BY <1>5 DEF Intend, RestoreCommitted, Log, Still
    <3>2. /\ RollbackIntents(log) \subseteq RollbackIntents(Append(log, RollbackIntent(at)))
          /\ RolledBackPaths(Append(log, RollbackIntent(at))) = RolledBackPaths(log)
      BY <1>1, <2>1, RecordSays
    <3> QED BY <3>1, <3>2
  <2>5. Known'
    BY <1>3, <2>4
  <2> QED BY <1>1, <1>2, <2>1, <2>3, <2>5 DEF Looked, Unrefused
<1>6. CASE Complete
  <2>1. at \in Path /\ AsRestored(at)
    BY <1>1, <1>6, AtPath DEF Complete, Looked, TypeOK, PathPoints
  <2>2. /\ RollbackIntents(log') = RollbackIntents(log)
        /\ RolledBackPaths(log') = RolledBackPaths(log) \cup {at}
    BY <1>1, <1>6, <2>1, RecordSays DEF Complete, Log
  <2>3. Known'
    BY <1>3, <2>1, <2>2
  <2> QED BY <1>1, <1>6, <2>3 DEF Complete, Step, Looked, Unrefused
<1> QED BY <1>4, <1>5, <1>6

LEMMA RestoreTargets ==
  ASSUME Read, Evidence, foreign = 0, RemoveCreated \/ ReplaceChanged \/ LinkAbsent \/ Unlink
  PROVE  CreatedUnkept' /\ Known' /\ Looked' /\ Unrefused'
<1>1. /\ UNCHANGED <<kind, journal, log, receipt>> /\ journal /\ pc \in {"restore", "unlink"}
      /\ Known /\ Looked /\ Unrefused /\ TypeOK /\ at \in Path /\ CreatedUnkept
      /\ at \in RollbackIntents(log) \ RolledBackPaths(log)
  BY RestoreIndex
     DEF RemoveCreated, ReplaceChanged, LinkAbsent, Unlink, store, Order, Read, Evidence,
         Progress, Restoring
<1>2. kind \in [Path -> Kinds] /\ slot[at] \in {"none", "new", "bak", "ext"}
      /\ kept[at] \in {"none", "bak"}
  BY <1>1 DEF TypeOK, DiskOK
\* What restores the path at is all that changes.
<1>3. ASSUME NEW file, NEW link,
             slot' = [slot EXCEPT ![at] = file], kept' = [kept EXCEPT ![at] = link],
             kind[at] = "create" => file = "none" /\ link = "none",
             kind[at] # "create" => file = "bak",
             \/ link = "none" /\ Step("verify", at)
             \/ link = "bak" /\ Step("unlink", at)
      PROVE  CreatedUnkept' /\ Known' /\ Looked' /\ Unrefused'
  <2>1. /\ slot'[at] = file /\ kept'[at] = link /\ at' = at
        /\ \A p \in Path \ {at} : slot'[p] = slot[p] /\ kept'[p] = kept[p]
    BY <1>1, <1>3 DEF TypeOK, DiskOK, Step
  <2>2. /\ link = "none" => AsRestored(at)'
        /\ link = "bak" => Linked(at)'
    BY <1>1, <1>3, <2>1 DEF AsRestored, Restored, Linked
  <2>3. AsRestored(at)' \/ Linked(at)'
    BY <1>3, <2>2
  <2>4. \A p \in Path \ {at} : /\ AsCommitted(p)' <=> AsCommitted(p)
                               /\ AsRestored(p)' <=> AsRestored(p)
                               /\ Linked(p)' <=> Linked(p)
    BY <1>1, <2>1, SamePath
  <2>5. ASSUME NEW p \in Path
        PROVE  PathKnown(p)'
    <3>1. CASE p = at
      <4>1. /\ p \in RollbackIntents(log)' /\ p \notin RolledBackPaths(log)'
            /\ AsRestored(p)' \/ Linked(p)'
        BY <1>1, <2>1, <2>3, <3>1
      <4> QED BY <4>1 DEF PathKnown
    <3>2. CASE p # at
      <4>1. PathKnown(p)
        BY <1>1 DEF Known
      <4> QED BY <1>1, <2>4, <3>2, <4>1 DEF PathKnown
    <3> QED BY <3>1, <3>2
  <2>6. Known'
    BY <1>1, <2>5 DEF Known
  <2>7. CreatedUnkept'
    BY <1>1, <1>3, <2>1 DEF CreatedUnkept
  <2>8. Looked' /\ Unrefused'
    BY <1>1, <1>3, <2>1, <2>2 DEF Looked, Unrefused, Step
  <2> QED BY <2>6, <2>7, <2>8
<1>4. CASE RemoveCreated
  <2>1. slot[at] = After(at) /\ kind[at] = "create" /\ kept[at] = "none"
    BY <1>1, <1>4 DEF RemoveCreated, Looked, AsCommitted, CreatedUnkept
  <2>2. /\ slot' = [slot EXCEPT ![at] = "none"] /\ Step("verify", at)
        /\ kept' = [kept EXCEPT ![at] = "none"]
    BY <1>1, <1>4, <2>1 DEF RemoveCreated, Becomes, store, TypeOK, DiskOK
  <2> QED BY <1>3, <2>1, <2>2
<1>5. CASE ReplaceChanged
  BY <1>3, <1>5 DEF ReplaceChanged, Becomes, Gone
<1>6. CASE LinkAbsent
  <2>1. kept' = [kept EXCEPT ![at] = "bak"]
    BY <1>1, <1>6 DEF LinkAbsent, store, TypeOK, DiskOK
  <2> QED BY <1>3, <1>6, <2>1 DEF LinkAbsent, Becomes
<1>7. CASE Unlink
  <2>1. Linked(at) /\ kind[at] # "create"
    BY <1>1, <1>7 DEF Unlink, Looked, Linked, CreatedUnkept
  <2>2. slot' = [slot EXCEPT ![at] = "bak"]
    BY <1>1, <1>7, <2>1 DEF Unlink, Linked, TypeOK, DiskOK
  <2> QED BY <1>3, <1>7, <2>1, <2>2 DEF Unlink, Gone
<1> QED BY <1>4, <1>5, <1>6, <1>7

LEMMA DiscardTargets ==
  ASSUME Read, Evidence, DiscardPath
  PROVE  CreatedUnkept' /\ (foreign = 0 => Known' /\ Looked' /\ Unrefused')
<1>1. /\ UNCHANGED <<kind, slot, journal, log, receipt>> /\ ~journal /\ receipt
      /\ TypeOK /\ at \in Path /\ CreatedUnkept
      /\ foreign = 0 => Known /\ Unrefused
  BY RestoreIndex DEF DiscardPath, store, Order, Read, Evidence, Progress
<1>2. CreatedUnkept'
  BY <1>1 DEF DiscardPath, Gone, CreatedUnkept, TypeOK, DiskOK
<1>3. ASSUME foreign = 0 PROVE Known'
  BY <1>1, <1>3 DEF Known, After
<1>4. ASSUME foreign = 0 PROVE Looked' /\ Unrefused'
  <2>1. CASE Leave("failed")
    BY <2>1, LeaveLooked
  <2>2. CASE Step("discard", at + 1) \/ Step("drop_receipt", 0)
    BY <1>1, <1>4, <2>2 DEF Step, Looked, Unrefused
  <2> QED BY <2>1, <2>2 DEF DiscardPath
<1> QED BY <1>2, <1>3, <1>4

LEMMA FileTargets ==
  ASSUME Read, Evidence, foreign = 0, CreateJournal \/ DropReceipt \/ DropJournal
  PROVE  Known' /\ Looked' /\ Unrefused'
<1>1. /\ UNCHANGED <<kind, slot, kept>> /\ Known /\ Looked /\ Unrefused
      /\ TypeOK /\ Order /\ Progress
  BY DEF CreateJournal, DropReceipt, DropJournal, store, Evidence, Read
<1>2. \A p \in Path : /\ AsCommitted(p)' <=> AsCommitted(p)
                      /\ AsRestored(p)' <=> AsRestored(p)
                      /\ Linked(p)' <=> Linked(p)
                      /\ After(p)' = After(p)
  BY <1>1, SamePath
<1>3. CASE CreateJournal
  <2>1. /\ log = <<>> /\ journal' /\ UNCHANGED <<log, receipt, report>>
        /\ pc' = "header" /\ \A p \in Path : AsCommitted(p)
    BY <1>1, <1>3 DEF CreateJournal, Step, store, Order, Looked, TypeOK, CallPoints
  <2>2. RolledBackPaths(log') = {}
    BY <2>1, EmptySays
  <2>3. Known'
    BY <1>2, <2>1, <2>2 DEF Known, PathKnown
  <2> QED BY <1>1, <2>1, <2>3 DEF Looked, Unrefused
<1>4. CASE DropReceipt
  <2>1. Looked' /\ Unrefused'
    BY <1>1, <1>4, LeaveLooked DEF DropReceipt, Step, Looked, Unrefused
  <2>2. receipt /\ UNCHANGED <<log, journal>>
    BY <1>1, <1>4 DEF DropReceipt, Progress
  <2>3. CASE journal
    BY <1>1, <1>2, <2>1, <2>2, <2>3 DEF Known, PathKnown
  <2>4. CASE ~journal
    BY <1>1, <1>2, <2>1, <2>2, <2>4 DEF Known
  <2> QED BY <2>1, <2>3, <2>4
<1>5. CASE DropJournal
  <2>1. Looked' /\ Unrefused'
    BY <1>5, LeaveLooked DEF DropJournal
  <2>2. journal /\ ~journal' /\ receipt' = receipt
    BY <1>1, <1>5 DEF DropJournal, Order, store
  <2>3. CASE receipt
    <3>1. RolledBackPaths(log) = {} /\ RollbackIntents(log) = {}
      BY <1>1, <1>5, <2>3 DEF DropJournal, Order, Progress
    <3>2. \A p \in Path : slot[p] = After(p)
      BY <1>1, <2>2, <3>1 DEF Known, PathKnown, AsCommitted
    <3> QED BY <1>1, <1>2, <2>1, <2>2, <2>3, <3>2 DEF Known
  <2>4. CASE ~receipt
    <3>1. RolledBackPaths(log) = Path
      BY <1>1, <2>2, <2>4 DEF Progress
    <3>2. \A p \in Path : AsRestored(p)
      BY <1>1, <2>2, <3>1 DEF Known, PathKnown
    <3> QED BY <1>2, <2>1, <2>2, <2>4, <3>2 DEF Known
  <2> QED BY <2>3, <2>4
<1> QED BY <1>3, <1>4, <1>5

LEMMA ForeignStays ==
  ASSUME \/ StillStep
         \/ WriteHeader \/ Intend \/ Complete \/ Finish \/ RestoreCommitted
         \/ CreateJournal \/ DropReceipt \/ DropJournal
         \/ RemoveCreated \/ ReplaceChanged \/ LinkAbsent \/ Unlink \/ DiscardPath
  PROVE  foreign' = foreign
<1>1. \/ Stop
      \/ \E l, i : Step(l, i)
      \/ \E r : Leave(r)
      \/ UNCHANGED env
  BY DEF StillStep, RollbackUndo, AllPassed, RefuseRestore, Verify, Recover, RecoverConsumed,
         RecoverFinished, RecoverStarted, ResumeLinked, PassRestored, RecordRestored,
         RefusePath, DiscardUndo, WriteHeader, Intend, Complete, Finish, RestoreCommitted,
         CreateJournal, DropReceipt, DropJournal, RemoveCreated, ReplaceChanged, LinkAbsent,
         Unlink, DiscardPath
<1> QED BY <1>1 DEF Stop, Step, Leave, env

LEMMA EvidenceHolds == Spec => [](Read /\ Evidence)
<1>1. Init => Evidence
  <2> SUFFICES ASSUME Init PROVE Evidence
    OBVIOUS
  <2>1. CreatedUnkept
    BY DEF Init, CreatedUnkept
  <2>2. Known /\ Looked /\ Unrefused
    BY DEF Init, Known, Looked, Unrefused
  <2> QED BY <2>1, <2>2 DEF Evidence
<1>2. Read /\ Evidence /\ [Next]_vars => Evidence'
  <2> SUFFICES ASSUME Read, Evidence, [Next]_vars PROVE Evidence'
    OBVIOUS
  <2>1. CASE UNCHANGED vars
    <3>1. UNCHANGED <<kind, slot, kept, journal, log, receipt, pc, at, report, foreign>>
      BY <2>1 DEF vars, store, call, env
    <3>2. \A p : /\ AsCommitted(p)' <=> AsCommitted(p)
                 /\ AsRestored(p)' <=> AsRestored(p)
                 /\ Linked(p)' <=> Linked(p)
      BY <3>1, SamePath
    <3>3. CreatedUnkept'
      BY <3>1 DEF Evidence, CreatedUnkept
    <3>4. ASSUME foreign = 0 PROVE Known' /\ Looked' /\ Unrefused'
      BY <3>1, <3>2, <3>4, SameKnown DEF Evidence, Looked, Unrefused
    <3> QED BY <3>1, <3>3, <3>4 DEF Evidence
  <2>2. CASE \E p \in Path : Foreign(p)
    <3>1. kind' = kind /\ kept' = kept /\ foreign' # 0
      BY <2>2 DEF Foreign, store, Read, TypeOK, EnvOK
    <3> QED BY <3>1 DEF Evidence, CreatedUnkept
  <2>3. CASE \/ StillStep
             \/ WriteHeader \/ Intend \/ Complete \/ Finish \/ RestoreCommitted
             \/ CreateJournal \/ DropReceipt \/ DropJournal
    <3>1. UNCHANGED <<kind, kept>>
      BY <2>3, StillStays
         DEF Still, WriteHeader, Intend, Complete, Finish, RestoreCommitted, Log,
             CreateJournal, DropReceipt, DropJournal, store
    <3>2. CreatedUnkept'
      BY <3>1 DEF Evidence, CreatedUnkept
    <3>3. foreign' = foreign
      BY <2>3, ForeignStays
    <3> QED BY <2>3, <3>2, <3>3, StillTargets, LogTargets, FileTargets DEF Evidence
  <2>4. CASE RemoveCreated \/ ReplaceChanged \/ LinkAbsent \/ Unlink
    <3>1. foreign' = foreign
      BY <2>4, ForeignStays
    <3>2. CreatedUnkept'
      BY <2>4, RestoreIndex
         DEF RemoveCreated, ReplaceChanged, LinkAbsent, Unlink, Gone, store, Evidence,
             CreatedUnkept, Read, TypeOK, DiskOK
    <3> QED BY <2>4, <3>1, <3>2, RestoreTargets DEF Evidence
  <2>5. CASE DiscardPath
    <3>1. foreign' = foreign
      BY <2>5, ForeignStays
    <3> QED BY <2>5, <3>1, DiscardTargets DEF Evidence
  <2> QED BY <2>1, <2>2, <2>3, <2>4, <2>5, Steps
<1> QED BY <1>1, <1>2, ReadHolds, PTL DEF Spec

\* No death and no failed system call leaves a state the next undo or recovery
\* refuses: only a change by somebody else does.
THEOREM UndoIsNeverRefused == Spec => []UndoNeverRefuses
<1>1. Evidence => UndoNeverRefuses
  BY DEF Evidence, Unrefused, UndoNeverRefuses
<1> QED BY <1>1, EvidenceHolds, PTL

-----------------------------------------------------------------------------
(* The refinement.  While a journal is there the abstract undo is open and *)
(* sees only whether Finished is written and whether the receipt is there; *)
(* without one it sees the targets and the backups.                        *)

\* What a discard has removed, and when a call says that there is nothing left.
Discarded ==
  /\ pc = "discard" => \A q \in Path : q < at => kept[q] = "none"
  /\ pc = "drop_receipt" /\ ~journal => \A q \in Path : kept[q] = "none"

Told == {"restored", "discarded"}

Answered == report \in Told => pc = "down" /\ ~journal /\ ~receipt

EInv == Read /\ Evidence /\ Discarded /\ Answered

\* Only two actions say so.
LEMMA Answers ==
  ASSUME [Next]_vars
  PROVE  \/ report' = report \/ report' \notin Told
         \/ DropReceipt /\ ~journal
         \/ DropJournal /\ IsFinished(log)
<1>1. CASE \E l, i : Step(l, i)
  BY <1>1 DEF Step
<1>2. CASE \E r \in Reports \ Told : Leave(r)
  BY <1>2 DEF Leave
<1>3. CASE StillStep
  BY <1>1, <1>2, <1>3
     DEF StillStep, RollbackUndo, AllPassed, RefuseRestore, Verify, Recover, RecoverConsumed,
         RecoverFinished, RecoverStarted, ResumeLinked, PassRestored, RecordRestored,
         RefusePath, DiscardUndo, Stop, Reports, Told
<1>4. CASE WriteHeader \/ Intend \/ Complete \/ Finish \/ RestoreCommitted \/ CreateJournal
  BY <1>1, <1>4 DEF WriteHeader, Intend, Complete, Finish, RestoreCommitted, CreateJournal
<1>5. CASE RemoveCreated \/ ReplaceChanged \/ LinkAbsent \/ Unlink \/ DiscardPath
  BY <1>1, <1>2, <1>5
     DEF RemoveCreated, ReplaceChanged, LinkAbsent, Unlink, DiscardPath, Reports, Told
<1>6. CASE DropReceipt
  BY <1>1, <1>6 DEF DropReceipt
<1>7. CASE DropJournal
  BY <1>7 DEF DropJournal, Leave, Told
<1>8. CASE (\E p \in Path : Foreign(p)) \/ UNCHANGED vars
  BY <1>8 DEF Foreign, vars, call
<1> QED BY <1>3, <1>4, <1>5, <1>6, <1>7, <1>8, Steps

\* A finished undo has spent its receipt when its journal goes, every path and backup.
LEMMA FinishedIsSpent ==
  ASSUME Read, Evidence, pc = "drop_journal"
  PROVE  /\ journal
         /\ IsFinished(log) => ~receipt
         /\ ~IsFinished(log) => receipt
         /\ foreign = 0 /\ IsFinished(log) =>
              \A p \in Path : AsRestored(p) /\ kept[p] = "none"
         /\ foreign = 0 /\ ~IsFinished(log) => \A p \in Path : AsCommitted(p)
<1>1. /\ TypeOK /\ Order /\ Progress /\ CreatedUnkept
      /\ foreign = 0 => Known
  BY DEF Read, Evidence
<1>2. journal /\ (RollbackIntents(log) = {} \/ ~receipt)
  BY <1>1 DEF Order
<1>3. CASE IsFinished(log)
  <2>1. RolledBackPaths(log) = Path /\ RollbackIntents(log) # {}
    BY <1>1, <1>3, JournalAssumption DEF Progress, Path
  <2>2. ASSUME foreign = 0, NEW p \in Path PROVE AsRestored(p) /\ kept[p] = "none"
    <3>1. AsRestored(p)
      BY <1>1, <1>2, <2>1, <2>2 DEF Known, PathKnown
    <3> QED
      BY <1>1, <3>1 DEF AsRestored, Restored, Linked, CreatedUnkept, TypeOK, DiskOK, Kinds
  <2> QED BY <1>2, <1>3, <2>1, <2>2
<1>4. CASE ~IsFinished(log)
  <2>1. receipt /\ RollbackIntents(log) = {} /\ RolledBackPaths(log) = {}
    BY <1>1, <1>2, <1>4 DEF Progress
  <2> QED BY <1>1, <1>2, <1>4, <2>1 DEF Known, PathKnown
<1> QED BY <1>3, <1>4

\* Nothing happens behind such an answer.
LEMMA SilentWhenTold ==
  ASSUME Answered, [Next]_vars, report \in Told
  PROVE  pc = "down" /\ ~journal /\ ~receipt /\ UNCHANGED <<pc, journal, receipt, report>>
<1>1. pc = "down" /\ ~journal /\ ~receipt
  BY DEF Answered
<1> QED
  BY <1>1 DEF Next, Running, Foreign, Consumed, vars, store, call, RollbackUndo, AllPassed,
     RefuseRestore, Verify, Recover, RecoverConsumed, RecoverFinished, RecoverStarted,
     ResumeLinked, PassRestored, RecordRestored, RefusePath, DiscardUndo, Stop, WriteHeader,
     Intend, Complete, Finish, RestoreCommitted, CreateJournal, DropReceipt, DropJournal,
     RemoveCreated, ReplaceChanged, LinkAbsent, Unlink, DiscardPath, Converging

LEMMA AnsweredStays == ASSUME EInv, [Next]_vars PROVE Answered'
<1>1. Read /\ Evidence /\ Answered
  BY DEF EInv
<1>2. CASE report \in Told
  BY <1>1, <1>2, SilentWhenTold DEF Answered
<1>3. CASE DropReceipt /\ ~journal
  BY <1>3 DEF DropReceipt, Step, Leave, Answered
<1>4. CASE DropJournal /\ IsFinished(log)
  BY <1>1, <1>4, FinishedIsSpent DEF DropJournal, Leave, store, Answered
<1> QED BY <1>2, <1>3, <1>4, Answers DEF Answered

LEMMA DiscardedStays == ASSUME EInv, [Next]_vars PROVE Discarded'
<1>1. Read /\ Discarded /\ CreatedUnkept /\ Order /\ TypeOK
  BY DEF EInv, Read, Evidence
<1>2. CASE DiscardPath
  <2>1. at \in Path /\ ~journal /\ ~journal' /\ pc = "discard" /\ kind' = kind
    BY <1>1, <1>2, RestoreIndex DEF DiscardPath, store, Order
  <2>2. kept \in [Path -> {"none", "bak"}]
    BY <1>1 DEF TypeOK, DiskOK
  <2>3. CASE Leave("failed")
    BY <2>3 DEF Leave, Discarded
  <2>4. CASE ~Leave("failed")
    <3>1. (kept' = kept /\ kind[at] = "create") \/ Gone(at)
      BY <1>2, <2>4 DEF DiscardPath
    <3>2. \A q \in Path : q <= at => kept'[q] = "none"
      <4>1. \A q \in Path : kept'[q] = kept[q] \/ kept'[q] = "none"
        BY <2>1, <2>2, <3>1 DEF Gone
      <4>2. kept'[at] = "none"
        BY <1>1, <2>1, <2>2, <3>1 DEF Gone, CreatedUnkept
      <4>3. \A q \in Path : q <= at => q = at \/ q < at
        BY <2>1 DEF Path
      <4> QED BY <1>1, <2>1, <4>1, <4>2, <4>3 DEF Discarded
    <3>3. IF at < N THEN Step("discard", at + 1) ELSE Step("drop_receipt", 0)
      BY <1>2, <2>4 DEF DiscardPath
    <3> QED BY <2>1, <3>2, <3>3, JournalAssumption DEF Step, Discarded, Path
  <2> QED BY <2>3, <2>4
<1>3. CASE DiscardUndo
  BY <1>3 DEF DiscardUndo, Step, Discarded, Path
<1>4. CASE UNCHANGED <<pc, at, kept, journal>>
  BY <1>1, <1>4 DEF Discarded
<1>5. CASE pc' \notin {"discard", "drop_receipt"} \/ (pc' = "drop_receipt" /\ journal')
  BY <1>5 DEF Discarded
<1>6. CASE StillStep
  <2>1. journal' = journal
    BY <1>6, StillStays DEF Still
  <2> QED
    BY <1>1, <1>3, <1>5, <1>6, <2>1
       DEF StillStep, Step, Leave, RollbackUndo, AllPassed, RefuseRestore, Verify, Recover,
           RecoverConsumed, RecoverFinished, RecoverStarted, ResumeLinked, PassRestored,
           RecordRestored, RefusePath, Stop, Order
<1>7. CASE WriteHeader \/ Intend \/ Complete \/ Finish \/ RestoreCommitted
  <2>1. journal /\ journal' = journal /\ pc' # "discard"
    BY <1>1, <1>7
       DEF WriteHeader, Intend, Complete, Finish, RestoreCommitted, Converging, Log, Still, Step,
           Order
  <2> QED BY <1>5, <2>1
<1>8. CASE CreateJournal \/ DropReceipt \/ DropJournal
  BY <1>5, <1>8 DEF CreateJournal, DropReceipt, DropJournal, Step, Leave
<1>9. CASE RemoveCreated \/ ReplaceChanged \/ LinkAbsent \/ Unlink
  BY <1>5, <1>9 DEF RemoveCreated, ReplaceChanged, LinkAbsent, Unlink, Step, Leave
<1>10. CASE (\E p \in Path : Foreign(p)) \/ UNCHANGED vars
  BY <1>4, <1>10 DEF Foreign, vars, store, call
<1> QED BY <1>2, <1>6, <1>7, <1>8, <1>9, <1>10, Steps

LEMMA EInvHolds == Spec => []EInv
<1>1. Init => Discarded /\ Answered
  BY DEF Init, Discarded, Answered, Told
<1>2. EInv /\ [Next]_vars => Discarded' /\ Answered'
  BY AnsweredStays, DiscardedStays
<1> QED BY <1>1, <1>2, EvidenceHolds, PTL DEF Spec, EInv

\* What was said is not taken back, and nothing else is said by another step.
LEMMA AnswerStays ==
  ASSUME EInv, [Next]_vars, ~(DropReceipt /\ ~journal), ~(DropJournal /\ IsFinished(log))
  PROVE  Answer' = Answer
<1>1. CASE report \in Told
  <2>1. report' = report
    BY <1>1, SilentWhenTold DEF EInv
  <2> QED BY <2>1 DEF Answer
<1>2. CASE report \notin Told
  <2>1. report' \notin Told
    BY <1>2, Answers
  <2> QED BY <1>2, <2>1 DEF Answer, Told
<1> QED BY <1>1, <1>2

\* The abstract variables, and what they depend on.
LEMMA SeenOpen ==
  ASSUME journal
  PROVE  /\ Tree = IF IsFinished(log) THEN "restored" ELSE "committed"
         /\ Held = IF receipt THEN "whole" ELSE "spent"
  BY DEF Tree, Held

LEMMA SeenOpenNext ==
  ASSUME journal'
  PROVE  /\ Tree' = IF IsFinished(log') THEN "restored" ELSE "committed"
         /\ Held' = IF receipt' THEN "whole" ELSE "spent"
  BY DEF Tree, Held

LEMMA SeenClosed ==
  ASSUME ~journal, log = <<>>
  PROVE  Tree = IF \A p \in Path : slot[p] = Restored(p) THEN "restored" ELSE "committed"
  BY EmptySays DEF Tree

LEMMA Distinct ==
  ASSUME TypeOK, NEW p \in Path PROVE After(p) # Restored(p)
  BY DEF TypeOK, DiskOK, Kinds, After, Restored

LEMMA LooksCommitted ==
  ASSUME TypeOK, NEW p \in Path, slot[p] = After(p) PROVE Found(p) = "committed"
  BY Apart DEF Found

LEMMA FoundStays ==
  ASSUME UNCHANGED <<kind, slot, kept>> PROVE \A p : Found(p)' = Found(p)
  BY DEF Found, After, AsRestored, Restored, Linked

LEMMA OpenStutters ==
  ASSUME journal, journal', receipt' = receipt, IsFinished(log') <=> IsFinished(log),
         Answer' = Answer, foreign = 0, foreign' = 0
  PROVE  UNCHANGED Exact!vars
<1>1. Tree' = Tree /\ Held' = Held
  BY SeenOpen, SeenOpenNext
<1> QED BY <1>1 DEF Exact!vars

LEMMA SameStutters ==
  ASSUME UNCHANGED <<kind, slot, kept, receipt, journal, log>>, Answer' = Answer,
         foreign = 0, foreign' = 0
  PROVE  UNCHANGED Exact!vars
<1>1. Tree' = Tree /\ Held' = Held
  BY DEF Tree, Held, Restored
<1>2. \A p : Found(p)' = Found(p)
  BY FoundStays
<1> QED BY <1>1, <1>2 DEF Exact!vars

-----------------------------------------------------------------------------
(* The steps that the abstract undo sees.                                  *)

LEMMA Begins ==
  ASSUME EInv, [Next]_vars, CreateJournal, foreign = 0, foreign' = 0 PROVE Exact!Begin
<1>1. /\ TypeOK /\ Order /\ Looked /\ pc = "create" /\ log = <<>> /\ ~journal
      /\ journal' /\ receipt /\ UNCHANGED <<log, receipt>>
  BY DEF EInv, Read, Evidence, CreateJournal, store, Order
<1>2. \A p \in Path : AsCommitted(p)
  BY <1>1 DEF Looked
<1>3. Tree = "committed" /\ Held = "whole"
  <2>1. 1 \in Path
    BY JournalAssumption DEF Path
  <2>2. slot[1] = After(1) /\ After(1) # Restored(1)
    BY <1>1, <1>2, <2>1, Distinct DEF AsCommitted
  <2> QED BY <1>1, <1>2, <2>1, <2>2, SeenClosed DEF Held, AsCommitted
<1>4. Tree' = "committed" /\ Held' = "whole"
  BY <1>1, EmptySays, SeenOpenNext
<1>5. Answer' = Answer
  BY <1>1, AnswerStays DEF DropReceipt, DropJournal
<1> QED BY <1>1, <1>3, <1>4, <1>5 DEF Exact!Begin

LEMMA Decides ==
  ASSUME EInv, [Next]_vars, Finish, foreign = 0, foreign' = 0 PROVE Exact!Decide
<1>1. /\ TypeOK /\ Order /\ Progress /\ pc = "finish" /\ journal /\ journal' = journal
      /\ receipt' = receipt
  BY DEF EInv, Read, Finish, Log, store, Order
<1>2. ~IsFinished(log) /\ receipt
  BY <1>1 DEF Progress, Writing, Passed
<1>3. IsFinished(log')
  BY <1>1, RecordTypes, LogGrows DEF Finish, IsFinished, Finished
<1>4. /\ Tree = "committed" /\ Held = "whole"
      /\ Tree' = "restored" /\ Held' = "whole"
  BY <1>1, <1>2, <1>3, SeenOpen, SeenOpenNext
<1>5. Answer' = Answer
  BY <1>1, AnswerStays DEF DropReceipt, DropJournal
<1> QED BY <1>1, <1>4, <1>5 DEF Exact!Decide

LEMMA Consumes ==
  ASSUME EInv, [Next]_vars, DropReceipt, journal, foreign = 0, foreign' = 0
  PROVE  Exact!Consume
<1>1. /\ Order /\ Progress /\ pc = "drop_receipt" /\ journal'
      /\ log' = log /\ ~receipt'
  BY DEF EInv, Read, DropReceipt
<1>2. IsFinished(log) /\ receipt
  BY <1>1 DEF Order, Progress
<1>3. /\ Tree = "restored" /\ Held = "whole"
      /\ Tree' = "restored" /\ Held' = "spent"
  BY <1>1, <1>2, SeenOpen, SeenOpenNext
<1>4. Answer' = Answer
  BY <1>1, AnswerStays DEF DropReceipt, DropJournal
<1> QED BY <1>1, <1>3, <1>4 DEF Exact!Consume

LEMMA Discards ==
  ASSUME EInv, DropReceipt, ~journal, foreign = 0, foreign' = 0 PROVE Exact!Discard
<1>1. /\ Progress /\ Discarded /\ ~journal' /\ receipt /\ ~receipt'
      /\ UNCHANGED <<kind, slot, kept, journal, log>> /\ report' = "discarded"
  BY DEF EInv, Read, DropReceipt, Leave, Progress
<1>2. \A q \in Path : kept[q] = "none"
  BY <1>1 DEF Discarded, DropReceipt
<1>3. Tree' = Tree /\ Held \in {"whole", "broken"} /\ Held' = "spent"
  BY <1>1, <1>2 DEF Tree, Held, Restored
<1>4. \A p : Found(p)' = Found(p)
  BY <1>1, FoundStays
<1>5. Answer' = "discarded"
  BY <1>1 DEF Answer
<1> QED BY <1>1, <1>3, <1>4, <1>5 DEF Exact!Discard

LEMMA Closes ==
  ASSUME EInv, DropJournal, IsFinished(log), foreign = 0, foreign' = 0 PROVE Exact!Close
<1>1. /\ Read /\ Evidence /\ TypeOK /\ pc = "drop_journal"
      /\ ~journal' /\ log' = <<>> /\ UNCHANGED <<kind, slot, kept, receipt>>
      /\ report' = "restored"
  BY DEF EInv, Read, DropJournal, Leave, store
<1>2. journal /\ ~receipt /\ \A p \in Path : AsRestored(p) /\ kept[p] = "none"
  BY <1>1, FinishedIsSpent
<1>3. Tree = "restored" /\ Held = "spent"
  BY <1>2, SeenOpen
<1>4. Tree' = "restored" /\ Held' = "spent"
  BY <1>1, <1>2 DEF Tree, Held, AsRestored, Restored
<1>5. ASSUME NEW p \in Path PROVE Found(p)' = "restored"
  <2>1. AsRestored(p) /\ slot[p] # After(p)
    BY <1>1, <1>2, Apart
  <2> QED BY <1>1, <2>1 DEF Found, AsRestored, Restored, After, Linked
<1>6. Answer' = "restored"
  BY <1>1 DEF Answer
<1> QED BY <1>1, <1>2, <1>3, <1>4, <1>5, <1>6 DEF Exact!Close

LEMMA Abandons ==
  ASSUME EInv, [Next]_vars, DropJournal, ~IsFinished(log), foreign = 0, foreign' = 0
  PROVE  Exact!Abandon
<1>1. /\ Read /\ Evidence /\ TypeOK /\ pc = "drop_journal"
      /\ ~journal' /\ log' = <<>> /\ UNCHANGED <<kind, slot, kept, receipt>>
  BY DEF EInv, Read, DropJournal, store
<1>2. journal /\ receipt /\ \A p \in Path : AsCommitted(p)
  BY <1>1, FinishedIsSpent
<1>3. Tree = "committed" /\ Held = "whole"
  BY <1>2, SeenOpen
<1>4. Tree' = "committed" /\ Held' = "whole"
  <2>1. 1 \in Path
    BY JournalAssumption DEF Path
  <2>2. slot[1] = After(1) /\ After(1) # Restored(1)
    BY <1>1, <1>2, <2>1, Distinct DEF AsCommitted
  <2> QED BY <1>1, <1>2, <2>1, <2>2, EmptySays DEF Tree, Held, AsCommitted, Restored
<1>5. ASSUME NEW p \in Path PROVE Found(p)' = "committed"
  <2>1. Found(p) = "committed"
    BY <1>1, <1>2, LooksCommitted DEF AsCommitted
  <2> QED BY <1>1, <2>1, FoundStays
<1>6. Answer' = Answer
  BY <1>1, AnswerStays DEF DropReceipt
<1> QED BY <1>1, <1>2, <1>3, <1>4, <1>5, <1>6 DEF Exact!Abandon

LEMMA Breaks ==
  ASSUME EInv, [Next]_vars, DiscardPath, foreign = 0, foreign' = 0
  PROVE  Exact!Break \/ UNCHANGED Exact!vars
<1>1. /\ TypeOK /\ Known /\ Progress /\ pc = "discard" /\ ~journal /\ receipt /\ at \in Path
      /\ UNCHANGED <<kind, slot, receipt, journal, log>>
  BY RestoreIndex DEF EInv, Read, Evidence, DiscardPath, Order, Progress
<1>2. kept \in [Path -> {"none", "bak"}] /\ (kept' = kept \/ Gone(at))
  BY <1>1 DEF TypeOK, DiskOK, DiscardPath
<1>3. \A p \in Path : kept'[p] = "bak" => kept[p] = "bak"
  BY <1>1, <1>2 DEF Gone
<1>4. /\ Held \in {"whole", "broken"} /\ Held' \in {"whole", "broken"}
      /\ Held' = "whole" => Held = "whole"
  BY <1>1, <1>3 DEF Held
<1>5. Tree' = Tree
  BY <1>1 DEF Tree, Restored
<1>6. \A p \in Path : Found(p) = "committed" /\ Found(p)' = "committed"
  <2>1. ASSUME NEW p \in Path
        PROVE  slot[p] = After(p) /\ slot[p] # Restored(p) /\ UNCHANGED <<After(p), Restored(p)>>
    BY <1>1, Distinct DEF Known, After, Restored
  <2> QED BY <1>1, <2>1 DEF Found, AsRestored
<1>7. Answer' = Answer
  BY <1>1, AnswerStays DEF DropReceipt, DropJournal
<1> QED BY <1>1, <1>4, <1>5, <1>6, <1>7 DEF Exact!Break, Exact!vars

LEMMA Unseen ==
  ASSUME EInv, [Next]_vars, foreign = 0, foreign' = 0,
         \/ WriteHeader \/ Intend \/ Complete \/ RestoreCommitted
         \/ RemoveCreated \/ ReplaceChanged \/ LinkAbsent \/ Unlink
  PROVE  UNCHANGED Exact!vars
<1>1. TypeOK /\ Order
  BY DEF EInv, Read
<1>2. journal /\ pc \notin {"drop_receipt", "drop_journal"}
  BY <1>1 DEF Order, WriteHeader, Intend, Complete, RestoreCommitted, Converging, RemoveCreated,
     ReplaceChanged, LinkAbsent, Unlink
<1>3. Answer' = Answer
  BY <1>2, AnswerStays DEF DropReceipt, DropJournal
<1>4. journal' = journal /\ receipt' = receipt
  BY DEF WriteHeader, Intend, Complete, RestoreCommitted, RemoveCreated, ReplaceChanged,
     LinkAbsent, Unlink, Log, Still, store
<1>5. \/ log' = log \/ log' = Append(log, Header)
      \/ \E p \in Path : log' \in {Append(log, RollbackIntent(p)), Append(log, RolledBack(p))}
  BY <1>1, AtPath
     DEF WriteHeader, Intend, Complete, RestoreCommitted, RemoveCreated, ReplaceChanged,
         LinkAbsent, Unlink, Converging, Log, Still, TypeOK, PathPoints
<1>6. IsFinished(log') <=> IsFinished(log)
  <2>1. 1 \in Path /\ log \in Seq(Record)
    BY <1>1, JournalAssumption DEF Path, TypeOK, DiskOK
  <2>2. IsFinished(Append(log, Header)) <=> IsFinished(log)
    BY <2>1, RecordSays
  <2>3. CASE log' = log \/ log' = Append(log, Header)
    BY <2>2, <2>3
  <2>4. CASE \E p \in Path : log' \in {Append(log, RollbackIntent(p)), Append(log, RolledBack(p))}
    <3>1. PICK p \in Path : log' \in {Append(log, RollbackIntent(p)), Append(log, RolledBack(p))}
      BY <2>4
    <3>2. CASE log' = Append(log, RollbackIntent(p))
      BY <2>1, <3>2, RecordSays
    <3>3. CASE log' = Append(log, RolledBack(p))
      BY <2>1, <3>3, RecordSays
    <3> QED BY <3>1, <3>2, <3>3
  <2> QED BY <1>5, <2>3, <2>4
<1> QED BY <1>2, <1>3, <1>4, <1>6, OpenStutters

\* Only Foreign counts, and what a removal removes was there.
LEMMA ForeignCounts ==
  ASSUME TypeOK, [Next]_vars
  PROVE  /\ foreign' # 0 => foreign' > 0
         /\ foreign' = 0 => foreign = 0 /\ ~\E p \in Path : Foreign(p)
<1>1. foreign \in Nat
  BY UndoAssumption DEF TypeOK, EnvOK
<1>2. CASE \E p \in Path : Foreign(p)
  BY <1>1, <1>2 DEF Foreign
<1>3. CASE ~\E p \in Path : Foreign(p)
  <2>1. foreign' = foreign
    BY <1>3, Steps, ForeignStays DEF vars, env
  <2> QED BY <1>1, <1>3, <2>1
<1> QED BY <1>2, <1>3

LEMMA DropChanges ==
  ASSUME Read, DropReceipt \/ DropJournal
  PROVE  receipt' # receipt \/ journal' # journal
<1>1. CASE DropReceipt
  BY <1>1 DEF DropReceipt, Read, Progress
<1>2. CASE DropJournal
  BY <1>2 DEF DropJournal, Read, Order
<1> QED BY <1>1, <1>2

LEMMA ExactStep ==
  ASSUME EInv, [Next]_vars PROVE [Exact!Next]_(Exact!vars)
<1>1. CASE foreign' # 0
  <2>1. (foreign > 0)' = TRUE
    BY <1>1, ForeignCounts DEF EInv, Read
  <2> QED BY <2>1 DEF Exact!Next, Exact!Disturb
<1>2. CASE foreign' = 0
  <2>1. foreign = 0 /\ ~\E p \in Path : Foreign(p)
    BY <1>2, ForeignCounts DEF EInv, Read
  <2>2. CASE StillStep \/ UNCHANGED vars
    <3>1. UNCHANGED <<kind, slot, kept, receipt, journal, log>>
      BY <2>2, StillStays DEF Still, store, vars
    <3>2. Answer' = Answer
      BY <3>1, AnswerStays, DropChanges DEF EInv, Read
    <3> QED BY <1>2, <2>1, <3>1, <3>2, SameStutters
  <2>3. CASE WriteHeader \/ Intend \/ Complete \/ RestoreCommitted
             \/ RemoveCreated \/ ReplaceChanged \/ LinkAbsent \/ Unlink
    BY <1>2, <2>1, <2>3, Unseen
  <2>4. CASE DropReceipt
    BY <1>2, <2>1, <2>4, Consumes, Discards DEF Exact!Next
  <2>5. CASE DropJournal
    BY <1>2, <2>1, <2>5, Closes, Abandons DEF Exact!Next
  <2>6. CASE CreateJournal \/ Finish \/ DiscardPath
    BY <1>2, <2>1, <2>6, Begins, Decides, Breaks DEF Exact!Next
  <2> QED BY <2>1, <2>2, <2>3, <2>4, <2>5, <2>6, Steps
<1> QED BY <1>1, <1>2

(***************************************************************************)
(* However often it is interrupted, repeated and recovered: an undo is     *)
(* decided once, by its record Finished, restores every path and spends    *)
(* the receipt with every backup, or changes nothing and leaves them all;  *)
(* none begins from a receipt a discard has begun to take apart.           *)
(***************************************************************************)
THEOREM UndoIsExact == Spec => ImplementsExactUndo
<1>1. Init => Exact!Init
  <2> SUFFICES ASSUME Init PROVE Exact!Init
    OBVIOUS
  <2>1. /\ log = <<>> /\ ~journal /\ receipt /\ foreign = 0 /\ report = "none"
        /\ \A p \in Path : kind[p] \in Kinds /\ slot[p] = After(p)
        /\ \A p \in Path : kept[p] = IF kind[p] = "create" THEN "none" ELSE "bak"
    BY DEF Init
  <2>2. 1 \in Path
    BY JournalAssumption DEF Path
  <2>3. After(1) # Restored(1)
    BY <2>1, <2>2 DEF Kinds, After, Restored
  <2>4. Tree = "committed" /\ Held = "whole" /\ Answer = "unsure"
    BY <2>1, <2>2, <2>3, EmptySays DEF Tree, Held, Answer
  <2>5. \A p \in Path : Found(p) = "committed"
    BY <2>1 DEF Found, AsRestored, After, Restored, Kinds
  <2> QED BY <2>1, <2>4, <2>5 DEF Exact!Init
<1>2. EInv /\ [Next]_vars => [Exact!Next]_(Exact!vars)
  BY ExactStep
<1> QED
  BY <1>1, <1>2, EInvHolds, PTL DEF Spec, Exact!Spec, ImplementsExactUndo
=============================================================================
