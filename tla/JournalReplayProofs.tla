-------------------------- MODULE JournalReplayProofs --------------------------
(***************************************************************************)
(* The strict parser accepts exactly the grammar, reports what the records *)
(* say and leaves a rollback that can go on, for plans of any size and     *)
(* journals of any length.                                                 *)
(***************************************************************************)
EXTENDS JournalReplay, FiniteSetTheorems, TLAPS

USE JournalAssumption, ReplayAssumption DEF Path, NoPath

-----------------------------------------------------------------------------
(* The inductive invariant.                                                *)

\* How far the preamble has come is what the phase and the counters say.
Preamble ==
  /\ phase = "Start" => operation_count = 0 /\ path_count = 0 /\ staged_count = 0
                        /\ prepared = FALSE /\ Len(read) = 0
  /\ phase = "Operations" => path_count = 0 /\ staged_count = 0 /\ prepared = FALSE
                             /\ Len(read) = operation_count + 1
  /\ phase = "Paths" => operation_count = Ops /\ path_count > 0 /\ staged_count = 0
                        /\ prepared = FALSE /\ Len(read) = Ops + path_count + 1
  /\ phase = "Staged" => operation_count = Ops /\ path_count = N /\ staged_count > 0
                         /\ prepared = FALSE /\ Len(read) = Ops + N + staged_count + 1
  /\ phase \in {"Prepared", "Commit", "Rollback"} => prepared = TRUE
  /\ prepared = TRUE => operation_count = Ops /\ path_count = N /\ staged_count = N
                        /\ Len(read) >= PreambleLength

\* The registers hold the latest intents, and only the latest may be open.
Latest ==
  /\ IF commit_intents = {} THEN last_commit_intent = NoPath
     ELSE last_commit_intent \in commit_intents
          /\ \A q \in commit_intents : q <= last_commit_intent
  /\ IF rollback_intents = {} THEN last_rollback_intent = NoPath
     ELSE last_rollback_intent \in rollback_intents
          /\ \A q \in rollback_intents : last_rollback_intent <= q
  /\ committed \subseteq commit_intents /\ commit_intents \ committed \subseteq {last_commit_intent}
  /\ rolled_back \subseteq rollback_intents
  /\ rollback_intents \ rolled_back \subseteq {last_rollback_intent}
  /\ rollback_intents \subseteq commit_intents

Directed ==
  /\ phase \in {"Start", "Operations", "Paths", "Staged", "Prepared"} => commit_intents = {}
  /\ phase = "Commit" => commit_intents # {} /\ rollback_intents = {}
  /\ phase = "Rollback" => rollback_intents # {}

\* The state of the parser is what the records say.
Said ==
  /\ prepared = TRUE <=> Has(read, Prepared)
  /\ commit_intents = CommitIntents(read) /\ committed = CommittedPaths(read)
  /\ rollback_intents = RollbackIntents(read) /\ rolled_back = RolledBackPaths(read)
  /\ StagedPaths(read) = 1..staged_count
  /\ phase = "Finished" <=> IsFinished(read)

Sound == Preamble /\ Latest /\ Directed /\ Said

IInv ==
  /\ TypeOK
  /\ phase # "Corrupt" => Sound /\ Replayable(read)
  /\ phase = "Corrupt" => ~Replayable(read)

-----------------------------------------------------------------------------
(* Records and journals.                                                   *)

\* The records by kind.
LEMMA Kinds ==
  ASSUME NEW r \in Record
  PROVE  \/ r = Header \/ r = Prepared \/ r \in Finished
         \/ \E o \in 1..Ops : r = Operation(o)
         \/ \E p \in Path : \/ r = PathIntent(p) \/ r = PathStaged(p) \/ r = CommitIntent(p)
                            \/ r = Committed(p) \/ r = RollbackIntent(p) \/ r = RolledBack(p)
BY DEF Record

LEMMA Appended ==
  ASSUME NEW j \in Seq(Record), NEW r \in Record
  PROVE  /\ Append(j, r) \in Seq(Record) /\ Len(Append(j, r)) = Len(j) + 1
         /\ \A s : Has(Append(j, r), s) <=> Has(j, s) \/ s = r
<1>1. /\ Append(j, r) \in Seq(Record)
      /\ DOMAIN j = 1..Len(j) /\ DOMAIN Append(j, r) = 1..Len(j)+1
      /\ Append(j, r)[Len(j)+1] = r /\ \A k \in 1..Len(j) : Append(j, r)[k] = j[k]
      /\ Len(j) \in Nat /\ Len(Append(j, r)) = Len(j) + 1
  OBVIOUS
<1> QED
  BY <1>1 DEF Has

LEMMA ReplayedFurther ==
  ASSUME NEW j \in Seq(Record), NEW r \in Record
  PROVE  Replayable(Append(j, r)) <=> Replayable(j) /\ MayFollow(j, r)
<1> DEFINE jj == Append(j, r)
<1>1. /\ Len(j) \in Nat /\ DOMAIN j = 1..Len(j) /\ DOMAIN jj = 1..Len(j)+1
      /\ jj[Len(j)+1] = r /\ \A k \in 1..Len(j) : jj[k] = j[k]
  OBVIOUS
<1>2. \A k \in 1..Len(j) : SubSeq(jj, 1, k - 1) = SubSeq(j, 1, k - 1)
  OBVIOUS
<1>3. SubSeq(jj, 1, (Len(j) + 1) - 1) = j
  OBVIOUS
<1> HIDE DEF jj
<1>4. Replayable(jj) <=>
        /\ \A k \in 1..Len(j) : MayFollow(SubSeq(jj, 1, k - 1), jj[k])
        /\ MayFollow(SubSeq(jj, 1, (Len(j) + 1) - 1), jj[Len(j) + 1])
  BY <1>1 DEF Replayable
<1>5. Replayable(jj) <=>
        /\ \A k \in 1..Len(j) : MayFollow(SubSeq(j, 1, k - 1), j[k])
        /\ MayFollow(j, r)
  BY <1>1, <1>2, <1>3, <1>4
<1> QED
  BY <1>1, <1>5 DEF Replayable, jj

\* The script of the preamble, read backwards.
LEMMA Script ==
  ASSUME NEW k \in 1..PreambleLength
  PROVE  /\ PreambleAt(k) = Header <=> k = 1
         /\ \A o \in 1..Ops : PreambleAt(k) = Operation(o) <=> k = o + 1
         /\ \A p \in Path : PreambleAt(k) = PathIntent(p) <=> k = Ops + p + 1
         /\ \A p \in Path : PreambleAt(k) = PathStaged(p) <=> k = Ops + N + p + 1
         /\ PreambleAt(k) = Prepared <=> k = PreambleLength
         /\ PreambleAt(k) \notin Finished
         /\ \A p \in Path : PreambleAt(k) \notin {CommitIntent(p), Committed(p),
                                                 RollbackIntent(p), RolledBack(p)}
<1> USE DEF Header, Operation, PathIntent, PathStaged, Prepared, CommitIntent, Committed,
            RollbackIntent, RolledBack, Finished, FinishedCommitted, FinishedAborted,
            FinishedRolledBack
<1>1. CASE k = 1
  BY <1>1 DEF PreambleAt, PreambleLength
<1>2. CASE k \in 2..Ops+1
  BY <1>2 DEF PreambleAt, PreambleLength
<1>3. CASE k \in Ops+2..Ops+N+1
  BY <1>3 DEF PreambleAt, PreambleLength
<1>4. CASE k \in Ops+N+2..Ops+2*N+1
  BY <1>4 DEF PreambleAt, PreambleLength
<1>5. CASE k = Ops+2*N+2
  BY <1>5 DEF PreambleAt, PreambleLength
<1> QED
  BY <1>1, <1>2, <1>3, <1>4, <1>5 DEF PreambleLength

\* The preamble goes on by the length of the journal alone.
LEMMA PreparesByLength ==
  ASSUME NEW j \in Seq(Record)
  PROVE  /\ MayPrepare(j, Header) <=> Len(j) = 0
         /\ \A o \in 1..Ops : MayPrepare(j, Operation(o)) <=> Len(j) = o
         /\ \A p \in Path : MayPrepare(j, PathIntent(p)) <=> Len(j) = Ops + p
         /\ \A p \in Path : MayPrepare(j, PathStaged(p)) <=> Len(j) = Ops + N + p
         /\ MayPrepare(j, Prepared) <=> Len(j) = Ops + N + N + 1
<1>1. PICK n \in Nat : n = Len(j)
  OBVIOUS
<1>2. \A r : MayPrepare(j, r) <=> n < Ops + N + N + 2 /\ PreambleAt(n + 1) = r
  BY <1>1 DEF MayPrepare, PreambleLength
<1>3. CASE n < Ops + N + N + 2
  <2>1. n + 1 \in 1..PreambleLength
    BY <1>3 DEF PreambleLength
  <2>2. /\ PreambleAt(n+1) = Header <=> n + 1 = 1
        /\ \A o \in 1..Ops : PreambleAt(n+1) = Operation(o) <=> n + 1 = o + 1
        /\ \A p \in Path : PreambleAt(n+1) = PathIntent(p) <=> n + 1 = Ops + p + 1
        /\ \A p \in Path : PreambleAt(n+1) = PathStaged(p) <=> n + 1 = Ops + N + p + 1
        /\ PreambleAt(n+1) = Prepared <=> n + 1 = Ops + N + N + 2
    BY <2>1, Script DEF PreambleLength
  <2>3. /\ PreambleAt(n+1) = Header <=> n = 0
        /\ \A o \in 1..Ops : PreambleAt(n+1) = Operation(o) <=> n = o
        /\ \A p \in Path : PreambleAt(n+1) = PathIntent(p) <=> n = Ops + p
        /\ \A p \in Path : PreambleAt(n+1) = PathStaged(p) <=> n = Ops + N + p
        /\ PreambleAt(n+1) = Prepared <=> n = Ops + N + N + 1
    BY <2>2
  <2> QED
    BY <1>1, <1>2, <1>3, <2>3
<1>4. CASE ~(n < Ops + N + N + 2)
  BY <1>1, <1>2, <1>4
<1> QED
  BY <1>3, <1>4

\* Which condition of the grammar is whose.
LEMMA Follows ==
  ASSUME NEW j \in Seq(Record)
  PROVE  /\ \A r \in {Header, Prepared} \cup {Operation(o) : o \in 1..Ops}
                       \cup {PathIntent(p) : p \in Path} \cup {PathStaged(p) : p \in Path} :
              MayFollow(j, r) <=> ~IsFinished(j) /\ MayPrepare(j, r)
         /\ \A p \in Path :
              /\ MayFollow(j, CommitIntent(p)) <=> ~IsFinished(j) /\ MayIntend(j, p)
              /\ MayFollow(j, Committed(p)) <=> ~IsFinished(j) /\ MayCommit(j, p)
              /\ MayFollow(j, RollbackIntent(p)) <=> ~IsFinished(j) /\ MayRollback(j, p)
              /\ MayFollow(j, RolledBack(p)) <=> ~IsFinished(j) /\ MayRestore(j, p)
         /\ \A r \in Finished : MayFollow(j, r) <=> ~IsFinished(j) /\ MayFinish(j, r)
<1>1. /\ \A r \in Finished : ~MayPrepare(j, r)
      /\ \A p \in Path : /\ ~MayPrepare(j, CommitIntent(p)) /\ ~MayPrepare(j, Committed(p))
                         /\ ~MayPrepare(j, RollbackIntent(p)) /\ ~MayPrepare(j, RolledBack(p))
  <2>1. Len(j) < PreambleLength => Len(j) + 1 \in 1..PreambleLength
    BY DEF PreambleLength
  <2> QED
    BY <2>1, Script DEF MayPrepare
<1>2. \A r \in {Header, Prepared} \cup {Operation(o) : o \in 1..Ops}
                 \cup {PathIntent(p) : p \in Path} \cup {PathStaged(p) : p \in Path} :
        MayFollow(j, r) <=> ~IsFinished(j) /\ MayPrepare(j, r)
  BY DEF MayFollow, MayFinish, Header, Operation, PathIntent, PathStaged, Prepared,
         CommitIntent, Committed, RollbackIntent, RolledBack, FinishedCommitted,
         FinishedAborted, FinishedRolledBack
<1>3. \A p \in Path :
        /\ MayFollow(j, CommitIntent(p)) <=> ~IsFinished(j) /\ MayIntend(j, p)
        /\ MayFollow(j, Committed(p)) <=> ~IsFinished(j) /\ MayCommit(j, p)
        /\ MayFollow(j, RollbackIntent(p)) <=> ~IsFinished(j) /\ MayRollback(j, p)
        /\ MayFollow(j, RolledBack(p)) <=> ~IsFinished(j) /\ MayRestore(j, p)
  BY <1>1 DEF MayFollow, MayFinish, CommitIntent, Committed, RollbackIntent, RolledBack,
              FinishedCommitted, FinishedAborted, FinishedRolledBack
<1>4. \A r \in Finished : MayFollow(j, r) <=> ~IsFinished(j) /\ MayFinish(j, r)
  BY <1>1 DEF MayFollow, CommitIntent, Committed, RollbackIntent, RolledBack, Finished,
              FinishedCommitted, FinishedAborted, FinishedRolledBack
<1> QED
  BY <1>2, <1>3, <1>4

-----------------------------------------------------------------------------
(* The parser takes what may follow, kind by kind.                         *)

LEMMA PreambleFits ==
  ASSUME TypeOK, Sound, phase # "Corrupt",
         NEW r \in {Header, Prepared} \cup {Operation(o) : o \in 1..Ops}
                     \cup {PathIntent(p) : p \in Path} \cup {PathStaged(p) : p \in Path}
  PROVE  Fits(r) <=> MayFollow(read, r)
<1>1. /\ MayFollow(read, r) <=> phase # "Finished" /\ MayPrepare(read, r)
      /\ Len(read) \in Nat
  BY Follows DEF TypeOK, Sound, Said
<1>2. read \in Seq(Record)
  BY DEF TypeOK
<1>3. phase \in {"Start", "Operations", "Paths", "Staged", "Finished"} \/ prepared = TRUE
  BY DEF TypeOK, Phases, Sound, Preamble
<1>4. CASE r = Header
  <2>1. Fits(r) <=> phase = "Start"
    BY <1>4 DEF Fits, Header
  <2> QED
    BY <1>1, <1>2, <1>3, <1>4, <2>1, PreparesByLength
    DEF TypeOK, Sound, Preamble, PreambleLength
<1>5. CASE \E o \in 1..Ops : r = Operation(o)
  <2>1. PICK o \in 1..Ops : r = Operation(o)
    BY <1>5
  <2>2. Fits(r) <=> phase = "Operations" /\ o = operation_count + 1
    BY <2>1 DEF Fits, Operation, OperationFits
  <2>3. MayPrepare(read, r) <=> Len(read) = o
    BY <1>2, <2>1, PreparesByLength
  <2> QED
    BY <1>1, <1>3, <2>1, <2>2, <2>3 DEF TypeOK, Sound, Preamble, PreambleLength
<1>6. CASE \E p \in Path : r = PathIntent(p)
  <2>1. PICK p \in Path : r = PathIntent(p)
    BY <1>6
  <2>2. Fits(r) <=> /\ phase = "Paths" \/ (phase = "Operations" /\ operation_count = Ops)
                    /\ p = path_count + 1
    BY <2>1 DEF Fits, PathIntent, PathIntentFits
  <2>3. MayPrepare(read, r) <=> Len(read) = Ops + p
    BY <1>2, <2>1, PreparesByLength
  <2> QED
    BY <1>1, <1>3, <2>1, <2>2, <2>3 DEF TypeOK, Sound, Preamble, PreambleLength
<1>7. CASE \E p \in Path : r = PathStaged(p)
  <2>1. PICK p \in Path : r = PathStaged(p)
    BY <1>7
  <2>2. Fits(r) <=> /\ phase = "Staged" \/ (phase = "Paths" /\ path_count = N)
                    /\ staged_count < path_count /\ p = staged_count + 1
    BY <2>1 DEF Fits, PathStaged, PathStagedFits
  <2>3. MayPrepare(read, r) <=> Len(read) = Ops + N + p
    BY <1>2, <2>1, PreparesByLength
  <2>4. Ops \in Nat \ {0} /\ N \in Nat \ {0} /\ p \in 1..N /\ PreambleLength = Ops + N + N + 2
    BY JournalAssumption DEF PreambleLength, Path
  <2>5. Preamble /\ TypeOK
    BY DEF Sound
  <2>6. CASE prepared = TRUE
    <3>1. phase # "Staged" /\ phase # "Paths" /\ phase # "Operations" /\ Len(read) >= PreambleLength
      BY <2>5, <2>6 DEF Preamble
    <3> QED
      BY <3>1, <1>1, <2>2, <2>3, <2>4
  <2>7. CASE prepared # TRUE
    BY <1>1, <1>3, <2>2, <2>3, <2>4, <2>5, <2>7 DEF TypeOK, Preamble
  <2> QED
    BY <2>6, <2>7
<1>8. CASE r = Prepared
  <2>1. Fits(r) <=> PreparedFits
    BY <1>8 DEF Fits, Prepared
  <2>2. MayPrepare(read, r) <=> Len(read) = Ops + N + N + 1
    BY <1>2, <1>8, PreparesByLength
  <2> QED
    BY <1>1, <1>3, <1>8, <2>1, <2>2 DEF PreparedFits, TypeOK, Sound, Preamble, PreambleLength
<1> QED
  BY <1>4, <1>5, <1>6, <1>7, <1>8

LEMMA CommitFits ==
  ASSUME TypeOK, Sound, phase # "Corrupt", NEW p \in Path
  PROVE  /\ Fits(CommitIntent(p)) <=> MayFollow(read, CommitIntent(p))
         /\ Fits(Committed(p)) <=> MayFollow(read, Committed(p))
<1>1. /\ MayFollow(read, CommitIntent(p)) <=> phase # "Finished" /\ MayIntend(read, p)
      /\ MayFollow(read, Committed(p)) <=> phase # "Finished" /\ MayCommit(read, p)
  BY Follows DEF TypeOK, Sound, Said
<1>2. /\ Fits(CommitIntent(p)) <=> CommitIntentFits(CommitIntent(p))
      /\ Fits(Committed(p)) <=> CommittedFits(Committed(p))
      /\ CommitIntent(p).index = p /\ Committed(p).index = p
  BY DEF Fits, CommitIntent, Committed
<1>3. phase \in {"Start", "Operations", "Paths", "Staged", "Prepared", "Commit", "Rollback",
                 "Finished"}
  BY DEF TypeOK, Phases
<1>4. /\ commit_intents \subseteq Path /\ last_commit_intent \in Path \cup {0}
      /\ prepared \in BOOLEAN
  BY DEF TypeOK
<1>5. CommitIntentFits(CommitIntent(p)) <=> phase # "Finished" /\ MayIntend(read, p)
  <2>1. MayIntend(read, p) <=>
          /\ prepared = TRUE /\ rollback_intents = {} /\ commit_intents = committed
          /\ \A q \in commit_intents : q < p
    BY DEF Sound, Said, MayIntend
  <2>2. phase # "Finished" /\ prepared = TRUE /\ rollback_intents = {} =>
          phase \in {"Prepared", "Commit"}
    BY <1>3 DEF Sound, Preamble, Directed
  <2>3. phase \in {"Prepared", "Commit"} =>
          /\ prepared = TRUE /\ path_count = N /\ rollback_intents = {}
          /\ commit_intents \subseteq committed <=>
               (last_commit_intent # 0 => last_commit_intent \in committed)
    BY <1>4 DEF Sound, Preamble, Directed, Latest
  <2>4. (\A q \in commit_intents : q < p) <=>
          p \notin commit_intents /\ (last_commit_intent # 0 => p > last_commit_intent)
    BY <1>4 DEF Sound, Latest
  <2>5. committed \subseteq commit_intents
    BY DEF Sound, Latest
  <2> QED
    BY <1>2, <2>1, <2>2, <2>3, <2>4, <2>5 DEF CommitIntentFits
<1>6. CommittedFits(Committed(p)) <=> phase # "Finished" /\ MayCommit(read, p)
  <2>1. MayCommit(read, p) <=>
          /\ rollback_intents = {} /\ p \in commit_intents \ committed
          /\ \A q \in commit_intents : q <= p
    BY DEF Sound, Said, MayCommit
  <2>2. phase # "Finished" /\ rollback_intents = {} /\ commit_intents # {} => phase = "Commit"
    BY <1>3 DEF Sound, Directed
  <2>3. p \in commit_intents \ committed =>
          last_commit_intent = p /\ \A q \in commit_intents : q <= p
    BY DEF Sound, Latest
  <2> QED
    BY <1>2, <2>1, <2>2, <2>3 DEF CommittedFits, Sound, Directed
<1> QED
  BY <1>1, <1>2, <1>5, <1>6

LEMMA RollbackFits ==
  ASSUME TypeOK, Sound, phase # "Corrupt", NEW p \in Path
  PROVE  /\ Fits(RollbackIntent(p)) <=> MayFollow(read, RollbackIntent(p))
         /\ Fits(RolledBack(p)) <=> MayFollow(read, RolledBack(p))
<1>1. /\ MayFollow(read, RollbackIntent(p)) <=> phase # "Finished" /\ MayRollback(read, p)
      /\ MayFollow(read, RolledBack(p)) <=> phase # "Finished" /\ MayRestore(read, p)
  BY Follows DEF TypeOK, Sound, Said
<1>2. /\ Fits(RollbackIntent(p)) <=> RollbackIntentFits(RollbackIntent(p))
      /\ Fits(RolledBack(p)) <=> RolledBackFits(RolledBack(p))
      /\ RollbackIntent(p).index = p /\ RolledBack(p).index = p
  BY DEF Fits, RollbackIntent, RolledBack
<1>3. phase \in {"Start", "Operations", "Paths", "Staged", "Prepared", "Commit", "Rollback",
                 "Finished"}
  BY DEF TypeOK, Phases
<1>4. /\ rollback_intents \subseteq Path /\ last_rollback_intent \in Path \cup {0}
  BY DEF TypeOK
<1>5. commit_intents # {} /\ phase # "Finished" <=> phase \in {"Commit", "Rollback"}
  BY <1>3 DEF Sound, Directed, Latest
<1>6. RollbackIntentFits(RollbackIntent(p)) <=> phase # "Finished" /\ MayRollback(read, p)
  <2>1. MayRollback(read, p) <=>
          /\ p \in commit_intents /\ rollback_intents = rolled_back
          /\ \A q \in rollback_intents : p < q
    BY DEF Sound, Said, MayRollback
  <2>2. rollback_intents \subseteq rolled_back <=>
          (last_rollback_intent # 0 => last_rollback_intent \in rolled_back)
    BY <1>4 DEF Sound, Latest
  <2>3. (\A q \in rollback_intents : p < q) <=>
          p \notin rollback_intents /\ (last_rollback_intent # 0 => p < last_rollback_intent)
    BY <1>4 DEF Sound, Latest
  <2>4. rolled_back \subseteq rollback_intents
    BY DEF Sound, Latest
  <2> QED
    BY <1>2, <1>5, <2>1, <2>2, <2>3, <2>4 DEF RollbackIntentFits
<1>7. RolledBackFits(RolledBack(p)) <=> phase # "Finished" /\ MayRestore(read, p)
  <2>1. MayRestore(read, p) <=>
          /\ p \in rollback_intents \ rolled_back
          /\ \A q \in rollback_intents : p <= q
    BY DEF Sound, Said, MayRestore
  <2>2. phase # "Finished" /\ rollback_intents # {} <=> phase = "Rollback"
    BY <1>3 DEF Sound, Directed, Latest
  <2>3. p \in rollback_intents \ rolled_back =>
          last_rollback_intent = p /\ \A q \in rollback_intents : p <= q
    BY DEF Sound, Latest
  <2> QED
    BY <1>2, <2>1, <2>2, <2>3 DEF RolledBackFits
<1> QED
  BY <1>1, <1>2, <1>6, <1>7

LEMMA EndFits ==
  ASSUME TypeOK, Sound, phase # "Corrupt", NEW r \in Finished
  PROVE  Fits(r) <=> MayFollow(read, r)
<1>1. MayFollow(read, r) <=> phase # "Finished" /\ MayFinish(read, r)
  BY Follows DEF TypeOK, Sound, Said
<1>2. Fits(r) <=> FinishedFits(r)
  BY DEF Fits, Finished, FinishedCommitted, FinishedAborted, FinishedRolledBack
<1>3. phase # "Finished" => (read # <<>> <=> phase # "Start")
  <2>1. Len(read) \in Nat /\ (read = <<>> <=> Len(read) = 0)
    BY DEF TypeOK
  <2> QED
    BY <2>1 DEF TypeOK, Phases, Sound, Preamble, PreambleLength
<1>4. /\ FinishedCommitted # FinishedAborted /\ FinishedCommitted # FinishedRolledBack
      /\ FinishedAborted # FinishedRolledBack
  BY DEF FinishedCommitted, FinishedAborted, FinishedRolledBack
<1>5. prepared = TRUE => (Cardinality(committed) = path_count <=> committed = Path)
  <2>1. IsFiniteSet(Path) /\ Cardinality(Path) = N
    BY FS_Interval
  <2>2. committed \subseteq Path
    BY DEF TypeOK
  <2>3. Cardinality(committed) = Cardinality(Path) => committed = Path
    BY <2>1, <2>2, FS_Subset
  <2> QED
    BY <2>1, <2>3 DEF Sound, Preamble
<1>6. MayFinish(read, r) <=>
        \/ r = FinishedCommitted /\ prepared = TRUE /\ commit_intents = Path /\ committed = Path
        \/ r = FinishedAborted /\ read # <<>> /\ commit_intents = {}
        \/ r = FinishedRolledBack /\ prepared = TRUE /\ commit_intents # {}
  BY DEF MayFinish, Sound, Said
<1>7. prepared = TRUE /\ phase # "Finished" => phase # "Start"
  BY DEF Sound, Preamble
<1> QED
  BY <1>1, <1>2, <1>3, <1>4, <1>5, <1>6, <1>7 DEF FinishedFits, TypeOK

LEMMA TakesWhatMayFollow ==
  ASSUME TypeOK, Sound, phase # "Corrupt", NEW r \in Record
  PROVE  Fits(r) <=> MayFollow(read, r)
BY Kinds, PreambleFits, CommitFits, RollbackFits, EndFits

-----------------------------------------------------------------------------
(* What it does with a record it takes.                                    *)

LEMMA OneMore ==
  ASSUME TypeOK, NEW r \in Record, read' = Append(read, r)
  PROVE  /\ read' \in Seq(Record) /\ Len(read') = Len(read) + 1 /\ Len(read) \in Nat
         /\ Has(read', Prepared) <=> Has(read, Prepared) \/ r = Prepared
         /\ StagedPaths(read') = StagedPaths(read) \cup {p \in Path : r = PathStaged(p)}
         /\ CommitIntents(read') = CommitIntents(read) \cup {p \in Path : r = CommitIntent(p)}
         /\ CommittedPaths(read') = CommittedPaths(read) \cup {p \in Path : r = Committed(p)}
         /\ RollbackIntents(read') =
              RollbackIntents(read) \cup {p \in Path : r = RollbackIntent(p)}
         /\ RolledBackPaths(read') = RolledBackPaths(read) \cup {p \in Path : r = RolledBack(p)}
         /\ IsFinished(read') <=> IsFinished(read) \/ r \in Finished
<1>1. /\ read' \in Seq(Record) /\ Len(read') = Len(read) + 1 /\ Len(read) \in Nat
      /\ \A s : Has(read', s) <=> Has(read, s) \/ s = r
  BY Appended DEF TypeOK
<1>2. IsFinished(read') <=> IsFinished(read) \/ r \in Finished
  BY <1>1 DEF IsFinished
<1> QED
  BY <1>1, <1>2 DEF StagedPaths, CommitIntents, CommittedPaths, RollbackIntents,
                    RolledBackPaths

\* Neither a commit nor a rollback record, nor the end.
LEMMA ReadPreamble ==
  ASSUME TypeOK, Sound, NEW r \in Record, read' = Append(read, r), Fits(r),
         \/ ReadHeader(r) \/ ReadOperation(r) \/ ReadPathIntent(r) \/ ReadPathStaged(r)
         \/ ReadPrepared(r)
  PROVE  TypeOK' /\ Sound' /\ phase' # "Corrupt"
<1>1. /\ UNCHANGED <<commit_intents, committed, last_commit_intent, rollback_intents,
                     rolled_back, last_rollback_intent>>
      /\ r.type \in {"Header", "Operation", "PathIntent", "PathStaged", "Prepared"}
  BY DEF ReadHeader, ReadOperation, ReadPathIntent, ReadPathStaged, ReadPrepared, commits,
         rollbacks, Header, Prepared
<1>2. /\ r \notin Finished
      /\ \A p \in Path : r \notin {CommitIntent(p), Committed(p), RollbackIntent(p),
                                   RolledBack(p)}
  BY <1>1 DEF CommitIntent, Committed, RollbackIntent, RolledBack, Finished,
              FinishedCommitted, FinishedAborted, FinishedRolledBack
<1>3. /\ phase \in {"Start", "Operations", "Paths", "Staged"}
      /\ phase' \in {"Operations", "Paths", "Staged", "Prepared"}
      /\ operation_count' \in 0..Ops /\ path_count' \in 0..N /\ staged_count' \in 0..N
      /\ prepared' \in BOOLEAN
      /\ Preamble'
  <2>1. Len(read') = Len(read) + 1 /\ Len(read) \in Nat
    BY OneMore
  <2>2. CASE ReadHeader(r)
    <3>1. /\ phase = "Start" /\ phase' = "Operations"
          /\ UNCHANGED <<operation_count, path_count, staged_count, prepared>>
      BY <2>2 DEF ReadHeader, Fits, Header, counts
    <3> QED
      BY <2>1, <3>1 DEF TypeOK, Sound, Preamble
  <2>3. CASE ReadOperation(r)
    <3>1. /\ phase = "Operations" /\ phase' = phase /\ operation_count < Ops
          /\ operation_count' = operation_count + 1
          /\ UNCHANGED <<path_count, staged_count, prepared>>
      BY <2>3 DEF ReadOperation, Fits, OperationFits, TypeOK
    <3> QED
      BY <2>1, <3>1 DEF TypeOK, Sound, Preamble
  <2>4. CASE ReadPathIntent(r)
    <3>1. /\ phase = "Paths" \/ (phase = "Operations" /\ operation_count = Ops)
          /\ phase' = "Paths" /\ path_count < N /\ path_count' = path_count + 1
          /\ UNCHANGED <<operation_count, staged_count, prepared>>
      BY <2>4 DEF ReadPathIntent, Fits, PathIntentFits, TypeOK
    <3> QED
      BY <2>1, <3>1 DEF TypeOK, Sound, Preamble
  <2>5. CASE ReadPathStaged(r)
    <3>1. /\ phase = "Staged" \/ (phase = "Paths" /\ path_count = N)
          /\ phase' = "Staged" /\ staged_count < path_count /\ staged_count' = staged_count + 1
          /\ UNCHANGED <<operation_count, path_count, prepared>>
      BY <2>5 DEF ReadPathStaged, Fits, PathStagedFits
    <3> QED
      BY <2>1, <3>1 DEF TypeOK, Sound, Preamble
  <2>6. CASE ReadPrepared(r)
    <3>1. /\ phase = "Staged" /\ staged_count = N /\ operation_count = Ops /\ path_count = N
          /\ phase' = "Prepared" /\ prepared' = TRUE
          /\ UNCHANGED <<operation_count, path_count, staged_count>>
      BY <2>6 DEF ReadPrepared, Fits, PreparedFits, Prepared
    <3> QED
      BY <2>1, <3>1 DEF TypeOK, Sound, Preamble, PreambleLength
  <2> QED
    BY <2>2, <2>3, <2>4, <2>5, <2>6
<1>4. TypeOK'
  BY <1>1, <1>3, OneMore DEF TypeOK, Phases
<1>5. Latest' /\ Directed'
  BY <1>1, <1>3 DEF Sound, Latest, Directed
<1>6. Said'
  <2>1. /\ commit_intents' = CommitIntents(read') /\ committed' = CommittedPaths(read')
        /\ rollback_intents' = RollbackIntents(read') /\ rolled_back' = RolledBackPaths(read')
    BY <1>1, <1>2, OneMore DEF Sound, Said
  <2>2. phase' # "Finished" /\ ~IsFinished(read')
    BY <1>2, <1>3, OneMore DEF Sound, Said
  <2>3. prepared' = TRUE <=> Has(read', Prepared)
    <3>1. CASE ReadPrepared(r)
      BY <3>1, OneMore DEF ReadPrepared
    <3>2. CASE ~ReadPrepared(r)
      <4>1. UNCHANGED prepared /\ r.type # "Prepared"
        BY <3>2 DEF ReadHeader, ReadOperation, ReadPathIntent, ReadPathStaged, counts, Header
      <4> QED
        BY <4>1, OneMore DEF Prepared, Sound, Said
    <3> QED
      BY <3>1, <3>2
  <2>4. StagedPaths(read') = 1..staged_count'
    <3>1. CASE ReadPathStaged(r)
      <4>1. /\ staged_count' = staged_count + 1 /\ staged_count \in Nat /\ r.type = "PathStaged"
            /\ r.index = staged_count + 1
        BY <3>1 DEF ReadPathStaged, Fits, PathStagedFits, TypeOK
      <4>2. \E p \in Path : r = PathStaged(p)
        BY <4>1, Kinds DEF Header, Prepared, Operation, PathIntent, CommitIntent, Committed,
             RollbackIntent, RolledBack, Finished, FinishedCommitted, FinishedAborted,
             FinishedRolledBack
      <4>3. {p \in Path : r = PathStaged(p)} = {staged_count + 1}
        BY <4>1, <4>2 DEF PathStaged
      <4>4. StagedPaths(read') = (1..staged_count) \cup {staged_count + 1}
        BY <4>3, OneMore DEF Sound, Said
      <4>5. (1..staged_count) \cup {staged_count + 1} = 1..staged_count + 1
        BY <4>1
      <4> QED
        BY <4>1, <4>4, <4>5
    <3>2. CASE ~ReadPathStaged(r)
      <4>1. UNCHANGED staged_count /\ r.type # "PathStaged"
        BY <3>2 DEF ReadHeader, ReadOperation, ReadPathIntent, ReadPrepared, counts, Header,
                    Prepared
      <4>2. {p \in Path : r = PathStaged(p)} = {}
        BY <4>1 DEF PathStaged
      <4> QED
        BY <4>1, <4>2, OneMore DEF Sound, Said
    <3> QED
      BY <3>1, <3>2
  <2> QED
    BY <2>1, <2>2, <2>3, <2>4 DEF Said
<1> QED
  BY <1>3, <1>4, <1>5, <1>6 DEF Sound

\* Behind the preamble nothing of it changes.
LEMMA BehindPreamble ==
  ASSUME TypeOK, Sound, NEW r \in Record, read' = Append(read, r), UNCHANGED counts,
         r.type \in {"CommitIntent", "Committed", "RollbackIntent", "RolledBack",
                     "FinishedCommitted", "FinishedAborted", "FinishedRolledBack"},
         \/ phase' \in {"Commit", "Rollback"} /\ prepared = TRUE
         \/ phase' = "Finished"
  PROVE  /\ Preamble' /\ StagedPaths(read') = 1..staged_count'
         /\ prepared' = TRUE <=> Has(read', Prepared)
         /\ read' \in Seq(Record)
         /\ UNCHANGED <<operation_count, path_count, staged_count, prepared>>
<1>1. UNCHANGED <<operation_count, path_count, staged_count, prepared>>
  BY DEF counts
<1>2. r # Prepared /\ \A p \in Path : r # PathStaged(p)
  BY DEF Prepared, PathStaged
<1>3. Preamble'
  BY <1>1, OneMore DEF TypeOK, Sound, Preamble, PreambleLength
<1> QED
  BY <1>1, <1>2, <1>3, OneMore DEF Sound, Said

LEMMA ReadCommit ==
  ASSUME TypeOK, Sound, NEW r \in Record, read' = Append(read, r), Fits(r),
         ReadCommitIntent(r) \/ ReadCommitted(r)
  PROVE  TypeOK' /\ Sound' /\ phase' # "Corrupt"
<1>1. PICK p \in Path : r = CommitIntent(p) \/ r = Committed(p)
  BY Kinds DEF ReadCommitIntent, ReadCommitted, Header, Prepared, Operation, PathIntent,
       PathStaged, RollbackIntent, RolledBack, Finished, FinishedCommitted, FinishedAborted,
       FinishedRolledBack
<1>2. /\ UNCHANGED <<counts, rollback_intents, rolled_back, last_rollback_intent>>
      /\ phase' = "Commit" /\ phase \in {"Prepared", "Commit"} /\ prepared = TRUE
      /\ rollback_intents = {}
  <2>1. UNCHANGED <<counts, rollback_intents, rolled_back, last_rollback_intent>>
    BY DEF ReadCommitIntent, ReadCommitted, rollbacks
  <2>2. phase' = "Commit" /\ phase \in {"Prepared", "Commit"}
    BY DEF ReadCommitIntent, ReadCommitted, Fits, CommitIntentFits, CommittedFits
  <2> QED
    BY <2>1, <2>2 DEF Sound, Preamble, Directed, Latest
<1>3. /\ Preamble' /\ StagedPaths(read') = 1..staged_count'
      /\ prepared' = TRUE <=> Has(read', Prepared)
      /\ read' \in Seq(Record)
      /\ UNCHANGED <<operation_count, path_count, staged_count, prepared>>
  BY <1>1, <1>2, BehindPreamble DEF CommitIntent, Committed
<1>4. /\ r \notin Finished /\ \A q \in Path : r # RollbackIntent(q) /\ r # RolledBack(q)
  BY <1>1 DEF CommitIntent, Committed, RollbackIntent, RolledBack, Finished,
              FinishedCommitted, FinishedAborted, FinishedRolledBack
<1>5. CASE r = CommitIntent(p)
  <2>1. /\ commit_intents' = commit_intents \cup {p} /\ last_commit_intent' = p
        /\ committed' = committed
        /\ last_commit_intent # 0 => last_commit_intent \in committed /\ p > last_commit_intent
    BY <1>5 DEF ReadCommitIntent, ReadCommitted, CommitIntent, Fits, CommitIntentFits
  <2>2. /\ {q \in Path : r = CommitIntent(q)} = {p} /\ {q \in Path : r = Committed(q)} = {}
    BY <1>5 DEF CommitIntent, Committed
  <2>3. TypeOK'
    BY <1>2, <1>3, <2>1 DEF TypeOK, Phases
  <2>4. Latest' /\ Directed'
    BY <1>2, <2>1 DEF TypeOK, Sound, Latest, Directed
  <2>5. Said'
    BY <1>2, <1>3, <1>4, <2>1, <2>2, OneMore DEF Sound, Said
  <2> QED
    BY <1>2, <1>3, <2>3, <2>4, <2>5 DEF Sound
<1>6. CASE r = Committed(p)
  <2>1. /\ committed' = committed \cup {p} /\ p \in commit_intents
        /\ UNCHANGED <<commit_intents, last_commit_intent>>
    BY <1>6 DEF ReadCommitIntent, ReadCommitted, Committed, Fits, CommittedFits
  <2>2. /\ {q \in Path : r = Committed(q)} = {p} /\ {q \in Path : r = CommitIntent(q)} = {}
    BY <1>6 DEF CommitIntent, Committed
  <2>3. TypeOK'
    BY <1>2, <1>3, <2>1 DEF TypeOK, Phases
  <2>4. Latest' /\ Directed'
    BY <1>2, <2>1 DEF TypeOK, Sound, Latest, Directed
  <2>5. Said'
    BY <1>2, <1>3, <1>4, <2>1, <2>2, OneMore DEF Sound, Said
  <2> QED
    BY <1>2, <1>3, <2>3, <2>4, <2>5 DEF Sound
<1> QED
  BY <1>1, <1>5, <1>6

LEMMA ReadRollback ==
  ASSUME TypeOK, Sound, NEW r \in Record, read' = Append(read, r), Fits(r),
         ReadRollbackIntent(r) \/ ReadRolledBack(r)
  PROVE  TypeOK' /\ Sound' /\ phase' # "Corrupt"
<1>1. PICK p \in Path : r = RollbackIntent(p) \/ r = RolledBack(p)
  BY Kinds DEF ReadRollbackIntent, ReadRolledBack, Header, Prepared, Operation, PathIntent,
       PathStaged, CommitIntent, Committed, Finished, FinishedCommitted, FinishedAborted,
       FinishedRolledBack
<1>2. /\ UNCHANGED <<counts, commit_intents, committed, last_commit_intent>>
      /\ phase' = "Rollback" /\ prepared = TRUE /\ phase \in {"Commit", "Rollback"}
  <2>1. UNCHANGED <<counts, commit_intents, committed, last_commit_intent>>
    BY DEF ReadRollbackIntent, ReadRolledBack, commits
  <2>2. phase' = "Rollback" /\ phase \in {"Commit", "Rollback"}
    BY DEF ReadRollbackIntent, ReadRolledBack, Fits, RollbackIntentFits, RolledBackFits
  <2> QED
    BY <2>1, <2>2 DEF Sound, Preamble
<1>3. /\ Preamble' /\ StagedPaths(read') = 1..staged_count'
      /\ prepared' = TRUE <=> Has(read', Prepared)
      /\ read' \in Seq(Record)
      /\ UNCHANGED <<operation_count, path_count, staged_count, prepared>>
  BY <1>1, <1>2, BehindPreamble DEF RollbackIntent, RolledBack
<1>4. /\ r \notin Finished /\ \A q \in Path : r # CommitIntent(q) /\ r # Committed(q)
  BY <1>1 DEF CommitIntent, Committed, RollbackIntent, RolledBack, Finished,
              FinishedCommitted, FinishedAborted, FinishedRolledBack
<1>5. CASE r = RollbackIntent(p)
  <2>1. /\ rollback_intents' = rollback_intents \cup {p} /\ last_rollback_intent' = p
        /\ rolled_back' = rolled_back /\ p \in commit_intents
        /\ last_rollback_intent # 0 =>
             last_rollback_intent \in rolled_back /\ p < last_rollback_intent
    BY <1>5 DEF ReadRollbackIntent, ReadRolledBack, RollbackIntent, Fits, RollbackIntentFits
  <2>2. /\ {q \in Path : r = RollbackIntent(q)} = {p} /\ {q \in Path : r = RolledBack(q)} = {}
    BY <1>5 DEF RollbackIntent, RolledBack
  <2>3. TypeOK'
    BY <1>2, <1>3, <2>1 DEF TypeOK, Phases
  <2>4. Latest' /\ Directed'
    BY <1>2, <2>1 DEF TypeOK, Sound, Latest, Directed
  <2>5. Said'
    <3>1. phase' # "Finished" /\ ~IsFinished(read')
      BY <1>2, <1>4, OneMore DEF Sound, Said
    <3>2. commit_intents' = CommitIntents(read') /\ committed' = CommittedPaths(read')
      BY <1>2, <1>4, OneMore DEF Sound, Said
    <3>3. /\ rollback_intents' = RollbackIntents(read')
          /\ rolled_back' = RolledBackPaths(read')
      BY <2>1, <2>2, OneMore DEF Sound, Said
    <3> QED
      BY <1>3, <3>1, <3>2, <3>3 DEF Said
  <2> QED
    BY <1>2, <1>3, <2>3, <2>4, <2>5 DEF Sound
<1>6. CASE r = RolledBack(p)
  <2>1. /\ rolled_back' = rolled_back \cup {p} /\ p \in rollback_intents
        /\ UNCHANGED <<rollback_intents, last_rollback_intent>>
    BY <1>6 DEF ReadRollbackIntent, ReadRolledBack, RolledBack, Fits, RolledBackFits
  <2>2. /\ {q \in Path : r = RolledBack(q)} = {p} /\ {q \in Path : r = RollbackIntent(q)} = {}
    BY <1>6 DEF RollbackIntent, RolledBack
  <2>3. TypeOK'
    BY <1>2, <1>3, <2>1 DEF TypeOK, Phases
  <2>4. Latest' /\ Directed'
    BY <1>2, <2>1 DEF TypeOK, Sound, Latest, Directed
  <2>5. Said'
    <3>1. phase' # "Finished" /\ ~IsFinished(read')
      BY <1>2, <1>4, OneMore DEF Sound, Said
    <3>2. commit_intents' = CommitIntents(read') /\ committed' = CommittedPaths(read')
      BY <1>2, <1>4, OneMore DEF Sound, Said
    <3>3. /\ rollback_intents' = RollbackIntents(read')
          /\ rolled_back' = RolledBackPaths(read')
      BY <2>1, <2>2, OneMore DEF Sound, Said
    <3> QED
      BY <1>3, <3>1, <3>2, <3>3 DEF Said
  <2> QED
    BY <1>2, <1>3, <2>3, <2>4, <2>5 DEF Sound
<1> QED
  BY <1>1, <1>5, <1>6

LEMMA ReadEnd ==
  ASSUME TypeOK, Sound, NEW r \in Record, read' = Append(read, r), ReadFinished(r)
  PROVE  TypeOK' /\ Sound' /\ phase' # "Corrupt"
<1>1. /\ r \in Finished /\ phase' = "Finished" /\ UNCHANGED counts
      /\ UNCHANGED <<commit_intents, committed, last_commit_intent, rollback_intents,
                     rolled_back, last_rollback_intent>>
  BY DEF ReadFinished, commits, rollbacks
<1>2. /\ Preamble' /\ StagedPaths(read') = 1..staged_count'
      /\ prepared' = TRUE <=> Has(read', Prepared)
      /\ read' \in Seq(Record)
      /\ UNCHANGED <<operation_count, path_count, staged_count, prepared>>
  BY <1>1, BehindPreamble DEF Finished, FinishedCommitted, FinishedAborted, FinishedRolledBack
<1>3. \A p \in Path : r \notin {CommitIntent(p), Committed(p), RollbackIntent(p), RolledBack(p)}
  BY <1>1 DEF CommitIntent, Committed, RollbackIntent, RolledBack, Finished,
              FinishedCommitted, FinishedAborted, FinishedRolledBack
<1>4. TypeOK'
  BY <1>1, <1>2 DEF TypeOK, Phases
<1>5. Latest' /\ Directed'
  BY <1>1 DEF Sound, Latest, Directed
<1>6. Said'
  BY <1>1, <1>2, <1>3, OneMore DEF Sound, Said
<1> QED
  BY <1>1, <1>2, <1>4, <1>5, <1>6 DEF Sound

-----------------------------------------------------------------------------
(* The theorems.                                                           *)

LEMMA Initially == Init => IInv
<1> SUFFICES ASSUME Init PROVE IInv
  OBVIOUS
<1>1. \A r : ~Has(read, r)
  BY DEF Init, Has
<1>2. TypeOK
  <2>1. read \in Seq(Record) /\ phase \in Phases /\ prepared \in BOOLEAN
    <3>1. read = <<>> /\ <<>> \in Seq(Record)
      BY DEF Init
    <3> QED
      BY <3>1 DEF Init, Phases
  <2>2. operation_count \in 0..Ops /\ path_count \in 0..N /\ staged_count \in 0..N
    BY DEF Init
  <2> QED
    BY <2>1, <2>2 DEF Init, TypeOK
<1>3. Preamble /\ Latest /\ Directed
  BY DEF Init, Preamble, Latest, Directed
<1>4. Said
  BY <1>1 DEF Init, Said, StagedPaths, CommitIntents, CommittedPaths, RollbackIntents,
              RolledBackPaths, IsFinished
<1>5. Replayable(read) /\ phase # "Corrupt"
  BY DEF Init, Replayable
<1> QED
  BY <1>2, <1>3, <1>4, <1>5 DEF IInv, Sound

LEMMA RecordStep == ASSUME IInv, ReadNext PROVE IInv'
<1>1. PICK r \in Record : read' = Append(read, r) /\ Apply(r)
  BY DEF ReadNext
<1>2. phase # "Corrupt" /\ TypeOK /\ Sound /\ Replayable(read) /\ read \in Seq(Record)
  BY DEF ReadNext, IInv, TypeOK
<1>3. Replayable(read') <=> Fits(r)
  BY <1>1, <1>2, ReplayedFurther, TakesWhatMayFollow
<1>4. CASE Fits(r)
  <2>1. TypeOK' /\ Sound' /\ phase' # "Corrupt"
    BY <1>1, <1>2, <1>4, ReadPreamble, ReadCommit, ReadRollback, ReadEnd DEF Apply
  <2> QED
    BY <1>3, <1>4, <2>1 DEF IInv
<1>5. CASE ~Fits(r)
  <2>1. /\ phase' = "Corrupt"
        /\ UNCHANGED <<operation_count, path_count, staged_count, prepared, commit_intents,
                       committed, last_commit_intent, rollback_intents, rolled_back,
                       last_rollback_intent>>
    BY <1>1, <1>5 DEF Apply, Reject, counts, commits, rollbacks
  <2>2. read' \in Seq(Record)
    BY <1>1, <1>2, Appended
  <2>3. TypeOK'
    BY <1>2, <2>1, <2>2 DEF TypeOK, Phases
  <2> QED
    BY <1>3, <1>5, <2>1, <2>3 DEF IInv
<1> QED
  BY <1>4, <1>5

LEMMA StutterStep == ASSUME IInv, UNCHANGED vars PROVE IInv'
<1>1. UNCHANGED <<read, phase, operation_count, path_count, staged_count, prepared,
                  commit_intents, committed, last_commit_intent, rollback_intents,
                  rolled_back, last_rollback_intent>>
  BY DEF vars, counts, commits, rollbacks
<1>2. TypeOK'
  BY <1>1 DEF IInv, TypeOK
<1>3. Sound => Sound'
  BY <1>1 DEF Sound, Preamble, Latest, Directed, Said
<1> QED
  BY <1>1, <1>2, <1>3 DEF IInv

LEMMA Invariant == Spec => []IInv
<1>1. IInv /\ [Next]_vars => IInv'
  BY RecordStep, StutterStep DEF Next, Stop
<1> QED
  BY <1>1, Initially, PTL DEF Spec

\* Type invariant of the parser.
THEOREM ReplayTypeOK == Spec => []TypeOK
<1>1. IInv => TypeOK
  BY DEF IInv
<1> QED
  BY <1>1, Invariant, PTL

\* The phase machine accepts exactly the journals of the grammar.
THEOREM ParserIsTheGrammar == Spec => []AcceptsTheGrammar
<1>1. IInv => AcceptsTheGrammar
  BY DEF IInv, AcceptsTheGrammar
<1> QED
  BY <1>1, Invariant, PTL

\* What recovery is told about an accepted journal is what its records say.
THEOREM ParserReportsTheRecords == Spec => []ReportsTheRecords
<1>1. IInv => ReportsTheRecords
  <2> SUFFICES ASSUME IInv, phase # "Corrupt"
               PROVE  /\ prepared <=> Has(read, Prepared)
                      /\ commit_intents = CommitIntents(read)
                      /\ rollback_intents = RollbackIntents(read)
                      /\ rolled_back = RolledBackPaths(read)
                      /\ staged_count = Cardinality(StagedPaths(read))
    BY DEF ReportsTheRecords
  <2>1. Said /\ TypeOK
    BY DEF IInv, Sound
  <2>2. Cardinality(1..staged_count) = staged_count
    <3>1. staged_count \in Nat
      BY <2>1 DEF TypeOK
    <3> QED
      BY <3>1, FS_Interval
  <2> QED
    BY <2>1, <2>2 DEF Said, TypeOK
<1> QED
  BY <1>1, Invariant, PTL

(***************************************************************************)
(* An accepted journal always lets the rollback go on: the record that     *)
(* completes the one under way fits, or the intent of every path below.    *)
(***************************************************************************)
THEOREM RollbackAlwaysResumes == Spec => []RollbackCanResume
<1>1. IInv => RollbackCanResume
  <2> SUFFICES ASSUME IInv, phase \in {"Commit", "Rollback"}
               PROVE  /\ rollback_intents # rolled_back => \E p \in Path : Fits(RolledBack(p))
                      /\ rollback_intents = rolled_back =>
                           \A p \in commit_intents :
                             (\A q \in rollback_intents : p < q) => Fits(RollbackIntent(p))
    BY DEF RollbackCanResume
  <2>1. Sound /\ TypeOK
    BY DEF IInv
  <2>2. ASSUME rollback_intents # rolled_back PROVE \E p \in Path : Fits(RolledBack(p))
    <3>1. /\ last_rollback_intent \in rollback_intents \ rolled_back
          /\ phase = "Rollback" /\ last_rollback_intent \in Path
      BY <2>1, <2>2 DEF Sound, Latest, Directed, TypeOK
    <3>2. Fits(RolledBack(last_rollback_intent))
      BY <3>1 DEF Fits, RolledBackFits, RolledBack
    <3> QED
      BY <3>1, <3>2
  <2>3. ASSUME rollback_intents = rolled_back, NEW p \in commit_intents,
               \A q \in rollback_intents : p < q
        PROVE  Fits(RollbackIntent(p))
    <3>1. /\ last_rollback_intent # 0 =>
               last_rollback_intent \in rolled_back /\ p < last_rollback_intent
          /\ p \in Path /\ p \notin rollback_intents
      BY <2>1, <2>3 DEF Sound, Latest, TypeOK
    <3> QED
      BY <3>1 DEF Fits, RollbackIntentFits, RollbackIntent
  <2> QED
    BY <2>2, <2>3
<1> QED
  BY <1>1, Invariant, PTL
=============================================================================
