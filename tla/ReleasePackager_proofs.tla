----------------------- MODULE ReleasePackager_proofs -----------------------
(***************************************************************************)
(* Proofs about the packager for any list of platforms and any number of   *)
(* runs, failures and crashes: it loses no output, and a run that reports  *)
(* success leaves a release.                                               *)
(***************************************************************************)
EXTENDS ReleasePackager, FiniteSetTheorems, SequenceTheorems, TLAPS

JobSet == [do: {"write", "remove"}, out: Outputs]
Writing == {"create", "replace", "install", "rollback", "drop", "cleanup"}
Moving == {"install", "rollback"}

\* The jobs name outputs, and a write in progress is one of them.
JobsTyped ==
    /\ jobs \in Seq(JobSet)
    /\ pc \in Writing => jobs # <<>>
    /\ DOMAIN disk = Outputs /\ DOMAIN last = Outputs /\ DOMAIN backups = Outputs

\* A file at a destination is what was last installed there.
OnDisk == \A o \in Outputs: disk[o] \in {Missing, Directory} \/ disk[o] = last[o]

\* What was last installed is at its destination or in a backup, unless it is
\* just being replaced.
Kept ==
    \A o \in Outputs: last[o] # Missing =>
        disk[o] = last[o] \/ last[o] \in backups[o] \/ (pc \in Moving /\ o = Out)

\* Then it is the backup of the write in progress.
MovedAside == pc \in Moving => backup = last[Out]

PackInv == JobsTyped /\ OnDisk /\ Kept /\ MovedAside

-----------------------------------------------------------------------------
(* The plan of a run names outputs only. *)

\* The chosen platforms in order are a sequence of platforms.
LEMMA OrderIsSequence ==
    ASSUME NEW chosen \in SUBSET PlatformSet, NEW ps \in InOrder(chosen)
    PROVE  ps \in Seq(PlatformSet)
<1>1. IsFiniteSet(1..Len(Platforms))
  BY FS_Interval, PackagerAssumption
<1>2. IsFiniteSet(PlatformSet)
  <2>1. Platforms \in Surjection(1..Len(Platforms), PlatformSet)
    BY PackagerAssumption DEF Surjection, PlatformSet
  <2> QED BY <1>1, <2>1, FS_Surjection
<1>3. Cardinality(chosen) \in Nat
  BY <1>2, FS_Subset, FS_CardinalityType
<1> QED BY <1>3 DEF InOrder

\* Two jobs for each platform of a sequence, with either kind of job.
LEMMA PairsTyped ==
    ASSUME NEW ps \in Seq(PlatformSet), NEW do \in {"write", "remove"}
    PROVE  Pairs(ps, do) \in Seq(JobSet)
<1>1. \A p \in PlatformSet: {Archive(p), Sidecar(p)} \subseteq Outputs
  BY DEF Outputs, PerPlatform
<1>2. \A n \in 1..(2 * Len(ps)): ps[(n + 1) \div 2] \in PlatformSet
  <2> TAKE n \in 1..(2 * Len(ps))
  <2>1. (n + 1) \div 2 \in 1..Len(ps)
    OBVIOUS
  <2> QED BY <2>1
<1>3. \A o \in Outputs: Job(do, o) \in JobSet
  BY DEF Job, JobSet
<1>4. \A n \in 1..(2 * Len(ps)): Pairs(ps, do)[n] \in JobSet
  BY <1>1, <1>2, <1>3 DEF Pairs
<1>5. 2 * Len(ps) \in Nat
  OBVIOUS
<1> QED BY <1>4, <1>5 DEF Pairs

\* The jobs of a run that starts.
LEMMA PlanTyped ==
    ASSUME NEW present \in Seq(PlatformSet), NEW absent \in Seq(PlatformSet)
    PROVE  Plan(Pairs(present, "write"), Pairs(absent, "remove")) \in Seq(JobSet)
<1>1. LastJob \in JobSet
  BY DEF LastJob, Job, JobSet, Outputs
<1>2. Pairs(present, "write") \in Seq(JobSet) /\ Pairs(absent, "remove") \in Seq(JobSet)
  BY PairsTyped
<1>3. ASSUME NEW writes \in Seq(JobSet), NEW removals \in Seq(JobSet)
      PROVE  Plan(writes, removals) \in Seq(JobSet)
  BY <1>1, ConcatProperties, AppendProperties DEF Plan
<1> QED BY <1>2, <1>3

-----------------------------------------------------------------------------
(* The invariant. *)

\* A run that starts touches no output yet.
LEMMA StartPreserves == PackInv /\ Start => PackInv'
<1> SUFFICES ASSUME PackInv, Start PROVE PackInv'
  OBVIOUS
<1>1. jobs' \in Seq(JobSet)
  <2>1. PICK present \in InOrder(packages'), absent \in InOrder(PlatformSet \ packages'):
           jobs' = Plan(Pairs(present, "write"), Pairs(absent, "remove"))
    BY DEF Start
  <2>2. packages' \in SUBSET PlatformSet /\ PlatformSet \ packages' \in SUBSET PlatformSet
    BY DEF Start
  <2>3. present \in Seq(PlatformSet) /\ absent \in Seq(PlatformSet)
    BY <2>2, OrderIsSequence
  <2> QED BY <2>1, <2>3, PlanTyped
<1>2. pc \notin Moving /\ pc' \notin Writing /\ pc' \notin Moving
  BY DEF Start, Moving, Writing
<1>3. UNCHANGED <<disk, last, backups>>
  BY DEF Start, litter
<1> QED
  BY <1>1, <1>2, <1>3 DEF PackInv, JobsTyped, OnDisk, Kept, MovedAside

\* The output of the first job is an output, and the other jobs are jobs.
LEMMA FirstJob ==
    ASSUME jobs \in Seq(JobSet), jobs # <<>>
    PROVE  Out \in Outputs /\ Tail(jobs) \in Seq(JobSet)
<1>1. Head(jobs) \in JobSet /\ Tail(jobs) \in Seq(JobSet)
  OBVIOUS
<1> QED BY <1>1 DEF Out, JobSet

\* Steps between two writes.
LEMMA BetweenPreserves == PackInv /\ (Prepare \/ RemoveStale \/ Succeed) => PackInv'
<1> SUFFICES ASSUME PackInv, Prepare \/ RemoveStale \/ Succeed PROVE PackInv'
  OBVIOUS
<1>1. CASE Prepare
  <2>1. jobs # <<>> /\ UNCHANGED <<disk, last, backups, jobs>>
    BY <1>1 DEF Prepare, UpNext, litter
  <2>2. pc \notin Moving /\ pc' \notin Moving
    BY <1>1 DEF Prepare, UpNext, Moving
  <2> QED BY <2>1, <2>2 DEF PackInv, JobsTyped, OnDisk, Kept, MovedAside
<1>2. CASE RemoveStale
  <2>1. Out \in Outputs /\ Tail(jobs) \in Seq(JobSet)
    BY <1>2, FirstJob DEF PackInv, JobsTyped, RemoveStale, UpNext
  <2>2. pc \notin Moving /\ pc' \notin Moving /\ pc' \notin Writing
    BY <1>2 DEF RemoveStale, UpNext, Moving, Writing
  <2>3. backups' = backups /\ jobs' \in {jobs, Tail(jobs)}
    BY <1>2 DEF RemoveStale, litter
  <2>4. \/ UNCHANGED <<disk, last>>
        \/ /\ disk' = [disk EXCEPT ![Out] = Missing]
           /\ last' = [last EXCEPT ![Out] = Missing]
    BY <1>2 DEF RemoveStale
  <2> QED BY <2>1, <2>2, <2>3, <2>4 DEF PackInv, JobsTyped, OnDisk, Kept, MovedAside
<1>3. CASE Succeed
  <2>1. UNCHANGED <<disk, last, backups, jobs>>
    BY <1>3 DEF Succeed, litter, run, history
  <2>2. pc \notin Moving /\ pc' \notin Moving /\ pc' \notin Writing
    BY <1>3 DEF Succeed, Moving, Writing
  <2> QED BY <2>1, <2>2 DEF PackInv, JobsTyped, OnDisk, Kept, MovedAside
<1> QED BY <1>1, <1>2, <1>3

\* Steps of a write that leave the destination alone.
LEMMA QuietPreserves ==
    PackInv /\ (CreateTemp \/ RejectDirectory \/ Cleanup) => PackInv'
<1> SUFFICES ASSUME PackInv, CreateTemp \/ RejectDirectory \/ Cleanup PROVE PackInv'
  OBVIOUS
<1>1. UNCHANGED <<disk, last, backups, jobs>>
  BY DEF CreateTemp, RejectDirectory, Cleanup, litter, run, history
<1>2. pc \in Writing /\ pc \notin Moving /\ pc' \notin Moving
  BY DEF CreateTemp, RejectDirectory, Cleanup, Writing, Moving
<1> QED BY <1>1, <1>2 DEF PackInv, JobsTyped, OnDisk, Kept, MovedAside

\* Steps that put the output in place, or fail to.
LEMMA InstallPreserves == PackInv /\ (InstallNew \/ Install) => PackInv'
<1> SUFFICES ASSUME PackInv, InstallNew \/ Install PROVE PackInv'
  OBVIOUS
<1>1. pc \in Writing
  BY DEF InstallNew, Install, Writing
<1>2. Out \in Outputs /\ Tail(jobs) \in Seq(JobSet) /\ jobs # <<>>
  BY <1>1, FirstJob DEF PackInv, JobsTyped
<1>3. CASE /\ PutTemp /\ pc' \notin Moving /\ UNCHANGED backups
           /\ \/ jobs' = jobs
              \/ jobs' = Tail(jobs) /\ pc' \notin Writing
  <2>1. /\ disk' = [disk EXCEPT ![Out] = temp]
        /\ last' = [last EXCEPT ![Out] = temp]
    BY <1>3 DEF PutTemp
  <2> QED BY <1>2, <1>3, <2>1 DEF PackInv, JobsTyped, OnDisk, Kept, MovedAside
<1>4. CASE /\ UNCHANGED <<disk, last, backups, jobs>>
           /\ \/ pc \notin Moving /\ pc' \notin Moving
              \/ pc \in Moving /\ pc' \in Moving /\ UNCHANGED backup
  <2>1. Out' = Out
    BY <1>4 DEF Out
  <2> QED BY <1>2, <1>4, <2>1 DEF PackInv, JobsTyped, OnDisk, Kept, MovedAside
<1>5. CASE InstallNew
  <2>1. UNCHANGED backups /\ pc \notin Moving
    BY <1>5 DEF InstallNew, litter, Moving
  <2>2. CASE PutTemp /\ Installed
    BY <1>3, <2>1, <2>2 DEF Installed, Moving, Writing
  <2>3. CASE pc' = "cleanup" /\ UNCHANGED <<disk, temp, last, run>>
    <3>1. UNCHANGED <<disk, last, backups, jobs>>
      BY <2>1, <2>3 DEF run
    <3>2. pc' \notin Moving
      BY <2>3 DEF Moving
    <3> QED BY <1>4, <2>1, <3>1, <3>2
  <2> QED BY <1>5, <2>2, <2>3 DEF InstallNew
<1>6. CASE Install
  <2>1. UNCHANGED <<backups, backup, jobs>> /\ pc \in Moving
    BY <1>6 DEF Install, litter, run, Moving
  <2>2. CASE PutTemp /\ pc' = "drop"
    BY <1>3, <2>1, <2>2 DEF Moving
  <2>3. CASE pc' = "rollback" /\ UNCHANGED <<disk, last>>
    BY <1>4, <2>1, <2>3 DEF Moving
  <2> QED BY <1>6, <2>2, <2>3 DEF Install
<1> QED BY <1>5, <1>6

\* Steps around the backup.
LEMMA BackupPreserves == PackInv /\ (MoveAside \/ Rollback \/ DropBackup) => PackInv'
<1> SUFFICES ASSUME PackInv, MoveAside \/ Rollback \/ DropBackup PROVE PackInv'
  OBVIOUS
<1>1. pc \in Writing
  BY DEF MoveAside, Rollback, DropBackup, Writing
<1>2. Out \in Outputs /\ Tail(jobs) \in Seq(JobSet) /\ jobs # <<>>
  BY <1>1, FirstJob DEF PackInv, JobsTyped
<1>3. CASE MoveAside
  <2>1. UNCHANGED <<last, backups, jobs>> /\ Out' = Out /\ pc \notin Moving
    BY <1>3 DEF MoveAside, run, Out, Moving
  <2>2. disk[Out] = last[Out]
    BY <1>2, <1>3 DEF MoveAside, PackInv, OnDisk
  <2>3. CASE /\ backup' = disk[Out] /\ pc' \in Moving
             /\ disk' = [disk EXCEPT ![Out] = Missing]
    BY <1>2, <2>1, <2>2, <2>3 DEF PackInv, JobsTyped, OnDisk, Kept, MovedAside
  <2>4. CASE disk' = disk /\ pc' \notin Moving
    BY <1>2, <2>1, <2>4 DEF PackInv, JobsTyped, OnDisk, Kept, MovedAside
  <2> QED BY <1>3, <2>3, <2>4 DEF MoveAside, KeepOld, Moving
<1>4. CASE Rollback
  <2>1. UNCHANGED <<last, jobs>> /\ pc \in Moving /\ pc' \notin Moving
    BY <1>4 DEF Rollback, run, Moving
  <2>2. backup = last[Out]
    BY <2>1 DEF PackInv, MovedAside
  <2>3. CASE disk' = [disk EXCEPT ![Out] = backup] /\ UNCHANGED backups
    BY <1>2, <2>1, <2>2, <2>3 DEF PackInv, JobsTyped, OnDisk, Kept, MovedAside
  <2>4. CASE backups' = Retained /\ UNCHANGED disk
    BY <1>2, <2>1, <2>2, <2>4 DEF Retained, PackInv, JobsTyped, OnDisk, Kept, MovedAside
  <2> QED BY <1>4, <2>3, <2>4 DEF Rollback
<1>5. CASE DropBackup
  <2>1. UNCHANGED <<disk, last>> /\ pc \notin Moving /\ pc' \notin Moving /\ pc' \notin Writing
    BY <1>5 DEF DropBackup, DropFails, Installed, Moving, Writing
  <2>2. jobs' \in {jobs, Tail(jobs)} /\ backups' \in {backups, Retained}
    BY <1>5 DEF DropBackup, DropFails, Installed, run
  <2> QED
    BY <1>2, <2>1, <2>2 DEF Retained, PackInv, JobsTyped, OnDisk, Kept, MovedAside
<1> QED BY <1>3, <1>4, <1>5

\* The process dies.
LEMMA CrashPreserves == PackInv /\ Crash => PackInv'
<1> SUFFICES ASSUME PackInv, Crash PROVE PackInv'
  OBVIOUS
<1>1. UNCHANGED <<disk, last, jobs>> /\ pc' \notin Moving /\ pc' \notin Writing
  BY DEF Crash, run, Moving, Writing
<1>2. backups' = IF backup # Missing THEN Retained ELSE backups
  BY DEF Crash
<1>3. CASE pc \in Moving
  <2>1. Out \in Outputs /\ backup = last[Out]
    BY <1>3, FirstJob DEF PackInv, JobsTyped, MovedAside, Moving, Writing
  <2> QED
    BY <1>1, <1>2, <1>3, <2>1 DEF Retained, PackInv, JobsTyped, OnDisk, Kept, MovedAside
<1>4. CASE pc \notin Moving
  BY <1>1, <1>2, <1>4 DEF Retained, PackInv, JobsTyped, OnDisk, Kept, MovedAside
<1> QED BY <1>3, <1>4

\* The outputs found at first are what was last installed.
LEMMA PackStart == Init => PackInv
<1> SUFFICES ASSUME Init PROVE PackInv
  OBVIOUS
<1>1. jobs = <<>> /\ pc \notin Writing /\ pc \notin Moving
  BY DEF Init, Writing, Moving
<1>2. DOMAIN disk = Outputs /\ DOMAIN backups = Outputs
  BY DEF Init
<1>3. last = [o \in Outputs |-> IF disk[o] = Directory THEN Missing ELSE disk[o]]
  BY DEF Init
<1> QED
  BY <1>1, <1>2, <1>3 DEF PackInv, JobsTyped, OnDisk, Kept, MovedAside

\* Every step keeps the invariant.
LEMMA PackStep == PackInv /\ [Next]_vars => PackInv'
<1> SUFFICES ASSUME PackInv, [Next]_vars PROVE PackInv'
  OBVIOUS
<1>1. CASE UNCHANGED vars
  <2>1. UNCHANGED <<disk, last, backups, jobs, pc, backup>> /\ Out' = Out
    BY <1>1 DEF vars, litter, run, history, Out
  <2> QED BY <2>1 DEF PackInv, JobsTyped, OnDisk, Kept, MovedAside
<1> QED
  BY <1>1, StartPreserves, BetweenPreserves, QuietPreserves, InstallPreserves,
     BackupPreserves, CrashPreserves DEF Next

\* Whatever fails and whenever the process dies, the last complete content of
\* every output is at its destination or in a backup.
THEOREM OutputsSurvive == Spec => []NothingLost
<1>1. PackInv => NothingLost
  BY DEF PackInv, Kept, MovedAside, NothingLost
<1> QED BY PackStart, PackStep, <1>1, PTL DEF Spec

-----------------------------------------------------------------------------
(* The invariant of a run that has not failed. *)

Live == {"next", "create", "replace", "install", "drop"}
Left == {jobs[n]: n \in 1..Len(jobs)}

\* Each archive is followed at once by its sidecar, the outputs of other
\* platforms are removed, and the aggregate is the last job.
WellOrdered(js, P) ==
    \A n \in 1..Len(js):
        \/ js[n] = LastJob /\ n = Len(js)
        \/ /\ n < Len(js)
           /\ \/ \E p \in P: js[n] = Job("write", Archive(p)) /\ js[n + 1] = Job("write", Sidecar(p))
              \/ \E p \in P: /\ js[n] = Job("write", Sidecar(p))
                             /\ n > 1 => js[n - 1] = Job("write", Archive(p))
              \/ \E p \in PlatformSet \ P:
                    js[n] \in {Job("remove", Archive(p)), Job("remove", Sidecar(p))}

\* A packaged platform whose sidecar is no longer owed agrees with its line, and
\* another whose outputs are no longer owed a removal has none.
PairsDone ==
    /\ \A p \in packages: Job("write", Sidecar(p)) \in Left \/
           /\ p \in DOMAIN lines
           /\ disk[Archive(p)] = Made(p, lines[p])
           /\ disk[Sidecar(p)] = disk[Archive(p)]
    /\ \A p \in PlatformSet \ packages: \A o \in {Archive(p), Sidecar(p)}:
           Job("remove", o) \in Left \/ disk[o] \in {Missing, Directory}

\* A sidecar that is next has the archive of this run to describe.
ArchiveReady ==
    \A p \in packages: jobs # <<>> /\ Head(jobs) = Job("write", Sidecar(p)) =>
        \E b \in Builds: disk[Archive(p)] = Made(p, b)

\* What is being written.
ContentInv ==
    pc \in Live \ {"next"} =>
        /\ Head(jobs).do = "write"
        /\ Out = Checksums => content = lines
        /\ \A p \in packages: Out = Archive(p) => \E b \in Builds: content = Made(p, b)
        /\ \A p \in packages: Out = Sidecar(p) => content = disk[Archive(p)]
        /\ pc \in {"replace", "install"} => temp = content
        /\ pc = "drop" => disk[Out] = content

RunInv ==
    /\ pc \in Live =>
          /\ litter = found
          /\ packages \subseteq PlatformSet /\ DOMAIN lines \subseteq packages
          /\ WellOrdered(jobs, packages)
          /\ PairsDone /\ ArchiveReady /\ ContentInv
          /\ jobs = <<>> => disk[Checksums] = lines
    /\ SuccessIsRelease

-----------------------------------------------------------------------------
(* The plan of a run, read as positions. *)

\* No output has two names.
LEMMA OutputsDiffer ==
    /\ \A p, q: Archive(p) # Sidecar(q)
    /\ \A p, q: (Archive(p) = Archive(q) => p = q) /\ (Sidecar(p) = Sidecar(q) => p = q)
    /\ \A p: Archive(p) # Checksums /\ Sidecar(p) # Checksums
<1>1. \A p: Archive(p)[1] = "archive" /\ Archive(p)[2] = p /\ Len(Archive(p)) = 2
  BY DEF Archive
<1>2. \A p: Sidecar(p)[1] = "sidecar" /\ Sidecar(p)[2] = p /\ Len(Sidecar(p)) = 2
  BY DEF Sidecar
<1>3. Len(Checksums) = 1
  BY DEF Checksums
<1>4. "archive" # "sidecar"
  OBVIOUS
<1> QED BY <1>1, <1>2, <1>3, <1>4

\* Every chosen platform is in the ordered sequence of them: strictly ordered
\* means without a repetition, and there are as many places as platforms.
LEMMA OrderCovers ==
    ASSUME NEW chosen \in SUBSET PlatformSet, NEW ps \in InOrder(chosen)
    PROVE  /\ ps \in Seq(chosen)
           /\ \A p \in chosen: \E k \in 1..Len(ps): ps[k] = p
<1> DEFINE size == Cardinality(chosen)
<1>1. IsFiniteSet(PlatformSet)
  <2>1. Platforms \in Surjection(1..Len(Platforms), PlatformSet)
    BY PackagerAssumption DEF Surjection, PlatformSet
  <2>2. IsFiniteSet(1..Len(Platforms))
    BY FS_Interval, PackagerAssumption
  <2> QED BY <2>1, <2>2, FS_Surjection
<1>2. IsFiniteSet(chosen) /\ size \in Nat
  BY <1>1, FS_Subset, FS_CardinalityType
<1>3. ps \in [1..size -> chosen]
  BY DEF InOrder
<1>4. \A m, n \in 1..size: m < n => ps[m] # ps[n]
  <2> SUFFICES ASSUME NEW m \in 1..size, NEW n \in 1..size, m < n PROVE ps[m] # ps[n]
    OBVIOUS
  <2>1. PICK i \in 1..Len(Platforms), j \in 1..Len(Platforms):
           i < j /\ Platforms[i] = ps[m] /\ Platforms[j] = ps[n]
    BY <1>3 DEF InOrder
  <2>2. Platforms[i] # Platforms[j]
    BY <2>1, PackagerAssumption
  <2> QED BY <2>1, <2>2
<1>5. ps \in Injection(1..size, chosen)
  <2>1. \A m, n \in 1..size: m # n => m < n \/ n < m
    BY <1>2
  <2> QED BY <1>3, <1>4, <2>1 DEF Injection, IsInjective
<1>6. Cardinality(1..size) = size
  BY <1>2, FS_Interval
<1>7. ps \in Surjection(1..size, chosen)
  BY <1>2, <1>5, <1>6, FS_Injection
<1>8. ps \in Seq(chosen) /\ Len(ps) = size
  BY <1>2, <1>3
<1> QED BY <1>7, <1>8 DEF Surjection

\* The jobs of the k-th platform of a sequence are jobs 2k - 1 and 2k, and
\* there are no others.
LEMMA PairsForm ==
    ASSUME NEW ps \in Seq(PlatformSet), NEW do \in {"write", "remove"}
    PROVE  /\ Len(Pairs(ps, do)) = 2 * Len(ps)
           /\ \A k \in 1..Len(ps):
                 /\ Pairs(ps, do)[2 * k - 1] = Job(do, Archive(ps[k]))
                 /\ Pairs(ps, do)[2 * k] = Job(do, Sidecar(ps[k]))
           /\ \A n \in 1..(2 * Len(ps)): \E k \in 1..Len(ps): n = 2 * k - 1 \/ n = 2 * k
<1> DEFINE size == Len(ps)
<1>1. size \in Nat
  OBVIOUS
<1> HIDE DEF size
<1>2. Len(Pairs(ps, do)) = 2 * size
  BY <1>1 DEF Pairs, size
<1>3. ASSUME NEW k \in 1..size
      PROVE  /\ Pairs(ps, do)[2 * k - 1] = Job(do, Archive(ps[k]))
             /\ Pairs(ps, do)[2 * k] = Job(do, Sidecar(ps[k]))
  <2>1. 2 * k - 1 \in 1..(2 * size) /\ 2 * k \in 1..(2 * size)
    BY <1>1
  <2>2. (2 * k - 1) % 2 = 1 /\ ((2 * k - 1) + 1) \div 2 = k
    BY <1>1
  <2>3. (2 * k) % 2 # 1 /\ (2 * k + 1) \div 2 = k
    BY <1>1
  <2> QED BY <2>1, <2>2, <2>3 DEF Pairs, size
<1>4. \A n \in 1..(2 * size): \E k \in 1..size: n = 2 * k - 1 \/ n = 2 * k
  <2> TAKE n \in 1..(2 * size)
  <2> DEFINE k == (n + 1) \div 2
  <2>1. k \in 1..size /\ (n = 2 * k - 1 \/ n = 2 * k)
    BY <1>1
  <2> QED BY <2>1
<1> QED BY <1>2, <1>3, <1>4 DEF size

\* A plan is the writes, the removals and the aggregate.
LEMMA PlanForm ==
    ASSUME NEW writes \in Seq(JobSet), NEW removals \in Seq(JobSet)
    PROVE  LET js == Plan(writes, removals)
           IN  /\ Len(js) = Len(writes) + Len(removals) + 1
               /\ \A n \in 1..Len(writes): js[n] = writes[n]
               /\ \A n \in 1..Len(removals): js[Len(writes) + n] = removals[n]
               /\ js[Len(js)] = LastJob
<1>1. LastJob \in JobSet
  BY DEF LastJob, Job, JobSet, Outputs
<1> DEFINE front == writes \o removals
<1>2. /\ front \in Seq(JobSet) /\ Len(front) = Len(writes) + Len(removals)
      /\ \A n \in 1..Len(writes): front[n] = writes[n]
      /\ \A n \in 1..Len(removals): front[Len(writes) + n] = removals[n]
  BY ConcatProperties
<1>3. /\ Len(Append(front, LastJob)) = Len(front) + 1
      /\ \A n \in 1..Len(front): Append(front, LastJob)[n] = front[n]
      /\ Append(front, LastJob)[Len(front) + 1] = LastJob
  BY <1>1, <1>2, AppendProperties
<1>4. Len(writes) \in Nat /\ Len(removals) \in Nat
  OBVIOUS
<1> QED BY <1>2, <1>3, <1>4 DEF Plan

\* The plan of a run is well ordered and leaves no platform out.
LEMMA PlanSettles ==
    ASSUME NEW P \in SUBSET PlatformSet,
           NEW present \in InOrder(P), NEW absent \in InOrder(PlatformSet \ P)
    PROVE  LET js == Plan(Pairs(present, "write"), Pairs(absent, "remove"))
           IN  /\ WellOrdered(js, P)
               /\ \A p \in P: \E n \in 1..Len(js): js[n] = Job("write", Sidecar(p))
               /\ \A p \in PlatformSet \ P: \A o \in {Archive(p), Sidecar(p)}:
                     \E n \in 1..Len(js): js[n] = Job("remove", o)
               /\ js # <<>>
               /\ \A p \in P: Head(js) # Job("write", Sidecar(p))
<1> DEFINE A == PlatformSet \ P
           writes == Pairs(present, "write")
           removals == Pairs(absent, "remove")
           js == Plan(writes, removals)
<1>1. /\ present \in Seq(P) /\ absent \in Seq(A)
      /\ present \in Seq(PlatformSet) /\ absent \in Seq(PlatformSet)
      /\ \A p \in P: \E k \in 1..Len(present): present[k] = p
      /\ \A p \in A: \E k \in 1..Len(absent): absent[k] = p
  <2>1. P \in SUBSET PlatformSet /\ A \in SUBSET PlatformSet
    OBVIOUS
  <2>2. present \in InOrder(P) /\ absent \in InOrder(A)
    OBVIOUS
  <2> HIDE DEF A
  <2>3. present \in Seq(P) /\ \A p \in P: \E k \in 1..Len(present): present[k] = p
    BY <2>1, <2>2, OrderCovers
  <2>4. absent \in Seq(A) /\ \A p \in A: \E k \in 1..Len(absent): absent[k] = p
    BY <2>1, <2>2, OrderCovers
  <2>5. present \in Seq(PlatformSet) /\ absent \in Seq(PlatformSet)
    BY <2>1, <2>2, OrderIsSequence
  <2> QED BY <2>3, <2>4, <2>5
<1>2. PICK u \in Nat, v \in Nat: u = Len(present) /\ v = Len(absent)
  BY <1>1
<1>3. /\ Len(writes) = 2 * u
      /\ \A k \in 1..u: /\ writes[2 * k - 1] = Job("write", Archive(present[k]))
                        /\ writes[2 * k] = Job("write", Sidecar(present[k]))
      /\ \A n \in 1..(2 * u): \E k \in 1..u: n = 2 * k - 1 \/ n = 2 * k
  BY <1>1, <1>2, PairsForm
<1>4. /\ Len(removals) = 2 * v
      /\ \A k \in 1..v: /\ removals[2 * k - 1] = Job("remove", Archive(absent[k]))
                        /\ removals[2 * k] = Job("remove", Sidecar(absent[k]))
      /\ \A n \in 1..(2 * v): \E k \in 1..v: n = 2 * k - 1 \/ n = 2 * k
  BY <1>1, <1>2, PairsForm
<1>5. writes \in Seq(JobSet) /\ removals \in Seq(JobSet)
  BY <1>1, PairsTyped
<1>6. /\ Len(js) = 2 * u + 2 * v + 1
      /\ \A n \in 1..(2 * u): js[n] = writes[n]
      /\ \A n \in 1..(2 * v): js[2 * u + n] = removals[n]
      /\ js[2 * u + 2 * v + 1] = LastJob
  <2> HIDE DEF writes, removals
  <2>1. /\ Len(js) = Len(writes) + Len(removals) + 1
        /\ \A n \in 1..Len(writes): js[n] = writes[n]
        /\ \A n \in 1..Len(removals): js[Len(writes) + n] = removals[n]
        /\ js[Len(js)] = LastJob
    BY <1>5, PlanForm
  <2> HIDE DEF js
  <2>2. Len(js) = 2 * u + 2 * v + 1
    BY <2>1, <1>3, <1>4
  <2> QED BY <2>1, <2>2, <1>3, <1>4
<1>7. \A k \in 1..u: present[k] \in P
  BY <1>1, <1>2
<1>8. \A k \in 1..v: absent[k] \in A
  BY <1>1, <1>2
<1>9. \A k \in 1..u: /\ js[2 * k - 1] = Job("write", Archive(present[k]))
                     /\ js[2 * k] = Job("write", Sidecar(present[k]))
  <2> TAKE k \in 1..u
  <2>1. 2 * k - 1 \in 1..(2 * u) /\ 2 * k \in 1..(2 * u)
    OBVIOUS
  <2> QED BY <2>1, <1>3, <1>6
<1>10. \A k \in 1..v: /\ js[2 * u + (2 * k - 1)] = Job("remove", Archive(absent[k]))
                      /\ js[2 * u + 2 * k] = Job("remove", Sidecar(absent[k]))
  <2> TAKE k \in 1..v
  <2>1. 2 * k - 1 \in 1..(2 * v) /\ 2 * k \in 1..(2 * v)
    OBVIOUS
  <2> QED BY <2>1, <1>4, <1>6
<1> HIDE DEF js, writes, removals, A
<1>11. WellOrdered(js, P)
  <2> SUFFICES ASSUME NEW n \in 1..Len(js)
               PROVE  \/ js[n] = LastJob /\ n = Len(js)
                      \/ /\ n < Len(js)
                         /\ \/ \E p \in P: /\ js[n] = Job("write", Archive(p))
                                           /\ js[n + 1] = Job("write", Sidecar(p))
                            \/ \E p \in P: /\ js[n] = Job("write", Sidecar(p))
                                           /\ n > 1 => js[n - 1] = Job("write", Archive(p))
                            \/ \E p \in A: js[n] \in {Job("remove", Archive(p)), Job("remove", Sidecar(p))}
    BY DEF WellOrdered, A
  <2>1. CASE n \in 1..(2 * u)
    <3>1. PICK k \in 1..u: n = 2 * k - 1 \/ n = 2 * k
      BY <2>1, <1>3
    <3>2. n < Len(js)
      BY <2>1, <1>6
    <3>3. CASE n = 2 * k - 1
      <4>1. js[n] = Job("write", Archive(present[k]))
        BY <3>3, <1>9
      <4>2. n + 1 = 2 * k
        BY <3>3
      <4> QED BY <4>1, <4>2, <1>7, <1>9, <3>2
    <3>4. CASE n = 2 * k
      <4>1. js[n] = Job("write", Sidecar(present[k]))
        BY <3>4, <1>9
      <4>2. n - 1 = 2 * k - 1
        BY <3>4
      <4> QED BY <4>1, <4>2, <1>7, <1>9, <3>2
    <3> QED BY <3>1, <3>3, <3>4
  <2>2. CASE n \in (2 * u + 1)..(2 * u + 2 * v)
    <3>1. n - 2 * u \in 1..(2 * v)
      BY <2>2
    <3>2. PICK k \in 1..v: n - 2 * u = 2 * k - 1 \/ n - 2 * u = 2 * k
      BY <3>1, <1>4
    <3>3. n < Len(js)
      BY <2>2, <1>6
    <3>4. n = 2 * u + (2 * k - 1) \/ n = 2 * u + 2 * k
      BY <3>2, <2>2
    <3>5. js[n] \in {Job("remove", Archive(absent[k])), Job("remove", Sidecar(absent[k]))}
      BY <3>4, <1>10
    <3> QED BY <3>3, <3>5, <1>8
  <2>3. CASE n = 2 * u + 2 * v + 1
    BY <2>3, <1>6
  <2> QED BY <1>6, <2>1, <2>2, <2>3
<1>12. ASSUME NEW p \in P PROVE \E n \in 1..Len(js): js[n] = Job("write", Sidecar(p))
  <2>1. PICK k \in 1..u: present[k] = p
    BY <1>1, <1>2
  <2>2. 2 * k \in 1..Len(js)
    BY <1>6
  <2> QED BY <2>1, <2>2, <1>9
<1>13. ASSUME NEW p \in A, NEW o \in {Archive(p), Sidecar(p)}
       PROVE  \E n \in 1..Len(js): js[n] = Job("remove", o)
  <2>1. PICK k \in 1..v: absent[k] = p
    BY <1>1, <1>2
  <2>2. 2 * u + (2 * k - 1) \in 1..Len(js) /\ 2 * u + 2 * k \in 1..Len(js)
    BY <1>6
  <2> QED BY <2>1, <2>2, <1>10
<1>14. js # <<>> /\ js[1] = Head(js)
  <2>1. js \in Seq(JobSet)
    BY <1>1, PlanTyped DEF js, writes, removals
  <2>2. Len(js) # 0
    BY <1>6
  <2> QED BY <2>1, <2>2
<1>15. ASSUME NEW p \in P PROVE Head(js) # Job("write", Sidecar(p))
  <2>1. u > 0
    BY <1>1, <1>2
  <2>2. js[1] = Job("write", Archive(present[1]))
    <3>1. 1 \in 1..u /\ 2 * 1 - 1 = 1
      BY <2>1
    <3> QED BY <3>1, <1>9
  <2> QED BY <2>2, <1>14, OutputsDiffer DEF Job
<1> QED BY <1>11, <1>12, <1>13, <1>14, <1>15 DEF js, writes, removals, A

\* The second job is first of what is left.
LEMMA SecondJob ==
    ASSUME NEW js \in Seq(JobSet), Len(js) > 1
    PROVE  Tail(js) # <<>> /\ Head(Tail(js)) = js[2]
<1> PICK t: t = Tail(js)
  OBVIOUS
<1>1. t \in Seq(JobSet) /\ Len(t) = Len(js) - 1 /\ Len(js) \in Nat /\ t[1] = js[2]
  OBVIOUS
<1>2. t # <<>> /\ Head(t) = t[1]
  <2>1. Len(t) # 0
    BY <1>1
  <2>2. t # <<>>
    BY <2>1, <1>1
  <2>3. Head(t) = t[1]
    BY <2>2, <1>1
  <2> QED BY <2>2, <2>3
<1> QED BY <1>1, <1>2

\* The jobs that are left of a well-ordered plan are well ordered.
LEMMA TailOrdered ==
    ASSUME NEW js \in Seq(JobSet), js # <<>>, NEW P, WellOrdered(js, P)
    PROVE  WellOrdered(Tail(js), P)
<1>1. /\ Tail(js) \in Seq(JobSet) /\ Len(Tail(js)) = Len(js) - 1
      /\ \A n \in 1..Len(Tail(js)): Tail(js)[n] = js[n + 1]
  OBVIOUS
<1> DEFINE t == Tail(js)
<1>2. Len(js) \in Nat /\ Len(t) \in Nat
  BY <1>1
<1> HIDE DEF t
<1> SUFFICES ASSUME NEW n \in 1..Len(t)
             PROVE  \/ t[n] = LastJob /\ n = Len(t)
                    \/ /\ n < Len(t)
                       /\ \/ \E p \in P: t[n] = Job("write", Archive(p)) /\ t[n + 1] = Job("write", Sidecar(p))
                          \/ \E p \in P: /\ t[n] = Job("write", Sidecar(p))
                                         /\ n > 1 => t[n - 1] = Job("write", Archive(p))
                          \/ \E p \in PlatformSet \ P:
                                t[n] \in {Job("remove", Archive(p)), Job("remove", Sidecar(p))}
  BY DEF WellOrdered, t
<1>3. n + 1 \in 1..Len(js) /\ t[n] = js[n + 1] /\ n < Len(js)
  BY <1>1, <1>2 DEF t
<1>4. n > 1 => t[n - 1] = js[n]
  BY <1>1, <1>2 DEF t
<1>5. n < Len(t) => t[n + 1] = js[(n + 1) + 1]
  BY <1>1, <1>2 DEF t
<1>6. (n + 1 < Len(js) <=> n < Len(t)) /\ (n + 1 = Len(js) <=> n = Len(t)) /\ (n + 1) - 1 = n /\ n + 1 > 1
  BY <1>1, <1>2 DEF t
<1>7. \/ js[n + 1] = LastJob /\ n + 1 = Len(js)
      \/ /\ n + 1 < Len(js)
         /\ \/ \E p \in P: js[n + 1] = Job("write", Archive(p)) /\ js[(n + 1) + 1] = Job("write", Sidecar(p))
            \/ \E p \in P: /\ js[n + 1] = Job("write", Sidecar(p))
                           /\ n + 1 > 1 => js[(n + 1) - 1] = Job("write", Archive(p))
            \/ \E p \in PlatformSet \ P:
                  js[n + 1] \in {Job("remove", Archive(p)), Job("remove", Sidecar(p))}
  BY <1>3 DEF WellOrdered
<1> QED BY <1>3, <1>4, <1>5, <1>6, <1>7

-----------------------------------------------------------------------------
(* The invariant of a run, step by step. *)

FullInv == PackInv /\ RunInv
Failed == pc' \notin Live /\ pc' # "ok"

\* A run that has failed, or has not begun, promises nothing.
LEMMA FailurePromisesNothing == Failed => RunInv'
<1>1. Failed => (pc' \in Live => FALSE) /\ (pc' = "ok" => FALSE)
  BY DEF Failed
<1> QED BY <1>1 DEF RunInv, SuccessIsRelease

\* What the first job can be.
LEMMA FirstOfPlan ==
    ASSUME jobs \in Seq(JobSet), jobs # <<>>, WellOrdered(jobs, packages)
    PROVE  \/ Len(jobs) = 1 /\ Head(jobs) = LastJob
           \/ /\ Len(jobs) > 1
              /\ \/ \E p \in packages: Head(jobs) = Job("write", Archive(p))
                                       /\ jobs[2] = Job("write", Sidecar(p))
                 \/ \E p \in packages: Head(jobs) = Job("write", Sidecar(p))
                 \/ \E p \in PlatformSet \ packages: \E o \in {Archive(p), Sidecar(p)}:
                       Head(jobs) = Job("remove", o)
<1>1. Head(jobs) = jobs[1] /\ 1 \in 1..Len(jobs) /\ 1 + 1 = 2
  OBVIOUS
<1>2. \/ jobs[1] = LastJob /\ 1 = Len(jobs)
      \/ /\ 1 < Len(jobs)
         /\ \/ \E p \in packages: jobs[1] = Job("write", Archive(p)) /\ jobs[1 + 1] = Job("write", Sidecar(p))
            \/ \E p \in packages: /\ jobs[1] = Job("write", Sidecar(p))
                                  /\ 1 > 1 => jobs[1 - 1] = Job("write", Archive(p))
            \/ \E p \in PlatformSet \ packages:
                  jobs[1] \in {Job("remove", Archive(p)), Job("remove", Sidecar(p))}
  BY <1>1 DEF WellOrdered
<1>3. 1 < Len(jobs) => Len(jobs) > 1
  OBVIOUS
<1> QED BY <1>1, <1>2, <1>3

\* A sidecar comes right after its archive.
LEMMA SidecarFollows ==
    ASSUME jobs \in Seq(JobSet), Len(jobs) > 1, WellOrdered(jobs, packages),
           NEW p \in packages, jobs[2] = Job("write", Sidecar(p))
    PROVE  Head(jobs) = Job("write", Archive(p))
<1>1. 2 \in 1..Len(jobs) /\ Head(jobs) = jobs[1] /\ 2 - 1 = 1 /\ 2 > 1
  OBVIOUS
<1>2. jobs[2] # LastJob
  BY OutputsDiffer DEF LastJob, Job
<1>3. \A q: jobs[2] # Job("write", Archive(q)) /\ jobs[2] # Job("remove", Archive(q))
            /\ jobs[2] # Job("remove", Sidecar(q))
  BY OutputsDiffer DEF Job
<1>4. PICK q \in packages: jobs[2] = Job("write", Sidecar(q)) /\ jobs[1] = Job("write", Archive(q))
  BY <1>1, <1>2, <1>3 DEF WellOrdered
<1>5. p = q
  BY <1>4, OutputsDiffer DEF Job
<1> QED BY <1>1, <1>4, <1>5

\* What is left after the first job.
LEMMA LeftAfter ==
    ASSUME jobs \in Seq(JobSet), jobs # <<>>, jobs' = Tail(jobs)
    PROVE  /\ Left' = {Tail(jobs)[n]: n \in 1..Len(Tail(jobs))}
           /\ \A j \in Left: j = Head(jobs) \/ j \in Left'
<1> PICK t: t = jobs'
  OBVIOUS
<1>1. Left' = {t[n]: n \in 1..Len(t)}
  BY DEF Left
<1>2. /\ t = Tail(jobs) /\ Len(t) = Len(jobs) - 1 /\ Head(jobs) = jobs[1]
      /\ \A n \in 1..Len(t): t[n] = jobs[n + 1]
  OBVIOUS
<1>3. ASSUME NEW n \in 1..Len(jobs), n # 1 PROVE jobs[n] \in {t[m]: m \in 1..Len(t)}
  <2>1. n - 1 \in 1..Len(t) /\ (n - 1) + 1 = n
    BY <1>2, <1>3
  <2>2. t[n - 1] = jobs[n]
    BY <2>1, <1>2
  <2> QED BY <2>1, <2>2
<1> QED BY <1>1, <1>2, <1>3 DEF Left

\* The run starts with every promise still to keep.
LEMMA RunStarts == FullInv /\ Start => RunInv'
<1> SUFFICES ASSUME FullInv, Start PROVE RunInv'
  OBVIOUS
<1>1. CASE pc' = "failed"
  BY <1>1, FailurePromisesNothing DEF Failed, Live
<1>2. CASE pc' = "next"
  <2> PICK P: P = packages'
    OBVIOUS
  <2> PICK js: js = jobs'
    OBVIOUS
  <2>1. P \in SUBSET PlatformSet /\ packages' = P
    BY DEF Start
  <2>2. PICK present \in InOrder(P), absent \in InOrder(PlatformSet \ P):
           js = Plan(Pairs(present, "write"), Pairs(absent, "remove"))
    BY DEF Start
  <2>3. /\ WellOrdered(js, P)
        /\ \A p \in P: \E n \in 1..Len(js): js[n] = Job("write", Sidecar(p))
        /\ \A p \in PlatformSet \ P: \A o \in {Archive(p), Sidecar(p)}:
              \E n \in 1..Len(js): js[n] = Job("remove", o)
        /\ js # <<>>
        /\ \A p \in P: Head(js) # Job("write", Sidecar(p))
    <3> DEFINE plan == Plan(Pairs(present, "write"), Pairs(absent, "remove"))
    <3>1. /\ WellOrdered(plan, P)
          /\ \A p \in P: \E n \in 1..Len(plan): plan[n] = Job("write", Sidecar(p))
          /\ \A p \in PlatformSet \ P: \A o \in {Archive(p), Sidecar(p)}:
                \E n \in 1..Len(plan): plan[n] = Job("remove", o)
          /\ plan # <<>>
          /\ \A p \in P: Head(plan) # Job("write", Sidecar(p))
      BY <2>1, PlanSettles
    <3>2. js = plan
      BY <2>2
    <3> HIDE DEF plan
    <3> QED BY <3>1, <3>2
  <2>4. Left' = {js[n]: n \in 1..Len(js)}
    BY DEF Left
  <2>5. PairsDone'
    <3>1. \A p \in P: Job("write", Sidecar(p)) \in Left'
      BY <2>3, <2>4
    <3>2. \A p \in PlatformSet \ P: \A o \in {Archive(p), Sidecar(p)}: Job("remove", o) \in Left'
      BY <2>3, <2>4
    <3> QED BY <3>1, <3>2, <2>1 DEF PairsDone
  <2>6. ArchiveReady'
    BY <2>1, <2>3 DEF ArchiveReady
  <2>7. ContentInv'
    BY <1>2 DEF ContentInv
  <2>8. (litter = found)' /\ DOMAIN lines' = {}
    BY DEF Start, NoLines, litter
  <2>9. SuccessIsRelease'
    BY <1>2 DEF SuccessIsRelease
  <2>10. (WellOrdered(jobs, packages))'
    BY <2>1, <2>3 DEF WellOrdered
  <2> QED
    BY <2>1, <2>3, <2>5, <2>6, <2>7, <2>8, <2>9, <2>10 DEF RunInv
<1>3. pc' = "failed" \/ pc' = "next"
  BY DEF Start
<1> QED BY <1>1, <1>2, <1>3

\* A live run with jobs left: what the other lemmas keep citing.
LEMMA LiveFacts ==
    ASSUME FullInv, pc \in Live
    PROVE  /\ jobs \in Seq(JobSet) /\ DOMAIN disk = Outputs
           /\ litter = found /\ packages \subseteq PlatformSet /\ DOMAIN lines \subseteq packages
           /\ WellOrdered(jobs, packages) /\ PairsDone /\ ArchiveReady /\ ContentInv
           /\ (jobs = <<>> => disk[Checksums] = lines)
           /\ (pc # "next" => jobs # <<>>)
<1>1. pc # "next" => pc \in Writing
  BY DEF Live, Writing
<1> QED BY <1>1 DEF FullInv, RunInv, PackInv, JobsTyped

\* The content of an output is fixed before anything is written.
LEMMA PrepareKeepsRun == FullInv /\ Prepare => RunInv'
<1> SUFFICES ASSUME FullInv, Prepare PROVE RunInv'
  OBVIOUS
<1>1. CASE pc' = "failed"
  BY <1>1, FailurePromisesNothing DEF Failed, Live
<1>2. CASE content' \in Sources /\ pc' = "create" /\ NoFault
  <2>1. pc \in Live /\ pc' \in Live /\ jobs # <<>> /\ Head(jobs).do = "write"
    BY <1>2 DEF Prepare, UpNext, Live
  <2>2. UNCHANGED <<disk, litter, packages, jobs, lines, found>>
    BY <1>2 DEF Prepare, NoFault
  <2>3. WellOrdered(jobs, packages)' /\ PairsDone' /\ ArchiveReady' /\ (jobs # <<>>)'
    BY <2>1, <2>2, LiveFacts DEF WellOrdered, PairsDone, Left, ArchiveReady
  <2>4. ContentInv'
    <3>1. Out' = Out /\ Head(jobs') = Head(jobs)
      BY <2>2 DEF Out
    <3>2. \A p: Archive(p)[1] = "archive" /\ Archive(p)[2] = p /\ Sidecar(p)[1] # "archive" /\ Sidecar(p)[2] = p
      BY DEF Archive, Sidecar
    <3>3. Out = Checksums => content' = lines
      BY <1>2 DEF Sources
    <3>4. ASSUME NEW p \in packages, Out = Archive(p) PROVE \E b \in Builds: content' = Made(p, b)
      BY <1>2, <3>2, <3>4, OutputsDiffer DEF Sources
    <3>5. ASSUME NEW p \in packages, Out = Sidecar(p) PROVE content' = disk[Archive(p)]
      BY <1>2, <3>2, <3>5, OutputsDiffer DEF Sources
    <3> QED BY <1>2, <2>1, <2>2, <3>1, <3>3, <3>4, <3>5 DEF ContentInv
  <2>5. litter' = found' /\ packages' \subseteq PlatformSet /\ DOMAIN lines' \subseteq packages'
    BY <2>1, <2>2, LiveFacts
  <2> QED BY <1>2, <2>3, <2>4, <2>5 DEF RunInv, SuccessIsRelease
<1> QED BY <1>1, <1>2 DEF Prepare

\* A removal settles one output of an absent platform and touches no other.
LEMMA RemovalKeepsRun == FullInv /\ RemoveStale => RunInv'
<1> SUFFICES ASSUME FullInv, RemoveStale PROVE RunInv'
  OBVIOUS
<1>1. CASE pc' = "failed"
  BY <1>1, FailurePromisesNothing DEF Failed, Live
<1>2. CASE pc' # "failed"
  <2>1. pc = "next" /\ pc' = "next" /\ jobs # <<>> /\ Head(jobs).do = "remove"
    BY <1>2 DEF RemoveStale, UpNext
  <2>2. /\ jobs' = Tail(jobs) /\ UNCHANGED <<litter, packages, lines, found>>
        /\ \/ disk[Out] \in {Missing, Directory} /\ disk' = disk
           \/ disk' = [disk EXCEPT ![Out] = Missing]
    BY <1>2 DEF RemoveStale, NoFault
  <2>3. pc \in Live /\ pc' \in Live
    BY <2>1 DEF Live
  <2>15. /\ jobs \in Seq(JobSet) /\ DOMAIN disk = Outputs
         /\ litter = found /\ packages \subseteq PlatformSet /\ DOMAIN lines \subseteq packages
         /\ WellOrdered(jobs, packages) /\ PairsDone
    BY <2>3, LiveFacts
  <2> USE <2>15
  <2>4. PICK q \in PlatformSet \ packages, x \in Outputs:
           /\ x \in {Archive(q), Sidecar(q)}
           /\ Len(jobs) > 1 /\ Head(jobs) = Job("remove", x)
    <3>1. \A p \in PlatformSet: Archive(p) \in Outputs /\ Sidecar(p) \in Outputs
      BY DEF Outputs, PerPlatform
    <3>2. \/ Head(jobs) = LastJob
          \/ \E p \in packages: Head(jobs) = Job("write", Archive(p))
          \/ \E p \in packages: Head(jobs) = Job("write", Sidecar(p))
          \/ /\ Len(jobs) > 1
             /\ \E p \in PlatformSet \ packages: \E o \in {Archive(p), Sidecar(p)}:
                   Head(jobs) = Job("remove", o)
      BY <2>1, FirstOfPlan
    <3>3. \A o: Job("write", o).do # "remove" /\ LastJob.do # "remove"
      BY DEF Job, LastJob
    <3> QED BY <2>1, <3>1, <3>2, <3>3
  <2>5. Out = x
    BY <2>4 DEF Out, Job
  <2>6. \A o \in Outputs: o # x => disk'[o] = disk[o]
    BY <2>2, <2>5
  <2>7. disk'[x] \in {Missing, Directory}
    <3>1. x \in Outputs
      BY <2>4 DEF Outputs, PerPlatform
    <3> QED BY <2>2, <2>5, <3>1
  <2>8. \A j \in Left: j = Job("remove", x) \/ j \in Left'
    BY <2>1, <2>2, <2>4, LeftAfter
  <2>9. PairsDone'
    <3>1. ASSUME NEW p \in packages
          PROVE  Job("write", Sidecar(p)) \in Left' \/
                     /\ p \in DOMAIN lines
                     /\ disk'[Archive(p)] = Made(p, lines[p])
                     /\ disk'[Sidecar(p)] = disk'[Archive(p)]
      <4>1. Archive(p) # x /\ Sidecar(p) # x
        BY <2>4, OutputsDiffer
      <4>2. Archive(p) \in Outputs /\ Sidecar(p) \in Outputs
        BY DEF Outputs, PerPlatform
      <4>3. disk'[Archive(p)] = disk[Archive(p)] /\ disk'[Sidecar(p)] = disk[Sidecar(p)]
        BY <2>6, <4>1, <4>2
      <4>4. Job("write", Sidecar(p)) # Job("remove", x)
        BY DEF Job
      <4>5. \/ Job("write", Sidecar(p)) \in Left
            \/ p \in DOMAIN lines /\ disk[Archive(p)] = Made(p, lines[p]) /\ disk[Sidecar(p)] = disk[Archive(p)]
        BY DEF PairsDone
      <4> QED BY <2>8, <4>3, <4>4, <4>5
    <3>2. ASSUME NEW p \in PlatformSet \ packages, NEW o \in {Archive(p), Sidecar(p)}
          PROVE  Job("remove", o) \in Left' \/ disk'[o] \in {Missing, Directory}
      <4>1. o \in Outputs
        BY DEF Outputs, PerPlatform
      <4>2. Job("remove", o) = Job("remove", x) => o = x
        BY DEF Job
      <4>3. Job("remove", o) \in Left \/ disk[o] \in {Missing, Directory}
        BY DEF PairsDone
      <4> QED BY <2>6, <2>7, <2>8, <4>1, <4>2, <4>3
    <3> QED BY <2>2, <3>1, <3>2 DEF PairsDone
  <2>10. WellOrdered(jobs', packages') /\ jobs' # <<>>
    <3>1. WellOrdered(Tail(jobs), packages)
      BY <2>1, TailOrdered
    <3>2. Tail(jobs) # <<>>
      BY <2>4, SecondJob
    <3> QED BY <2>2, <3>1, <3>2
  <2>11. ArchiveReady'
    <3>1. Head(jobs') = jobs[2]
      BY <2>2, <2>4, SecondJob
    <3>2. ASSUME NEW p \in packages, jobs[2] = Job("write", Sidecar(p)) PROVE FALSE
      BY <2>4, <3>2, SidecarFollows DEF Job
    <3> QED BY <2>2, <3>1, <3>2 DEF ArchiveReady
  <2>12. litter' = found' /\ packages' \subseteq PlatformSet /\ DOMAIN lines' \subseteq packages'
    BY <2>2
  <2>13. (WellOrdered(jobs, packages))'
    BY <2>10 DEF WellOrdered
  <2>14. ContentInv' /\ SuccessIsRelease'
    BY <2>1 DEF ContentInv, SuccessIsRelease
  <2> QED BY <2>9, <2>10, <2>11, <2>12, <2>13, <2>14 DEF RunInv
<1> QED BY <1>1, <1>2

\* While an output is being written, whatever is put at its destination leaves
\* what is settled settled: its own promise is still owed.
LEMMA WritingKeepsPromises ==
    ASSUME FullInv, pc \in Live \ {"next"}, UNCHANGED <<packages, lines, jobs>>,
           NEW x, disk' \in {disk, [disk EXCEPT ![Out] = x]}
    PROVE  PairsDone' /\ ArchiveReady'
<1>0. \A p \in PlatformSet: Archive(p) \in Outputs /\ Sidecar(p) \in Outputs
  BY DEF Outputs, PerPlatform
<1>1. /\ jobs \in Seq(JobSet) /\ jobs # <<>> /\ DOMAIN disk = Outputs /\ packages \subseteq PlatformSet
      /\ WellOrdered(jobs, packages) /\ PairsDone /\ ArchiveReady /\ ContentInv
  BY LiveFacts
<1>2. Head(jobs).do = "write"
  BY <1>1 DEF ContentInv
<1>3. \A o \in Outputs: o # Out => disk'[o] = disk[o]
  BY <1>1
<1>4. Left' = Left
  BY DEF Left
<1>5. \A j \in {Head(jobs)} \cup (IF Len(jobs) > 1 THEN {jobs[2]} ELSE {}): j \in Left
  <2>1. Head(jobs) = jobs[1] /\ 1 \in 1..Len(jobs) /\ (Len(jobs) > 1 => 2 \in 1..Len(jobs))
    BY <1>1
  <2> QED BY <2>1 DEF Left
<1>6. ASSUME NEW p \in packages, Out \in {Archive(p), Sidecar(p)}
      PROVE  Job("write", Sidecar(p)) \in Left
  <2>1. \A o: Job("remove", o).do # "write"
    BY DEF Job
  <2>2. Head(jobs).out = Out
    BY DEF Out
  <2>3. CASE Len(jobs) = 1 /\ Head(jobs) = LastJob
    BY <1>6, <2>2, <2>3, OutputsDiffer DEF LastJob, Job
  <2>4. ASSUME Len(jobs) > 1, NEW q \in packages,
               Head(jobs) = Job("write", Archive(q)), jobs[2] = Job("write", Sidecar(q))
        PROVE  Job("write", Sidecar(p)) \in Left
    <3>1. Out = Archive(q)
      BY <2>2, <2>4 DEF Job
    <3>2. p = q
      BY <1>6, <3>1, OutputsDiffer
    <3> QED BY <1>5, <2>4, <3>2
  <2>5. ASSUME NEW q \in packages, Head(jobs) = Job("write", Sidecar(q))
        PROVE  Job("write", Sidecar(p)) \in Left
    <3>1. Out = Sidecar(q)
      BY <2>2, <2>5 DEF Job
    <3>2. p = q
      BY <1>6, <3>1, OutputsDiffer
    <3> QED BY <1>5, <2>5, <3>2
  <2>6. \/ Len(jobs) = 1 /\ Head(jobs) = LastJob
        \/ /\ Len(jobs) > 1
           /\ \E q \in packages: Head(jobs) = Job("write", Archive(q)) /\ jobs[2] = Job("write", Sidecar(q))
        \/ \E q \in packages: Head(jobs) = Job("write", Sidecar(q))
        \/ \E q \in PlatformSet \ packages: \E o \in {Archive(q), Sidecar(q)}: Head(jobs) = Job("remove", o)
    BY <1>1, FirstOfPlan
  <2> QED BY <1>2, <2>1, <2>3, <2>4, <2>5, <2>6
<1>7. ASSUME NEW p \in PlatformSet \ packages PROVE Out \notin {Archive(p), Sidecar(p)}
  <2>1. Head(jobs).out = Out
    BY DEF Out
  <2>2. \/ Head(jobs) = LastJob
        \/ \E q \in packages: Head(jobs) = Job("write", Archive(q))
        \/ \E q \in packages: Head(jobs) = Job("write", Sidecar(q))
        \/ \E q \in PlatformSet \ packages: \E o \in {Archive(q), Sidecar(q)}: Head(jobs) = Job("remove", o)
    BY <1>1, FirstOfPlan
  <2>3. \/ Out = Checksums
        \/ \E q \in packages: Out = Archive(q)
        \/ \E q \in packages: Out = Sidecar(q)
    BY <1>2, <2>1, <2>2 DEF LastJob, Job
  <2> QED BY <2>3, OutputsDiffer
<1>8. PairsDone'
  <2>1. ASSUME NEW p \in packages
        PROVE  Job("write", Sidecar(p)) \in Left \/
                   /\ p \in DOMAIN lines
                   /\ disk'[Archive(p)] = Made(p, lines[p])
                   /\ disk'[Sidecar(p)] = disk'[Archive(p)]
    BY <1>0, <1>1, <1>3, <1>6 DEF PairsDone
  <2>2. ASSUME NEW p \in PlatformSet \ packages, NEW o \in {Archive(p), Sidecar(p)}
        PROVE  Job("remove", o) \in Left \/ disk'[o] \in {Missing, Directory}
    BY <1>0, <1>1, <1>3, <1>7 DEF PairsDone
  <2> QED BY <1>4, <2>1, <2>2 DEF PairsDone
<1>9. ArchiveReady'
  <2> SUFFICES ASSUME NEW p \in packages, Head(jobs) = Job("write", Sidecar(p))
               PROVE  \E b \in Builds: disk'[Archive(p)] = Made(p, b)
    BY DEF ArchiveReady
  <2>1. Out # Archive(p)
    BY OutputsDiffer DEF Out, Job
  <2> QED BY <1>0, <1>1, <1>3, <2>1 DEF ArchiveReady
<1> QED BY <1>8, <1>9

\* An output put in place completes its job.
LEMMA FinishKeepsRun ==
    ASSUME FullInv, pc \in Live \ {"next"}, Installed, NoFault, UNCHANGED litter,
           disk'[Out] = content, \A o \in Outputs: o # Out => disk'[o] = disk[o]
    PROVE  RunInv'
<1>0. \A p \in PlatformSet: Archive(p) \in Outputs /\ Sidecar(p) \in Outputs
  BY DEF Outputs, PerPlatform
<1>1. /\ jobs \in Seq(JobSet) /\ jobs # <<>> /\ DOMAIN disk = Outputs /\ packages \subseteq PlatformSet
      /\ litter = found /\ DOMAIN lines \subseteq packages
      /\ WellOrdered(jobs, packages) /\ PairsDone /\ ArchiveReady /\ ContentInv
  BY LiveFacts
<1>2. /\ jobs' = Tail(jobs) /\ pc' = "next" /\ UNCHANGED <<packages, found>>
      /\ lines' = IF Out # Checksums /\ Out[1] = "sidecar" THEN Merged(content, lines) ELSE lines
  BY DEF Installed, NoFault
<1>3. Head(jobs).do = "write" /\ Head(jobs).out = Out /\ Out \in Outputs
  BY <1>1, FirstJob DEF ContentInv, Out
<1>4. \A j \in Left: j = Head(jobs) \/ j \in Left'
  BY <1>1, <1>2, LeftAfter
<1>5. \A o \in Outputs: o # Out => disk'[o] = disk[o]
  BY <1>1
<1>6. disk'[Out] = content
  BY <1>1, <1>3
<1>7. (WellOrdered(jobs, packages))'
  <2>1. WellOrdered(Tail(jobs), packages)
    BY <1>1, TailOrdered
  <2> QED BY <1>2, <2>1 DEF WellOrdered
<1>8. \A p: Sidecar(p)[1] = "sidecar" /\ Archive(p)[1] # "sidecar"
  BY DEF Sidecar, Archive
<1>9. \A j \in Left: j.do = "remove" => j \in Left'
  BY <1>3, <1>4
<1>10. ASSUME NEW p \in PlatformSet \ packages, NEW o \in {Archive(p), Sidecar(p)}, o # Out
       PROVE  Job("remove", o) \in Left' \/ disk'[o] \in {Missing, Directory}
  <2>1. Job("remove", o).do = "remove"
    BY DEF Job
  <2> QED BY <1>0, <1>1, <1>5, <1>9, <1>10, <2>1 DEF PairsDone
<1>11. ContentInv' /\ SuccessIsRelease'
  BY <1>2 DEF ContentInv, SuccessIsRelease
<1>12. litter' = found' /\ packages' \subseteq PlatformSet
  BY <1>1, <1>2
<1>13. CASE Len(jobs) = 1 /\ Head(jobs) = LastJob
  <2>1. Out = Checksums /\ content = lines /\ lines' = lines
    BY <1>1, <1>2, <1>3, <1>13 DEF LastJob, Job, ContentInv
  <2>2. PairsDone'
    <3>1. ASSUME NEW p \in packages
          PROVE  Job("write", Sidecar(p)) \in Left' \/
                     /\ p \in DOMAIN lines
                     /\ disk'[Archive(p)] = Made(p, lines[p])
                     /\ disk'[Sidecar(p)] = disk'[Archive(p)]
      <4>1. Job("write", Sidecar(p)) # Head(jobs) /\ Archive(p) # Out /\ Sidecar(p) # Out
        BY <1>13, <2>1, OutputsDiffer DEF LastJob, Job
      <4> QED BY <1>1, <1>4, <1>0, <1>5, <4>1 DEF PairsDone
    <3>2. \A p: Archive(p) # Out /\ Sidecar(p) # Out
      BY <2>1, OutputsDiffer
    <3> QED BY <1>2, <1>10, <2>1, <3>1, <3>2 DEF PairsDone
  <2>3. ArchiveReady' /\ disk'[Checksums] = lines'
    <3>1. jobs' = <<>>
      BY <1>1, <1>2, <1>13
    <3> QED BY <1>6, <2>1, <3>1 DEF ArchiveReady
  <2> QED BY <1>1, <1>2, <1>7, <1>11, <1>12, <2>1, <2>2, <2>3 DEF RunInv
<1>14. ASSUME Len(jobs) > 1, NEW q \in packages,
              Head(jobs) = Job("write", Archive(q)), jobs[2] = Job("write", Sidecar(q))
       PROVE  RunInv'
  <2>1. Out = Archive(q) /\ lines' = lines
    BY <1>2, <1>3, <1>8, <1>14, OutputsDiffer DEF Job
  <2>2. PairsDone'
    <3>1. ASSUME NEW p \in packages
          PROVE  Job("write", Sidecar(p)) \in Left' \/
                     /\ p \in DOMAIN lines
                     /\ disk'[Archive(p)] = Made(p, lines[p])
                     /\ disk'[Sidecar(p)] = disk'[Archive(p)]
      <4>1. Job("write", Sidecar(p)) # Head(jobs)
        BY <1>14, OutputsDiffer DEF Job
      <4>2. CASE p = q
        <5>1. jobs[2] \in Left
          <6>1. 2 \in 1..Len(jobs)
            BY <1>1, <1>14
          <6> QED BY <6>1 DEF Left
        <5> QED BY <1>4, <1>14, <4>1, <4>2, <5>1
      <4>3. CASE p # q
        <5>1. Archive(p) # Out /\ Sidecar(p) # Out
          BY <2>1, <4>3, OutputsDiffer
        <5> QED BY <1>1, <1>0, <1>4, <1>5, <4>1, <5>1 DEF PairsDone
      <4> QED BY <4>2, <4>3
    <3>2. \A p \in PlatformSet \ packages: Archive(p) # Out /\ Sidecar(p) # Out
      BY <2>1, OutputsDiffer
    <3> QED BY <1>2, <1>10, <2>1, <3>1, <3>2 DEF PairsDone
  <2>3. jobs' # <<>> /\ Head(jobs') = jobs[2]
    BY <1>1, <1>2, <1>14, SecondJob
  <2>4. ArchiveReady'
    <3> SUFFICES ASSUME NEW p \in packages, jobs[2] = Job("write", Sidecar(p))
                 PROVE  \E b \in Builds: disk'[Archive(p)] = Made(p, b)
      BY <1>2, <2>3 DEF ArchiveReady
    <3>1. p = q
      BY <1>14, OutputsDiffer DEF Job
    <3> QED BY <1>1, <1>6, <2>1, <3>1 DEF ContentInv
  <2> QED BY <1>1, <1>2, <1>7, <1>11, <1>12, <2>1, <2>2, <2>3, <2>4 DEF RunInv
<1>15. ASSUME Len(jobs) > 1, NEW q \in packages, Head(jobs) = Job("write", Sidecar(q))
       PROVE  RunInv'
  <2>1. Out = Sidecar(q) /\ lines' = Merged(content, lines) /\ content = disk[Archive(q)]
    <3>1. Out = Sidecar(q)
      BY <1>3, <1>15 DEF Job
    <3>2. content = disk[Archive(q)]
      BY <1>1, <3>1 DEF ContentInv
    <3> QED BY <1>2, <1>8, <3>1, <3>2, OutputsDiffer
  <2>2. PICK b \in Builds: disk[Archive(q)] = Made(q, b)
    BY <1>1, <1>15 DEF ArchiveReady
  <2>3. /\ DOMAIN lines' = DOMAIN lines \cup {q}
        /\ lines'[q] = b
        /\ \A p \in DOMAIN lines: p # q => lines'[p] = lines[p]
    <3>1. DOMAIN content = {q} /\ content[q] = b
      BY <2>1, <2>2 DEF Made
    <3>2. lines' = [x \in DOMAIN content \cup DOMAIN lines |->
                       IF x \in DOMAIN content THEN content[x] ELSE lines[x]]
      BY <2>1 DEF Merged
    <3> QED BY <3>1, <3>2
  <2>4. PairsDone'
    <3>1. ASSUME NEW p \in packages
          PROVE  Job("write", Sidecar(p)) \in Left' \/
                     /\ p \in DOMAIN lines'
                     /\ disk'[Archive(p)] = Made(p, lines'[p])
                     /\ disk'[Sidecar(p)] = disk'[Archive(p)]
      <4>1. CASE p = q
        <5>1. disk'[Archive(q)] = disk[Archive(q)]
          BY <1>0, <1>1, <1>5, <2>1, OutputsDiffer
        <5> QED BY <1>6, <2>1, <2>2, <2>3, <4>1, <5>1
      <4>2. CASE p # q
        <5>1. Archive(p) # Out /\ Sidecar(p) # Out /\ Job("write", Sidecar(p)) # Head(jobs)
          BY <1>15, <2>1, <4>2, OutputsDiffer DEF Job
        <5>2. disk'[Archive(p)] = disk[Archive(p)] /\ disk'[Sidecar(p)] = disk[Sidecar(p)]
          BY <1>0, <1>1, <1>5, <5>1
        <5>3. \/ Job("write", Sidecar(p)) \in Left
              \/ p \in DOMAIN lines /\ disk[Archive(p)] = Made(p, lines[p]) /\ disk[Sidecar(p)] = disk[Archive(p)]
          BY <1>1 DEF PairsDone
        <5> QED BY <1>4, <2>3, <4>2, <5>1, <5>2, <5>3
      <4> QED BY <4>1, <4>2
    <3>2. \A p \in PlatformSet \ packages: Archive(p) # Out /\ Sidecar(p) # Out
      BY <2>1, OutputsDiffer
    <3> QED BY <1>2, <1>10, <3>1, <3>2 DEF PairsDone
  <2>5. jobs' # <<>> /\ Head(jobs') = jobs[2]
    BY <1>1, <1>2, <1>15, SecondJob
  <2>6. ArchiveReady'
    <3>1. ASSUME NEW p \in packages, jobs[2] = Job("write", Sidecar(p)) PROVE FALSE
      <4>1. Head(jobs) = Job("write", Archive(p))
        BY <1>1, <1>15, <3>1, SidecarFollows
      <4> QED BY <1>15, <4>1, OutputsDiffer DEF Job
    <3> QED BY <1>2, <2>5, <3>1 DEF ArchiveReady
  <2>7. DOMAIN lines' \subseteq packages'
    BY <1>1, <1>2, <2>3
  <2> QED BY <1>2, <1>7, <1>11, <1>12, <2>4, <2>5, <2>6, <2>7 DEF RunInv
<1>16. \/ Len(jobs) = 1 /\ Head(jobs) = LastJob
       \/ /\ Len(jobs) > 1
          /\ \/ \E q \in packages: Head(jobs) = Job("write", Archive(q)) /\ jobs[2] = Job("write", Sidecar(q))
             \/ \E q \in packages: Head(jobs) = Job("write", Sidecar(q))
       \/ \E q \in PlatformSet \ packages: \E o \in {Archive(q), Sidecar(q)}: Head(jobs) = Job("remove", o)
  BY <1>1, FirstOfPlan
<1>17. \A o: Job("remove", o).do # "write"
  BY DEF Job
<1> QED BY <1>3, <1>13, <1>14, <1>15, <1>16, <1>17

\* The steps of a write that do not complete it.
LEMMA WriteKeepsRun ==
    ASSUME FullInv, CreateTemp \/ InstallNew \/ RejectDirectory \/ MoveAside \/ Install
    PROVE  RunInv'
<1>1. CASE pc' \in {"failed", "cleanup", "rollback"}
  BY <1>1, FailurePromisesNothing DEF Failed, Live
<1>2. ASSUME pc \in Live \ {"next"}, pc' \in Live \ {"next"},
             UNCHANGED <<packages, lines, jobs, content, litter>>, NoFault,
             NEW x, disk' \in {disk, [disk EXCEPT ![Out] = x]},
             pc' \in {"replace", "install"} => temp' = content,
             pc' = "drop" => disk'[Out] = content,
             \A p \in packages: Out = Sidecar(p) => disk'[Archive(p)] = disk[Archive(p)]
      PROVE  RunInv'
  <2>1. /\ litter = found /\ packages \subseteq PlatformSet /\ DOMAIN lines \subseteq packages
        /\ WellOrdered(jobs, packages) /\ ContentInv /\ jobs # <<>>
    BY <1>2, LiveFacts
  <2>2. PairsDone' /\ ArchiveReady'
    BY <1>2, WritingKeepsPromises
  <2>3. Out' = Out /\ Head(jobs') = Head(jobs)
    BY <1>2 DEF Out
  <2>4. ContentInv'
    BY <1>2, <2>1, <2>3 DEF ContentInv
  <2>5. litter' = found' /\ WellOrdered(jobs, packages)' /\ SuccessIsRelease'
    <3>1. WellOrdered(jobs, packages)'
      BY <1>2, <2>1 DEF WellOrdered
    <3>2. SuccessIsRelease'
      BY <1>2 DEF SuccessIsRelease, Live
    <3> QED BY <1>2, <2>1, <3>1, <3>2 DEF NoFault
  <2> QED BY <1>2, <2>1, <2>2, <2>4, <2>5 DEF RunInv
<1> USE DEF Live
<1>3. CASE CreateTemp /\ pc' = "replace"
  BY <1>2, <1>3 DEF CreateTemp, run, NoFault, Fault, litter
<1>4. CASE InstallNew /\ PutTemp /\ Installed /\ NoFault
  <2>1. pc \in Live \ {"next"} /\ UNCHANGED litter
    BY <1>4 DEF InstallNew
  <2>2. temp = content /\ DOMAIN disk = Outputs /\ Out \in Outputs
    BY <1>4, LiveFacts, FirstJob DEF InstallNew, ContentInv
  <2>3. disk' = [disk EXCEPT ![Out] = content]
    BY <1>4, <2>2 DEF PutTemp
  <2>4. disk'[Out] = content /\ \A o \in Outputs: o # Out => disk'[o] = disk[o]
    BY <2>2, <2>3
  <2> QED BY <1>4, <2>1, <2>4, FinishKeepsRun
<1>5. CASE MoveAside /\ pc' = "install"
  <2>1. /\ pc = "replace" /\ disk' = [disk EXCEPT ![Out] = Missing]
        /\ UNCHANGED <<temp, temps, backups, packages, jobs, content, lines>> /\ NoFault
    BY <1>5 DEF MoveAside, run
  <2>2. temp = content /\ ContentInv /\ DOMAIN disk = Outputs
    BY <2>1, LiveFacts DEF ContentInv
  <2>3. \A p: Archive(p) # Sidecar(p)
    BY OutputsDiffer
  <2>4. \A p \in packages: Out = Sidecar(p) => disk'[Archive(p)] = disk[Archive(p)]
    <3>1. \A p \in packages: Archive(p) \in Outputs
      BY <2>1, LiveFacts DEF Outputs, PerPlatform
    <3> QED BY <2>1, <2>2, <2>3, <3>1
  <2>5. /\ pc \in Live \ {"next"} /\ pc' \in Live \ {"next"}
        /\ UNCHANGED <<packages, lines, jobs, content, litter>> /\ NoFault
        /\ disk' \in {disk, [disk EXCEPT ![Out] = Missing]}
        /\ temp' = content /\ pc' # "drop"
    BY <1>5, <2>1, <2>2 DEF litter
  <2> QED BY <1>2, <2>4, <2>5
<1>6. CASE Install /\ pc' = "drop"
  <2>1. /\ pc = "install" /\ disk' = [disk EXCEPT ![Out] = temp]
        /\ UNCHANGED <<backup, temps, backups, packages, jobs, content, lines>> /\ NoFault
    BY <1>6 DEF Install, PutTemp, run, litter
  <2>2. temp = content /\ ContentInv /\ DOMAIN disk = Outputs /\ jobs \in Seq(JobSet) /\ jobs # <<>>
    BY <2>1, LiveFacts DEF ContentInv
  <2>3. \A p: Archive(p) # Sidecar(p)
    BY OutputsDiffer
  <2>4. \A p \in packages: Out = Sidecar(p) => disk'[Archive(p)] = disk[Archive(p)]
    <3>1. \A p \in packages: Archive(p) \in Outputs
      BY <2>1, LiveFacts DEF Outputs, PerPlatform
    <3> QED BY <2>1, <2>2, <2>3, <3>1
  <2>5. disk'[Out] = content
    BY <2>1, <2>2, FirstJob
  <2>6. /\ pc \in Live \ {"next"} /\ pc' \in Live \ {"next"}
        /\ UNCHANGED <<packages, lines, jobs, content, litter>> /\ NoFault
        /\ disk' \in {disk, [disk EXCEPT ![Out] = temp]}
        /\ pc' = "drop"
    BY <1>6, <2>1 DEF litter
  <2> QED BY <1>2, <2>4, <2>5, <2>6
<1>7. CASE RejectDirectory
  BY <1>1, <1>7 DEF RejectDirectory
<1> QED
  BY <1>1, <1>3, <1>4, <1>5, <1>6, <1>7 DEF CreateTemp, InstallNew, MoveAside, Install

\* A dropped backup completes the write of an output that was replaced.
LEMMA DropKeepsRun == ASSUME FullInv, DropBackup PROVE RunInv'
<1>1. CASE pc' = "failed"
  BY <1>1, FailurePromisesNothing DEF Failed, Live
<1>2. CASE Installed /\ NoFault /\ UNCHANGED backups
  <2>1. pc = "drop" /\ UNCHANGED <<disk, litter>>
    BY <1>2 DEF DropBackup, litter
  <2>2. pc \in Live \ {"next"} /\ disk[Out] = content /\ DOMAIN disk = Outputs
    BY <2>1, LiveFacts DEF ContentInv, Live
  <2> QED BY <1>2, <2>1, <2>2, FinishKeepsRun
<1> QED BY <1>1, <1>2 DEF DropBackup, DropFails

\* Without a job left every promise is kept, and the aggregate lists them all.
LEMMA SucceedKeepsRun == ASSUME FullInv, Succeed PROVE RunInv'
<1>1. pc = "next" /\ jobs = <<>> /\ pc' = "ok" /\ UNCHANGED <<disk, litter, packages, found>>
  BY DEF Succeed, run, history
<1>2. /\ litter = found /\ packages \subseteq PlatformSet /\ DOMAIN lines \subseteq packages
      /\ PairsDone /\ disk[Checksums] = lines
  BY <1>1, LiveFacts DEF Live
<1>3. Left = {}
  <2>1. Len(jobs) = 0
    BY <1>1
  <2> QED BY <2>1 DEF Left
<1>4. DOMAIN lines = packages
  BY <1>2, <1>3 DEF PairsDone
<1>5. lines \notin {Missing, Directory}
  <2>1. "file" \notin PlatformSet
    BY PackagerAssumption DEF PlatformSet
  <2>2. "file" \in DOMAIN Missing /\ "file" \in DOMAIN Directory
    BY DEF Missing, Directory
  <2> QED BY <1>2, <1>4, <2>1, <2>2
<1>6. IsRelease(disk)
  BY <1>2, <1>3, <1>4, <1>5 DEF IsRelease, PairsDone
<1>7. IsRelease(disk)'
  BY <1>1, <1>6 DEF IsRelease
<1> QED BY <1>1, <1>2, <1>7 DEF RunInv, SuccessIsRelease, Live

\* No run is in progress at first, and every step of one keeps its promises.
LEMMA FullStep == FullInv /\ [Next]_vars => FullInv'
<1> SUFFICES ASSUME FullInv, [Next]_vars PROVE FullInv'
  OBVIOUS
<1>1. PackInv'
  BY PackStep DEF FullInv
<1>2. RunInv'
  <2>1. CASE UNCHANGED vars
    <3>1. UNCHANGED <<disk, temp, temps, backups, packages, jobs, content, lines, found, pc>>
      BY <2>1 DEF vars, litter, run, history
    <3>2. Out' = Out /\ Left' = Left /\ litter' = litter
      BY <3>1 DEF Out, Left, litter
    <3>3. PairsDone' = PairsDone /\ ArchiveReady' = ArchiveReady /\ ContentInv' = ContentInv
      BY <3>1, <3>2 DEF PairsDone, ArchiveReady, ContentInv
    <3>4. WellOrdered(jobs, packages)' = WellOrdered(jobs, packages)
      BY <3>1 DEF WellOrdered
    <3>5. SuccessIsRelease' = SuccessIsRelease
      BY <3>1, <3>2 DEF SuccessIsRelease, IsRelease
    <3> QED BY <3>1, <3>2, <3>3, <3>4, <3>5 DEF FullInv, RunInv
  <2>2. CASE Rollback \/ Cleanup \/ Crash
    <3>1. pc' \in {"cleanup", "failed", "idle"}
      BY <2>2 DEF Rollback, Cleanup, Crash
    <3> QED BY <3>1, FailurePromisesNothing DEF Failed, Live
  <2> QED
    BY <2>1, <2>2, RunStarts, PrepareKeepsRun, RemovalKeepsRun, WriteKeepsRun,
       DropKeepsRun, SucceedKeepsRun DEF Next
<1> QED BY <1>1, <1>2 DEF FullInv

\* At first no run is in progress.
LEMMA FullStart == Init => FullInv
<1>1. Init => RunInv
  BY DEF Init, RunInv, SuccessIsRelease, Live
<1> QED BY <1>1, PackStart DEF FullInv

\* A run that reports success leaves a release on disk, whatever earlier runs
\* have left there, and no litter of its own.
THEOREM SuccessLeavesRelease == Spec => []SuccessIsRelease
<1>1. FullInv => SuccessIsRelease
  BY DEF FullInv, RunInv
<1> QED BY FullStart, FullStep, <1>1, PTL DEF Spec

\* checksums.txt is installed when every output it describes is in place, and
\* is not touched otherwise.
THEOREM AggregateComesLast == Spec => AggregateIsLast
<1>1. ASSUME FullInv, [Next]_vars
      PROVE  [last'[Checksums] # last[Checksums] => IsRelease(disk')]_vars
  <2> SUFFICES ASSUME last'[Checksums] # last[Checksums] PROVE IsRelease(disk')
    OBVIOUS
  <2>1. \/ PutTemp /\ (InstallNew \/ Install)
        \/ RemoveStale /\ last' = [last EXCEPT ![Out] = Missing]
    BY <1>1 DEF vars, history, Next, Start, Prepare, RemoveStale, Succeed, CreateTemp, InstallNew,
                RejectDirectory, MoveAside, Install, Rollback, DropBackup, Cleanup, Crash
  <2>2. pc \in Live
    BY <2>1 DEF Live, InstallNew, Install, RemoveStale, UpNext
  <2>3. /\ jobs \in Seq(JobSet) /\ DOMAIN disk = Outputs /\ packages \subseteq PlatformSet
        /\ DOMAIN lines \subseteq packages /\ WellOrdered(jobs, packages) /\ PairsDone /\ ContentInv
    BY <1>1, <2>2, LiveFacts
  <2>4. DOMAIN last = Outputs /\ Checksums \in Outputs
    BY <1>1 DEF FullInv, PackInv, JobsTyped, Outputs
  <2>5. jobs # <<>>
    BY <1>1, <2>1, <2>2, LiveFacts DEF InstallNew, Install, RemoveStale, UpNext
  <2>6. Out = Checksums
    BY <2>1, <2>4 DEF PutTemp
  <2>7. \/ Len(jobs) = 1 /\ Head(jobs) = LastJob
        \/ \E q: Head(jobs) = Job("write", Archive(q))
        \/ \E q: Head(jobs) = Job("write", Sidecar(q))
        \/ \E q: \E o \in {Archive(q), Sidecar(q)}: Head(jobs) = Job("remove", o)
    BY <2>3, <2>5, FirstOfPlan
  <2>8. Len(jobs) = 1 /\ Head(jobs) = LastJob
    BY <2>6, <2>7, OutputsDiffer DEF Out, Job
  <2>9. disk' = [disk EXCEPT ![Checksums] = lines]
    <3>1. Head(jobs).do = "write"
      BY <2>8 DEF LastJob, Job
    <3>2. PutTemp /\ pc \in {"replace", "install"}
      BY <2>1, <3>1 DEF RemoveStale, UpNext, InstallNew, Install
    <3>3. temp = lines
      BY <2>3, <2>6, <3>2 DEF ContentInv, Live
    <3> QED BY <2>6, <3>2, <3>3 DEF PutTemp
  <2>10. Left = {LastJob}
    <3>1. 1..Len(jobs) = {1} /\ jobs[1] = LastJob
      BY <2>3, <2>8
    <3> QED BY <3>1 DEF Left
  <2>11. \A o: Job("write", Sidecar(o)) # LastJob /\ Job("remove", o) # LastJob
    BY OutputsDiffer DEF LastJob, Job
  <2>12. DOMAIN lines = packages
    BY <2>3, <2>10, <2>11 DEF PairsDone
  <2>13. lines \notin {Missing, Directory}
    <3>1. "file" \notin PlatformSet
      BY PackagerAssumption DEF PlatformSet
    <3>2. "file" \in DOMAIN Missing /\ "file" \in DOMAIN Directory
      BY DEF Missing, Directory
    <3> QED BY <2>3, <2>12, <3>1, <3>2
  <2>14. /\ disk'[Checksums] = lines
         /\ \A p \in PlatformSet: disk'[Archive(p)] = disk[Archive(p)]
                                  /\ disk'[Sidecar(p)] = disk[Sidecar(p)]
    <3>1. \A p \in PlatformSet: Archive(p) \in Outputs /\ Sidecar(p) \in Outputs
      BY DEF Outputs, PerPlatform
    <3> QED BY <2>3, <2>4, <2>9, <3>1, OutputsDiffer
  <2> QED BY <2>3, <2>10, <2>11, <2>12, <2>13, <2>14 DEF IsRelease, PairsDone
<1> QED BY FullStart, FullStep, <1>1, PTL DEF Spec, AggregateIsLast
=============================================================================
