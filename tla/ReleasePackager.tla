-------------------------- MODULE ReleasePackager --------------------------
(***************************************************************************)
(* The aggregate mode of the release packager (package-release.go): one    *)
(* archive and one sidecar checksum per platform that has a library, the   *)
(* outputs of absent platforms removed, checksums.txt last.  Every output  *)
(* goes through a temporary file and a backup of what it replaces, in      *)
(* single renames; each of them may fail, and the process may die between  *)
(* any two.                                                                *)
(*                                                                         *)
(* A file's content is what it says about platforms: an archive or a       *)
(* sidecar of p maps p to the build it was made from, checksums.txt maps   *)
(* each of its lines.  Hashes are taken to be injective.                   *)
(***************************************************************************)
EXTENDS Naturals, Sequences, FiniteSets

CONSTANTS
    Platforms,  \* artifactSpecs, in their order: a sequence
    Builds,     \* the contents a library may have
    OldBuild,   \* the build the outputs found at first were made from
    MaxRuns,    \* bound: runs of the packager
    MaxFaults   \* bound: operations that fail and crashes, over all runs

ASSUME PackagerAssumption ==
    /\ Platforms \in Seq(STRING \ {"file"})  \* the field of Missing and Directory below
    /\ \A m, n \in 1..Len(Platforms): Platforms[m] = Platforms[n] => m = n
    /\ OldBuild \notin Builds
    /\ MaxRuns \in Nat /\ MaxFaults \in Nat

VARIABLES
    disk,       \* what is at the destination of each output
    temp,       \* the temporary file of the write in progress, or Missing
    backup,     \* the backup of the write in progress, or Missing
    temps,      \* the outputs with a temporary file no run will remove
    backups,    \* per output, the backups no run will remove
    packages,   \* the platforms the run found a library for
    jobs,       \* what is left of the run
    content,    \* the content of the output being written
    lines,      \* checksumLines
    found,      \* history: the litter the run found
    last,       \* history: what was last installed at each destination
    runs, faults,
    pc

run == <<packages, jobs, content, lines>>
litter == <<temps, backups>>
history == <<found, last, runs>>
vars == <<disk, temp, backup, litter, run, history, faults, pc>>

Missing == [file |-> "missing"]
Directory == [file |-> "directory"]
NoLines == [p \in {} |-> OldBuild]

Made(p, build) == [q \in {p} |-> build]
Merged(f, g) == [p \in DOMAIN f \cup DOMAIN g |-> IF p \in DOMAIN f THEN f[p] ELSE g[p]]

Archive(p) == <<"archive", p>>
Sidecar(p) == <<"sidecar", p>>
Checksums == <<"checksums">>
PlatformSet == {Platforms[n]: n \in 1..Len(Platforms)}
PerPlatform == {Archive(p): p \in PlatformSet} \cup {Sidecar(p): p \in PlatformSet}
Outputs == PerPlatform \cup {Checksums}
Old(o) == IF o = Checksums THEN [p \in PlatformSet |-> OldBuild] ELSE Made(o[2], OldBuild)

Init ==
    /\ \E rest \in {Missing, Directory}, kept \in SUBSET PlatformSet:
          disk = [o \in Outputs |->
              IF o = Checksums \/ o[2] \in kept THEN Old(o)
              ELSE IF o = Archive(Platforms[1]) THEN rest ELSE Missing]
    /\ temp = Missing /\ backup = Missing
    /\ temps = {} /\ backups = [o \in Outputs |-> {}]
    /\ packages = {} /\ jobs = <<>> /\ content = Missing /\ lines = NoLines
    /\ last = [o \in Outputs |-> IF disk[o] = Directory THEN Missing ELSE disk[o]]
    /\ found = litter
    /\ runs = 0 /\ faults = 0
    /\ pc = "idle"

-----------------------------------------------------------------------------
(* The run. *)

\* An operation of the file system fails, or the process dies.
Fault == faults < MaxFaults /\ faults' = faults + 1 /\ UNCHANGED <<found, runs>>
NoFault == UNCHANGED <<found, runs, faults>>

Job(do, o) == [do |-> do, out |-> o]
LastJob == Job("write", Checksums)

\* Mutants: the aggregate is written first; outputs of absent platforms stay.
AggregateFirst(writes, removals) == <<LastJob>> \o writes \o removals
NoRemovals(writes, removals) == Append(writes, LastJob)
Plan(writes, removals) == Append(writes \o removals, LastJob)

\* The chosen platforms in their order.
InOrder(chosen) ==
    {ps \in [1..Cardinality(chosen) -> chosen]:
        \A m, n \in DOMAIN ps: m < n =>
            \E i, j \in 1..Len(Platforms): i < j /\ Platforms[i] = ps[m] /\ Platforms[j] = ps[n]}

\* The jobs of the archive and the sidecar of each of the platforms.
Pairs(ps, do) ==
    [n \in 1..(2 * Len(ps)) |->
        LET p == ps[(n + 1) \div 2]
        IN  IF n % 2 = 1 THEN Job(do, Archive(p)) ELSE Job(do, Sidecar(p))]

\* The platforms with a library are looked up and the paths validated.  Nothing
\* to package or an invalid path ends the run before any output is touched.
Start ==
    /\ pc \in {"idle", "ok", "failed"} /\ runs < MaxRuns
    /\ packages' \in SUBSET PlatformSet
    /\ \E present \in InOrder(packages'), absent \in InOrder(PlatformSet \ packages'):
          jobs' = Plan(Pairs(present, "write"), Pairs(absent, "remove"))
    /\ lines' = NoLines /\ content' = Missing
    /\ pc' \in (IF packages' = {} THEN {"failed"} ELSE {"next", "failed"})
    /\ runs' = runs + 1
    /\ found' = litter
    /\ UNCHANGED <<disk, temp, backup, litter, last, faults>>

Out == Head(jobs).out
UpNext(do) == pc = "next" /\ jobs # <<>> /\ Head(jobs).do = do

\* What the next output may hold: the library as it is when it is opened, the
\* hash of the archive as it is on disk, the lines collected so far.
Sources ==
    IF Out = Checksums THEN {lines}
    ELSE IF Out[1] = "archive" THEN {Made(Out[2], b): b \in Builds}
    ELSE {disk[Archive(Out[2])]}

Prepare ==
    /\ UpNext("write")
    /\ \/ content' \in Sources /\ pc' = "create" /\ NoFault
       \/ pc' = "failed" /\ Fault /\ UNCHANGED content
    /\ UNCHANGED <<disk, temp, backup, litter, packages, jobs, lines, last>>

RemoveStale ==
    /\ UpNext("remove")
    /\ \/ /\ disk[Out] \in {Missing, Directory}
          /\ jobs' = Tail(jobs)
          /\ NoFault /\ UNCHANGED <<disk, last, pc>>
       \/ /\ disk[Out] \notin {Missing, Directory}
          /\ disk' = [disk EXCEPT ![Out] = Missing]
          /\ last' = [last EXCEPT ![Out] = Missing]
          /\ jobs' = Tail(jobs)
          /\ NoFault /\ UNCHANGED pc
       \/ pc' = "failed" /\ Fault /\ UNCHANGED <<disk, last, jobs>>
    /\ UNCHANGED <<temp, backup, litter, packages, content, lines>>

Succeed ==
    /\ pc = "next" /\ jobs = <<>>
    /\ pc' = "ok"
    /\ UNCHANGED <<disk, temp, backup, litter, run, history, faults>>

-----------------------------------------------------------------------------
(* writeOutputFile and replaceOutputFile. *)

\* The temporary file is created and written, wholly, not at all or in part.
CreateTemp ==
    /\ pc = "create"
    /\ \/ temp' = content /\ pc' = "replace" /\ NoFault
       \/ temp' = Missing /\ pc' = "failed" /\ Fault
       \/ temp' = content /\ pc' = "cleanup" /\ Fault
    /\ UNCHANGED <<disk, backup, litter, run, last>>

\* The output is at its destination: the write is done.
Installed ==
    /\ jobs' = Tail(jobs)
    /\ lines' = IF Out # Checksums /\ Out[1] = "sidecar" THEN Merged(content, lines) ELSE lines
    /\ content' = Missing
    /\ pc' = "next"
    /\ UNCHANGED packages

PutTemp ==
    /\ disk' = [disk EXCEPT ![Out] = temp]
    /\ last' = [last EXCEPT ![Out] = temp]
    /\ temp' = Missing

\* Lstat finds nothing at the destination: one rename installs the output.
InstallNew ==
    /\ pc = "replace" /\ disk[Out] = Missing
    /\ \/ PutTemp /\ Installed /\ NoFault
       \/ pc' = "cleanup" /\ Fault /\ UNCHANGED <<disk, temp, last, run>>
    /\ UNCHANGED <<backup, litter>>

\* What is not a file is not replaced.
RejectDirectory ==
    /\ pc = "replace" /\ disk[Out] = Directory
    /\ pc' = "cleanup"
    /\ UNCHANGED <<disk, temp, backup, litter, run, history, faults>>

\* Mutant: the old output is dropped, not moved.
DropOld == Missing
KeepOld == disk[Out]

\* A file is moved to a reserved backup name first.
MoveAside ==
    /\ pc = "replace" /\ disk[Out] \notin {Missing, Directory}
    /\ \/ /\ backup' = KeepOld
          /\ disk' = [disk EXCEPT ![Out] = Missing]
          /\ pc' = "install" /\ NoFault
          /\ UNCHANGED temps
       \/ pc' = "cleanup" /\ Fault /\ UNCHANGED <<backup, disk, temps>>
       \/ /\ temps' = temps \cup {Out}    \* the empty placeholder of the backup
          /\ pc' = "cleanup" /\ Fault /\ UNCHANGED <<backup, disk>>
    /\ UNCHANGED <<temp, backups, run, last>>

Install ==
    /\ pc = "install"
    /\ \/ PutTemp /\ pc' = "drop" /\ NoFault
       \/ pc' = "rollback" /\ Fault /\ UNCHANGED <<disk, temp, last>>
    /\ UNCHANGED <<backup, litter, run>>

Retained == [backups EXCEPT ![Out] = @ \cup ({backup} \ {Missing})]

\* The old output goes back, or stays where the error message says it is.
Rollback ==
    /\ pc = "rollback"
    /\ \/ disk' = [disk EXCEPT ![Out] = backup] /\ NoFault /\ UNCHANGED backups
       \/ backups' = Retained /\ Fault /\ UNCHANGED disk
    /\ backup' = Missing
    /\ pc' = "cleanup"
    /\ UNCHANGED <<temp, temps, run, last>>

\* Mutant: a backup that cannot be removed is no error.
DropIgnored == Installed
DropFails == pc' = "failed" /\ UNCHANGED run

\* A backup that cannot be removed fails the run, the new output in place.
DropBackup ==
    /\ pc = "drop"
    /\ \/ Installed /\ NoFault /\ UNCHANGED backups
       \/ DropFails /\ backups' = Retained /\ Fault
    /\ backup' = Missing
    /\ UNCHANGED <<disk, temp, temps, last>>

\* The deferred cleanup of a write that failed.
Cleanup ==
    /\ pc = "cleanup"
    /\ \/ NoFault /\ UNCHANGED temps
       \/ temps' = temps \cup {Out} /\ Fault
    /\ temp' = Missing
    /\ pc' = "failed"
    /\ UNCHANGED <<disk, backup, backups, run, last>>

\* The process dies: what it would have removed stays.
Crash ==
    /\ pc \notin {"idle", "ok", "failed"}
    /\ pc' = "idle"
    /\ temps' = IF temp # Missing THEN temps \cup {Out} ELSE temps
    /\ backups' = IF backup # Missing THEN Retained ELSE backups
    /\ temp' = Missing /\ backup' = Missing
    /\ Fault
    /\ UNCHANGED <<disk, run, last>>

Next ==
    \/ Start \/ Prepare \/ RemoveStale \/ Succeed
    \/ CreateTemp \/ InstallNew \/ RejectDirectory \/ MoveAside \/ Install
    \/ Rollback \/ DropBackup \/ Cleanup \/ Crash

Spec == Init /\ [][Next]_vars

-----------------------------------------------------------------------------
(* Properties. *)

\* Whatever fails and whenever the process dies, the last complete content of
\* every output is at its destination or in a backup beside it.
NothingLost ==
    \A o \in Outputs: last[o] # Missing =>
        disk[o] = last[o] \/ last[o] \in backups[o] \/ (backup = last[o] /\ o = Out)

\* What is on disk is a release: archive, sidecar and aggregate line of every
\* packaged platform agree, and no other platform has any of them.
IsRelease(files) ==
    /\ files[Checksums] \notin {Missing, Directory}
    /\ DOMAIN files[Checksums] = packages
    /\ \A p \in packages:
           /\ files[Archive(p)] = Made(p, files[Checksums][p])
           /\ files[Sidecar(p)] = files[Archive(p)]
    /\ \A p \in PlatformSet \ packages:
           {files[Archive(p)], files[Sidecar(p)]} \subseteq {Missing, Directory}

\* A run that reports success leaves a release, whatever earlier runs that
\* failed or died have left, and no temporary file or backup of its own: what
\* could not be cleaned up made it fail.
SuccessIsRelease == pc = "ok" => IsRelease(disk) /\ litter = found

\* checksums.txt is only ever installed on top of the release it describes.
AggregateIsLast ==
    [][last'[Checksums] # last[Checksums] => IsRelease(disk')]_vars
=============================================================================
