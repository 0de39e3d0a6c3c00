------------------------ MODULE UpdateService_proofs ------------------------
(***************************************************************************)
(* The update that is offered and the one that is installed, for any       *)
(* number of versions, builds, blocks, retries, faults and restarts.       *)
(***************************************************************************)
EXTENDS UpdateService, WellFoundedInduction, TLAPS

Downloading == {"opening", "streaming", "waiting", "verifying"}

\* What was announced is uploaded.
Served == latest.v # 0 => served[latest.v] > 0

\* A program that does not run has no memory.
Stopped == ~running => downloaded = NoManifest /\ pending = NoManifest /\ job = Idle

\* A download under way is of a newer version than the program and of another
\* one than the verified update, whose file it so leaves alone.
Busy ==
  job.at \in Downloading =>
    /\ running /\ job.man.v \in Version /\ job.man.v > current
    /\ job.man.v # downloaded.v /\ served[job.man.v] > 0
    /\ disk[job.man.v].manifest = job.man.b
    /\ job.at = "streaming" => job.src \in Build
    /\ job.at = "waiting" => job.attempt < MaxAttempts

\* A manifest waits for the user only while nothing else goes on.
Waits ==
  pending.v # 0 =>
    /\ running /\ channel = "dev" /\ status.phase = "available" /\ job.at = "idle"
    /\ downloaded.v = 0 /\ pending.v > current /\ served[pending.v] > 0

\* The verified update is the one its directory's manifest names.
Ready ==
  downloaded.v # 0 =>
    /\ downloaded.v > current
    /\ disk[downloaded.v].artifact = Full(downloaded.b)
    /\ disk[downloaded.v].manifest = downloaded.b

Shown == status.phase = "downloaded" => downloaded.v # 0 /\ status.target = downloaded.v

\* What the helper is about to install has not changed since it was verified.
Helping ==
  helper # 0 => /\ ~running /\ helper > current
                /\ disk[helper].artifact = Full(disk[helper].manifest)

\* The inductive invariant: what is offered survives a download because the two
\* are of different versions, and an exit because nothing runs meanwhile.
IInv == TypeOK /\ Served /\ Stopped /\ Busy /\ Waits /\ Ready /\ Shown /\ Helping

-----------------------------------------------------------------------------
LEMMA ConstantTypes ==
  /\ MaxVersion \in Nat /\ MaxBuild \in Nat /\ Blocks \in Nat /\ Blocks > 0
  /\ MaxAttempts \in Nat /\ MaxAttempts > 0
  /\ MaxChanges \in Nat /\ MaxFaults \in Nat /\ MaxExits \in Nat
  /\ Channels \subseteq {"daily", "dev"}
BY UpdateAssumption

LEMMA NoFileIsFile == NoFile \in Files
BY ConstantTypes DEF NoFile, Files

\* A block more is still a file.
LEMMA AppendIsFile ==
  ASSUME NEW f \in Files, Len(f) < Blocks, NEW b \in Build
  PROVE  Append(f, b) \in Files
BY ConstantTypes DEF Files

\* A non-empty set of versions has a largest one.
LEMMA MaxOfVersions ==
  ASSUME NEW S \in SUBSET (0..MaxVersion), S # {}
  PROVE  Max(S) \in S /\ \A v \in S : Max(S) >= v
<1> DEFINE T == {MaxVersion - v : v \in S}
<1>1. /\ \A v \in S : MaxVersion - v \in T
      /\ \A t \in T : \E v \in S : t = MaxVersion - v
  OBVIOUS
<1>2. T # {}
  BY <1>1
<1>3. \A v \in S : v \in Int /\ MaxVersion - v \in Nat
  BY ConstantTypes
<1> HIDE DEF T
<1>4. T \subseteq Nat
  BY <1>1, <1>3
<1>5. PICK t \in T : \A u \in T : ~ (<<u, t>> \in OpToRel(<, Nat))
  BY <1>2, <1>4, NatLessThanWellFounded, WFMin
<1>6. ASSUME NEW u \in T PROVE t <= u
  <2>1. u \in Nat /\ t \in Nat
    BY <1>4
  <2>2. ~ (<<u, t>> \in {p \in Nat \X Nat : p[1] < p[2]})
    BY <1>5 DEF OpToRel
  <2>3. ~ (u < t)
    BY <2>1, <2>2
  <2> QED BY <2>1, <2>3
<1>7. \A u \in T : t <= u
  BY <1>6
<1>8. PICK m \in S : t = MaxVersion - m
  BY <1>1
<1>9. \A v \in S : m >= v
  <2>1. \A v \in S : MaxVersion - m <= MaxVersion - v
    BY <1>1, <1>7, <1>8
  <2> QED BY <2>1, <1>3, ConstantTypes
<1> QED BY <1>9 DEF Max

\* The version that is recovered verifies, unless none does.
LEMMA RecoveredVerifies ==
  ASSUME TypeOK
  PROVE  /\ recovered \in 0..MaxVersion
         /\ recovered # 0 => recovered \in Version /\ recovered > current /\ Verifies(disk[recovered])
<1>1. recoverable \cup {0} \in SUBSET (0..MaxVersion)
  BY ConstantTypes DEF recoverable, Version
<1>2. recovered \in recoverable \cup {0}
  BY <1>1, MaxOfVersions DEF recovered
<1> QED BY <1>1, <1>2, ConstantTypes DEF recoverable, Version
-----------------------------------------------------------------------------
(* Typing facts that several steps use *)

Directory == [manifest : 0..MaxBuild, partial : Files, artifact : Files]

LEMMA DirectoriesTyped == ASSUME DiskOK, NEW v \in Version PROVE disk[v] \in Directory
BY DEF DiskOK, Directory

LEMMA NoDirectoryTyped == NoDirectory \in Directory
BY NoFileIsFile, ConstantTypes DEF NoDirectory, Directory

LEMMA IdleTyped ==
  /\ NoManifest \in Manifest /\ NoManifest.v = 0
  /\ Idle.at = "idle" /\ Fetching.at = "fetching"
  /\ \A j \in {Idle, Fetching} :
       j \in [at : {"idle", "fetching", "opening", "streaming", "waiting", "verifying"},
              man : Manifest, attempt : 0..MaxAttempts, src : 0..MaxBuild, manual : BOOLEAN]
<1>1. NoManifest \in Manifest /\ NoManifest.v = 0
  BY ConstantTypes DEF NoManifest, Manifest
<1>2. Idle \in [at : {"idle", "fetching", "opening", "streaming", "waiting", "verifying"},
                 man : Manifest, attempt : 0..MaxAttempts, src : 0..MaxBuild, manual : BOOLEAN]
  BY <1>1, ConstantTypes DEF Idle
<1>3. Idle.at = "idle" /\ Fetching.at = "fetching"
  BY DEF Idle, Fetching
<1>4. Fetching \in [at : {"idle", "fetching", "opening", "streaming", "waiting", "verifying"},
                     man : Manifest, attempt : 0..MaxAttempts, src : 0..MaxBuild, manual : BOOLEAN]
  BY <1>2 DEF Fetching
<1> QED BY <1>1, <1>2, <1>3, <1>4

\* A step that leaves the job idle or makes it fetch types it.
LEMMA JobIsTyped == ASSUME job' \in {Idle, Fetching} PROVE JobOK'
BY IdleTyped DEF JobOK

-----------------------------------------------------------------------------
(* The steps of a download.  Each of them changes the files of its own     *)
(* version, and nothing else of the directories.                           *)

\* The directories after a step of the download that is under way.
Touches ==
  /\ disk' \in [Version -> Directory]
  /\ disk'[job.man.v].manifest = disk[job.man.v].manifest
  /\ \A v \in Version \ {job.man.v} : disk'[v] = disk[v]

\* It goes on, or it ends without an update.
Goes ==
  /\ \/ job' = Idle
     \/ /\ job'.at \in Downloading /\ job'.man = job.man
        /\ job'.at = "streaming" => job'.src \in Build
        /\ job'.at = "waiting" => job'.attempt < MaxAttempts
  /\ status' \in {status, [status EXCEPT !.phase = "error"]}
  /\ downloaded' = downloaded

\* It ends with the verified update.
Succeeds ==
  /\ disk'[job.man.v].artifact = Full(job.man.b)
  /\ job' = Idle /\ downloaded' = job.man
  /\ status' = [phase |-> "downloaded", target |-> job.man.v]

LEMMA DownloadStep ==
  ASSUME IInv, job.at \in Downloading, Elsewhere, Touches, Goes \/ Succeeds,
         JobOK', faults' \in 0..MaxFaults
  PROVE  IInv'
<1>0. /\ running /\ job.man \in Manifest /\ job.man.v \in Version /\ job.man.v > current
      /\ job.man.v # downloaded.v /\ served[job.man.v] > 0
      /\ disk[job.man.v].manifest = job.man.b
  BY DEF IInv, Busy, TypeOK, JobOK
<1>1. pending.v = 0 /\ helper = 0
  BY <1>0 DEF IInv, Waits, Helping, Downloading, TypeOK, StatusOK
<1>2. /\ running' = running /\ pending' = pending /\ current' = current /\ helper' = helper
      /\ served' = served /\ latest' = latest /\ channel' = channel /\ content' = content
      /\ changes' = changes /\ exits' = exits /\ installRequested' = installRequested
  BY DEF Elsewhere, server, install
<1>3. ServerOK' /\ InstallOK' /\ BoundsOK'
  BY <1>2 DEF IInv, TypeOK, ServerOK, InstallOK, BoundsOK
<1>4. DiskOK'
  BY DEF Touches, DiskOK, Directory
<1>5. StatusOK'
  BY <1>0, <1>2, ConstantTypes DEF IInv, TypeOK, StatusOK, Goes, Succeeds, Version, Manifest
<1>6. Served' /\ Stopped' /\ Waits' /\ Helping'
  BY <1>0, <1>1, <1>2 DEF IInv, Served, Stopped, Waits, Helping
<1>7. Busy'
  BY <1>0, <1>2, IdleTyped DEF Busy, Touches, Goes, Succeeds, Downloading
<1>8. Ready'
  <2>1. CASE Goes
    <3> SUFFICES ASSUME downloaded.v # 0 PROVE Ready'
      BY <2>1 DEF Goes, Ready
    <3>1. downloaded.v \in Version
      BY ConstantTypes DEF IInv, TypeOK, StatusOK, Manifest, Version
    <3>2. disk'[downloaded.v] = disk[downloaded.v]
      BY <3>1, <1>0 DEF Touches
    <3> QED BY <2>1, <3>2, <1>2 DEF Goes, Ready, IInv
  <2>2. CASE Succeeds
    BY <2>2, <1>0, <1>2 DEF Succeeds, Touches, Ready
  <2> QED BY <2>1, <2>2
<1>9. Shown'
  <2>1. CASE Goes
    BY <2>1 DEF Goes, Shown, IInv, TypeOK, StatusOK
  <2>2. CASE Succeeds
    BY <2>2, <1>0, ConstantTypes DEF Succeeds, Shown, Version
  <2> QED BY <2>1, <2>2
<1> QED BY <1>3, <1>4, <1>5, <1>6, <1>7, <1>8, <1>9 DEF IInv, TypeOK

\* Replacing a directory's files by files touches no more than that.
LEMMA FilesTouch ==
  ASSUME IInv, job.at \in Downloading, NEW f \in Files, NEW g \in Files,
         \/ disk' = [disk EXCEPT ![job.man.v].partial = f]
         \/ disk' = [disk EXCEPT ![job.man.v].artifact = g, ![job.man.v].partial = f]
         \/ disk' = disk
  PROVE  Touches
<1>1. disk \in [Version -> Directory] /\ job.man.v \in Version
  BY DEF IInv, TypeOK, DiskOK, Directory, Busy
<1>2. disk[job.man.v] \in Directory
  BY <1>1
<1>3. CASE disk' = [disk EXCEPT ![job.man.v].partial = f]
  BY <1>1, <1>2, <1>3 DEF Touches, Directory
<1>4. CASE disk' = [disk EXCEPT ![job.man.v].artifact = g, ![job.man.v].partial = f]
  BY <1>1, <1>2, <1>4 DEF Touches, Directory
<1>5. CASE disk' = disk
  BY <1>1, <1>5 DEF Touches
<1> QED BY <1>3, <1>4, <1>5

\* A failed download ends it, and shows an error or what was shown.
LEMMA ThrowGoes == ASSUME Throw PROVE Goes /\ JobOK'
BY JobIsTyped DEF Throw, Goes

\* The job of a download with another state, attempt or source is a download.
LEMMA JobMoves ==
  ASSUME IInv, job.at \in Downloading, NEW a \in Downloading, NEW n \in 0..MaxAttempts,
         NEW b \in 0..MaxBuild, job' = [job EXCEPT !.at = a, !.attempt = n, !.src = b]
  PROVE  /\ JobOK' /\ job'.at = a /\ job'.man = job.man /\ job'.src = b
         /\ job'.attempt = n
BY DEF IInv, TypeOK, JobOK, Downloading

LEMMA FaultTyped == ASSUME TypeOK, Fault \/ faults' = faults PROVE faults' \in 0..MaxFaults
BY ConstantTypes DEF TypeOK, BoundsOK, Fault

LEMMA downloadFileCoreStep == ASSUME IInv, downloadFileCore PROVE IInv'
<1>1. job.at \in Downloading /\ Elsewhere /\ faults' \in 0..MaxFaults
  BY FaultTyped DEF downloadFileCore, Downloading, IInv
<1>2. Touches
  BY <1>1, FilesTouch, NoFileIsFile DEF downloadFileCore, Partial, target
<1>3. job.man.v \in Version /\ served[job.man.v] \in Build
  BY <1>1, ConstantTypes DEF IInv, TypeOK, ServerOK, Busy, Build
<1>4. job' = [job EXCEPT !.at = "streaming", !.attempt = job.attempt, !.src = served[job.man.v]]
  BY DEF downloadFileCore, target, IInv, TypeOK, JobOK
<1>5. JobOK' /\ Goes
  <2>1. "streaming" \in Downloading /\ job.attempt \in 0..MaxAttempts /\ served[job.man.v] \in 0..MaxBuild
    BY <1>3 DEF Downloading, IInv, TypeOK, JobOK, Build
  <2>2. JobOK' /\ job'.at = "streaming" /\ job'.man = job.man /\ job'.src = served[job.man.v]
    BY <1>1, <1>4, <2>1, JobMoves
  <2> QED BY <2>1, <2>2, <1>3 DEF Goes, downloadFileCore
<1> QED BY <1>1, <1>2, <1>5, DownloadStep

LEMMA ChunkStep == ASSUME IInv, Chunk PROVE IInv'
<1>1. job.at \in Downloading /\ Elsewhere /\ faults' \in 0..MaxFaults
  BY FaultTyped DEF Chunk, Downloading, IInv
<1>2. disk[job.man.v].partial \in Files /\ job.src \in Build
  BY <1>1, DirectoriesTyped DEF IInv, TypeOK, Busy, Chunk, Directory
<1>3. Append(disk[job.man.v].partial, job.src) \in Files
  BY <1>2, AppendIsFile DEF Chunk, target
<1>4. Touches
  BY <1>1, <1>3, FilesTouch DEF Chunk, Partial, target
<1>5. Goes /\ JobOK'
  BY <1>1, <1>2 DEF Chunk, Goes, JobOK, IInv, TypeOK
<1> QED BY <1>1, <1>4, <1>5, DownloadStep

LEMMA FinishStep == ASSUME IInv, Finish PROVE IInv'
<1>1. job.at \in Downloading /\ Elsewhere /\ faults' \in 0..MaxFaults
  BY FaultTyped DEF Finish, Downloading, IInv
<1>2. disk[job.man.v].partial \in Files
  BY <1>1, DirectoriesTyped DEF IInv, TypeOK, Busy, Directory
<1>3. Touches
  BY <1>1, <1>2, FilesTouch, NoFileIsFile DEF Finish, target
<1>4. job' = [job EXCEPT !.at = "verifying", !.attempt = job.attempt, !.src = job.src]
  BY DEF Finish, IInv, TypeOK, JobOK
<1>5. JobOK' /\ Goes
  <2>1. "verifying" \in Downloading /\ job.attempt \in 0..MaxAttempts /\ job.src \in 0..MaxBuild
    BY DEF Downloading, IInv, TypeOK, JobOK
  <2>2. JobOK' /\ job'.at = "verifying" /\ job'.man = job.man
    BY <1>1, <1>4, <2>1, JobMoves
  <2> QED BY <2>1, <2>2 DEF Goes, Finish
<1> QED BY <1>1, <1>3, <1>5, DownloadStep

LEMMA AttemptFailsStep == ASSUME IInv, AttemptFails PROVE IInv'
<1>1. job.at \in Downloading /\ Elsewhere /\ faults' \in 0..MaxFaults
  BY FaultTyped DEF AttemptFails, Downloading, IInv
<1>2. Touches
  BY <1>1, FilesTouch, NoFileIsFile DEF AttemptFails, Partial, target
<1>3. CASE Throw
  BY <1>1, <1>2, <1>3, ThrowGoes, DownloadStep
<1>4. CASE /\ job.attempt < MaxAttempts
           /\ job' = [job EXCEPT !.at = "waiting"] /\ UNCHANGED <<status, downloaded>>
  <2>1. "waiting" \in Downloading /\ job.attempt \in 0..MaxAttempts /\ job.src \in 0..MaxBuild
    BY DEF Downloading, IInv, TypeOK, JobOK
  <2>2. job' = [job EXCEPT !.at = "waiting", !.attempt = job.attempt, !.src = job.src]
    BY <1>4 DEF IInv, TypeOK, JobOK
  <2>3. JobOK' /\ job'.at = "waiting" /\ job'.man = job.man /\ job'.attempt = job.attempt
    BY <1>1, <2>1, <2>2, JobMoves
  <2>4. Goes
    BY <1>4, <2>1, <2>3 DEF Goes
  <2> QED BY <1>1, <1>2, <2>3, <2>4, DownloadStep
<1> QED BY <1>3, <1>4 DEF AttemptFails

LEMMA RetryStep == ASSUME IInv, Retry PROVE IInv'
<1>1. job.at \in Downloading /\ Elsewhere /\ faults' \in 0..MaxFaults
  BY FaultTyped DEF Retry, Downloading, IInv
<1>2. Touches
  BY <1>1, FilesTouch, NoFileIsFile DEF Retry
<1>3. CASE Throw
  BY <1>1, <1>2, <1>3, ThrowGoes, DownloadStep
<1>4. CASE job' = [job EXCEPT !.at = "opening", !.attempt = @ + 1] /\ UNCHANGED <<status, downloaded>>
  <2>1. "opening" \in Downloading /\ job.attempt + 1 \in 0..MaxAttempts /\ job.src \in 0..MaxBuild
    BY ConstantTypes DEF Downloading, IInv, TypeOK, JobOK, Busy, Retry
  <2>2. job' = [job EXCEPT !.at = "opening", !.attempt = job.attempt + 1, !.src = job.src]
    BY <1>4 DEF IInv, TypeOK, JobOK
  <2>3. JobOK' /\ job'.at = "opening" /\ job'.man = job.man
    BY <1>1, <2>1, <2>2, JobMoves
  <2>4. Goes
    BY <1>4, <2>1, <2>3 DEF Goes
  <2> QED BY <1>1, <1>2, <2>3, <2>4, DownloadStep
<1> QED BY <1>3, <1>4 DEF Retry

LEMMA VerifiedStep == ASSUME IInv, Verified PROVE IInv'
<1>1. job.at \in Downloading /\ Elsewhere /\ faults' \in 0..MaxFaults
  BY FaultTyped DEF Verified, Downloading, IInv
<1>2. Touches
  BY <1>1, FilesTouch, NoFileIsFile DEF Verified, Partial, target
<1>3. CASE Throw
  BY <1>1, <1>2, <1>3, ThrowGoes, DownloadStep
<1>4. CASE /\ disk[target].artifact = Full(job.man.b) /\ Partial(NoFile)
           /\ downloaded' = job.man /\ Show("downloaded", target) /\ job' = Idle
  <2>1. disk'[job.man.v].artifact = disk[job.man.v].artifact
    BY <1>1, <1>4 DEF Partial, target, IInv, TypeOK, DiskOK, Busy
  <2>2. Succeeds
    BY <1>4, <2>1 DEF Succeeds, Show, target
  <2> QED BY <1>1, <1>2, <1>4, <2>2, JobIsTyped, DownloadStep
<1> QED BY <1>3, <1>4 DEF Verified
-----------------------------------------------------------------------------
(* The steps that leave the directories alone *)

LEMMA PublisherStep ==
  ASSUME IInv, NEW v \in Version, Upload(v) \/ Announce(v)
  PROVE  IInv'
<1>1. /\ UNCHANGED <<disk, current, content, helper, channel, running, status, downloaded,
                     pending, installRequested, job, faults, exits>>
      /\ changes' \in 0..MaxChanges
  BY ConstantTypes DEF Upload, Announce, install, memory, IInv, TypeOK, BoundsOK
<1>2. /\ latest' \in Manifest /\ served' \in [Version -> 0..MaxBuild]
      /\ \A w \in Version : served'[w] >= served[w]
      /\ latest'.v # 0 => served'[latest'.v] > 0
  <2>1. CASE Upload(v)
    BY <2>1, ConstantTypes DEF Upload, IInv, TypeOK, ServerOK, Served, Manifest, Version
  <2>2. CASE Announce(v)
    BY <2>2, ConstantTypes DEF Announce, IInv, TypeOK, ServerOK, Manifest, Version
  <2> QED BY <2>1, <2>2
<1>3. TypeOK'
  BY <1>1, <1>2 DEF IInv, TypeOK, ServerOK, DiskOK, InstallOK, StatusOK, JobOK, BoundsOK
<1>4. Served' /\ Stopped' /\ Ready' /\ Shown' /\ Helping'
  BY <1>1, <1>2 DEF IInv, Served, Stopped, Ready, Shown, Helping
<1>5. \A w \in Version : served[w] > 0 => served'[w] > 0
  BY <1>2, ConstantTypes DEF IInv, TypeOK, ServerOK
<1>6. Busy' /\ Waits'
  BY <1>1, <1>5, ConstantTypes DEF IInv, TypeOK, StatusOK, Busy, Waits, Manifest, Version
<1> QED BY <1>3, <1>4, <1>6 DEF IInv

LEMMA checkNowStep == ASSUME IInv, checkNow PROVE IInv'
<1>1. /\ UNCHANGED <<latest, served, changes, disk, current, content, helper, channel, running,
                     downloaded, pending, installRequested, faults, exits>>
      /\ running /\ job.at = "idle" /\ job' = Fetching /\ job'.at = "fetching"
      /\ status' = [status EXCEPT !.phase = "checking"]
  BY IdleTyped DEF checkNow, server, install
<1>2. pending.v = 0
  BY DEF checkNow, IInv, Waits
<1>3. TypeOK'
  BY <1>1, JobIsTyped DEF IInv, TypeOK, ServerOK, DiskOK, InstallOK, StatusOK, BoundsOK
<1>4. Served' /\ Stopped' /\ Busy' /\ Waits' /\ Ready' /\ Helping'
  BY <1>1, <1>2 DEF IInv, Served, Stopped, Busy, Waits, Ready, Helping, Downloading
<1>5. Shown'
  BY <1>1 DEF Shown, IInv, TypeOK, StatusOK
<1> QED BY <1>3, <1>4, <1>5 DEF IInv

LEMMA FetchFailsStep == ASSUME IInv, FetchFails PROVE IInv'
<1>1. /\ UNCHANGED <<latest, served, changes, disk, current, content, helper, channel, running,
                     downloaded, pending, installRequested, exits>>
      /\ job.at = "fetching" /\ job' = Idle /\ job'.at = "idle" /\ faults' \in 0..MaxFaults
  BY IdleTyped, FaultTyped DEF FetchFails, server, install, IInv
<1>2. pending.v = 0 /\ (running' => running)
  BY <1>1 DEF IInv, Waits
<1>3. StatusOK' /\ Shown'
  BY <1>1, ConstantTypes DEF FetchFails, IInv, TypeOK, StatusOK, Shown, Manifest
<1>4. TypeOK'
  BY <1>1, <1>3, JobIsTyped DEF IInv, TypeOK, ServerOK, DiskOK, InstallOK, BoundsOK
<1>5. Served' /\ Stopped' /\ Busy' /\ Waits' /\ Ready' /\ Helping'
  BY <1>1, <1>2 DEF IInv, Served, Stopped, Busy, Waits, Ready, Helping, Downloading
<1> QED BY <1>3, <1>4, <1>5 DEF IInv

LEMMA requestRestartStep == ASSUME IInv, requestRestartToUpdate PROVE IInv'
<1>1. UNCHANGED <<latest, served, changes, disk, current, content, helper, channel, running,
                  status, downloaded, pending, job, faults, exits>>
      /\ installRequested' = TRUE
  BY DEF requestRestartToUpdate, server, install
<1> QED BY <1>1 DEF IInv, TypeOK, ServerOK, DiskOK, InstallOK, StatusOK, JobOK, BoundsOK,
                    Served, Stopped, Busy, Waits, Ready, Shown, Helping

\* The helper is left with the verified version, or there is none.
LEMMA QuitStep == ASSUME IInv, Quit PROVE IInv'
<1>1. /\ UNCHANGED <<latest, served, changes, disk, current, content, channel, faults>>
      /\ running' = FALSE /\ job' = Idle /\ job'.at = "idle" /\ installRequested' = FALSE
      /\ downloaded' = NoManifest /\ pending' = NoManifest
      /\ helper' \in {0, downloaded.v} /\ exits' \in 0..MaxExits
      /\ status' = [phase |-> "idle", target |-> 0]
  BY IdleTyped, ConstantTypes DEF Quit, server, IInv, TypeOK, BoundsOK
<1>2. downloaded'.v = 0 /\ pending'.v = 0 /\ NoManifest \in Manifest
  BY <1>1, IdleTyped
<1>3. TypeOK'
  <2>1. InstallOK' /\ BoundsOK'
    BY <1>1, ConstantTypes DEF IInv, TypeOK, InstallOK, StatusOK, BoundsOK, Manifest
  <2>2. StatusOK'
    <3>1. status' \in [phase : {"idle", "checking", "available", "downloading", "downloaded",
                                "up-to-date", "error"}, target : 0..MaxVersion]
      BY <1>1, ConstantTypes
    <3> QED BY <3>1, <1>1, <1>2 DEF IInv, TypeOK, StatusOK
  <2> QED BY <1>1, <2>1, <2>2, JobIsTyped DEF IInv, TypeOK, ServerOK, DiskOK
<1>4. Served' /\ Stopped' /\ Busy' /\ Waits' /\ Ready' /\ Shown'
  BY <1>1, <1>2 DEF IInv, Served, Stopped, Busy, Waits, Ready, Shown, Downloading
<1>5. Helping'
  BY <1>1 DEF IInv, Ready, Helping
<1> QED BY <1>3, <1>4, <1>5 DEF IInv
-----------------------------------------------------------------------------
(* The steps that rearrange the directories *)

\* What a download starts with: its version is new and not the verified one.
LEMMA DownloadStarts ==
  ASSUME IInv, NEW m \in Manifest, NEW manual \in BOOLEAN, downloadUpdate(m, manual),
         running, m.v > current, m.v # downloaded.v, served[m.v] > 0,
         UNCHANGED <<server, install, channel, running, installRequested, faults, exits>>,
         pending' \in {pending, NoManifest}, pending'.v = 0
  PROVE  IInv'
<1>1. /\ UNCHANGED <<latest, served, changes, current, content, helper, channel, running,
                     installRequested, downloaded, faults, exits>>
      /\ status' = [phase |-> "downloading", target |-> m.v]
      /\ disk' = [disk EXCEPT ![m.v].manifest = m.b]
      /\ job' = [at |-> IF disk[m.v].artifact = NoFile THEN "opening" ELSE "verifying",
                 man |-> m, attempt |-> 1, src |-> 0, manual |-> manual]
  BY DEF downloadUpdate, Show, server, install
<1>2. m.v \in Version /\ m.v \in 0..MaxVersion /\ m.b \in 0..MaxBuild
  BY ConstantTypes DEF IInv, TypeOK, InstallOK, Manifest, Version
<1>3. job'.at \in {"opening", "verifying"} /\ job'.man = m /\ JobOK'
  <2>1. (IF disk[m.v].artifact = NoFile THEN "opening" ELSE "verifying") \in {"opening", "verifying"}
    OBVIOUS
  <2> QED BY <1>1, <1>2, <2>1, ConstantTypes DEF JobOK
<1>4. helper = 0
  BY DEF IInv, Helping, TypeOK, InstallOK
<1>5. disk \in [Version -> Directory] /\ disk[m.v] \in Directory
  BY <1>2, DirectoriesTyped DEF IInv, TypeOK, DiskOK, Directory
<1>6. /\ disk' \in [Version -> Directory] /\ disk'[m.v].manifest = m.b
      /\ \A v \in Version \ {m.v} : disk'[v] = disk[v]
  BY <1>1, <1>2, <1>5 DEF Directory
<1>7. TypeOK'
  <2>1. ServerOK' /\ InstallOK' /\ BoundsOK'
    BY <1>1 DEF IInv, TypeOK, ServerOK, InstallOK, BoundsOK
  <2>2. StatusOK'
    BY <1>1, <1>2, IdleTyped DEF IInv, TypeOK, StatusOK
  <2> QED BY <1>3, <1>6, <2>1, <2>2 DEF TypeOK, DiskOK, Directory
<1>8. Served' /\ Stopped' /\ Waits' /\ Shown' /\ Helping'
  BY <1>1, <1>4 DEF IInv, Served, Stopped, Waits, Shown, Helping
<1>9. Busy'
  BY <1>1, <1>2, <1>3, <1>6 DEF Busy
<1>10. Ready'
  <2> SUFFICES ASSUME downloaded.v # 0 PROVE Ready'
    BY <1>1 DEF Ready
  <2>1. downloaded.v \in Version \ {m.v}
    BY ConstantTypes DEF IInv, TypeOK, StatusOK, Manifest, Version
  <2> QED BY <1>1, <1>6, <2>1 DEF Ready, IInv
<1> QED BY <1>7, <1>8, <1>9, <1>10 DEF IInv

LEMMA checkNowInternalStep == ASSUME IInv, checkNowInternal PROVE IInv'
<1>1. /\ UNCHANGED <<latest, served, changes, current, content, helper, channel, running,
                     installRequested, faults, exits>>
      /\ job.at = "fetching" /\ latest \in Manifest /\ downloaded \in Manifest
  BY DEF checkNowInternal, server, install, IInv, TypeOK, ServerOK, StatusOK
<1>2. running /\ pending.v = 0 /\ helper = 0
  BY <1>1, IdleTyped DEF IInv, Stopped, Waits, Helping
<1>3. latest.v \in 0..MaxVersion /\ (latest.v > current => latest.v # 0 /\ served[latest.v] > 0)
  BY <1>1, ConstantTypes DEF Manifest, IInv, Served, TypeOK, InstallOK
<1>4. CASE latest.v > current /\ downloaded.v # latest.v /\ downloadUpdate(latest, FALSE)
           /\ UNCHANGED pending
  BY <1>1, <1>2, <1>3, <1>4, DownloadStarts DEF checkNowInternal
<1>5. CASE /\ disk' = disk /\ job' = Idle
           /\ \/ /\ Show("up-to-date", 0) /\ downloaded' = NoManifest /\ pending' = pending
              \/ /\ latest.v > current /\ downloaded.v = latest.v
                 /\ Show("downloaded", latest.v) /\ UNCHANGED <<pending, downloaded>>
              \/ /\ latest.v > current /\ channel = "dev"
                 /\ Show("available", latest.v) /\ downloaded' = NoManifest /\ pending' = latest
  <2>1. job'.at = "idle" /\ NoManifest.v = 0
    BY <1>5, IdleTyped
  <2>2. status' \in [phase : {"idle", "checking", "available", "downloading", "downloaded",
                              "up-to-date", "error"}, target : 0..MaxVersion]
    BY <1>3, <1>5, ConstantTypes DEF Show
  <2>3. TypeOK'
    BY <1>1, <1>5, <2>2, IdleTyped, JobIsTyped
    DEF IInv, TypeOK, ServerOK, DiskOK, InstallOK, StatusOK, BoundsOK
  <2>4. Served' /\ Stopped' /\ Busy' /\ Helping'
    BY <1>1, <1>2, <1>5, <2>1 DEF IInv, Served, Stopped, Busy, Helping, Downloading
  <2>5. Ready' /\ Waits'
    BY <1>1, <1>2, <1>3, <1>5, <2>1 DEF IInv, Ready, Waits, Show
  <2>6. Shown'
    BY <1>3, <1>5, <2>1 DEF Shown, Show
  <2> QED BY <2>3, <2>4, <2>5, <2>6 DEF IInv
<1> QED BY <1>4, <1>5 DEF checkNowInternal

LEMMA downloadNowStep == ASSUME IInv, downloadNow PROVE IInv'
<1>1. pending \in Manifest /\ pending.v > current /\ pending.v # downloaded.v
      /\ served[pending.v] > 0
  BY DEF downloadNow, IInv, Waits, TypeOK, StatusOK
<1>2. pending' = NoManifest /\ pending'.v = 0
  BY IdleTyped DEF downloadNow
<1> QED BY <1>1, <1>2, DownloadStarts DEF downloadNow

LEMMA HelperEndsStep == ASSUME IInv, HelperEnds PROVE IInv'
<1>1. /\ UNCHANGED <<latest, served, changes, channel, running, status, downloaded, pending,
                     installRequested, job, exits>>
      /\ helper # 0 /\ helper' = 0 /\ faults' \in 0..MaxFaults
  BY FaultTyped DEF HelperEnds, server, memory, IInv
<1>2. /\ ~running /\ helper \in Version /\ downloaded.v = 0 /\ pending.v = 0 /\ job.at = "idle"
  BY <1>1, IdleTyped, ConstantTypes DEF IInv, Stopped, Helping, TypeOK, InstallOK, Version
<1>3. disk[helper] \in Directory /\ disk \in [Version -> Directory]
  BY <1>2, DirectoriesTyped DEF IInv, TypeOK, DiskOK, Directory
<1>4. DiskOK' /\ current' \in 0..MaxVersion /\ content' \in Files
  BY <1>2, <1>3, NoFileIsFile DEF HelperEnds, Directory, DiskOK, IInv, TypeOK, InstallOK
<1>5. TypeOK'
  BY <1>1, <1>4, ConstantTypes DEF IInv, TypeOK, ServerOK, InstallOK, StatusOK, JobOK, BoundsOK
<1>6. Served' /\ Stopped' /\ Busy' /\ Waits' /\ Ready' /\ Shown' /\ Helping'
  BY <1>1, <1>2 DEF IInv, Served, Stopped, Busy, Waits, Ready, Shown, Helping, Downloading
<1> QED BY <1>5, <1>6 DEF IInv

LEMMA startStep == ASSUME IInv, start PROVE IInv'
<1>1. /\ UNCHANGED <<latest, served, changes, current, content, helper, channel, pending,
                     installRequested, faults, exits>>
      /\ ~running /\ running' /\ helper = 0 /\ cleanupAndRecoverPendingUpdate
  BY DEF start, server, install
<1>2. /\ recovered \in 0..MaxVersion
      /\ recovered # 0 => /\ recovered \in Version /\ recovered > current
                          /\ disk[recovered].artifact = Full(disk[recovered].manifest)
  BY RecoveredVerifies DEF IInv, Verifies
<1>3. pending.v = 0 /\ NoManifest.v = 0
  BY <1>1, IdleTyped DEF IInv, Stopped
<1>4. DiskOK'
  BY <1>1, NoDirectoryTyped DEF cleanupAndRecoverPendingUpdate, IInv, TypeOK, DiskOK, Directory
<1>5. recovered # 0 => disk'[recovered] = disk[recovered] /\ disk[recovered].manifest \in 0..MaxBuild
  BY <1>1, <1>2 DEF cleanupAndRecoverPendingUpdate, IInv, TypeOK, DiskOK
<1>6. /\ downloaded' \in Manifest /\ downloaded'.v = recovered
      /\ recovered # 0 => downloaded'.b = disk[recovered].manifest
  BY <1>1, <1>2, <1>5, IdleTyped DEF cleanupAndRecoverPendingUpdate, Manifest
<1>7. /\ job' \in {Idle, Fetching} /\ job'.at \notin Downloading
      /\ status' \in [phase : {"idle", "checking", "downloaded"}, target : {recovered}]
      /\ status'.phase = "downloaded" => recovered # 0
  BY IdleTyped DEF start, Downloading
<1>8. TypeOK'
  <2>1. StatusOK'
    BY <1>1, <1>2, <1>6, <1>7 DEF IInv, TypeOK, StatusOK
  <2> QED BY <1>1, <1>4, <1>7, <2>1, JobIsTyped DEF IInv, TypeOK, ServerOK, InstallOK, BoundsOK
<1>9. Served' /\ Stopped' /\ Busy' /\ Waits' /\ Helping'
  BY <1>1, <1>3, <1>7 DEF IInv, Served, Stopped, Busy, Waits, Helping
<1>10. Ready' /\ Shown'
  BY <1>1, <1>2, <1>5, <1>6, <1>7 DEF Ready, Shown
<1> QED BY <1>8, <1>9, <1>10 DEF IInv
-----------------------------------------------------------------------------
LEMMA InitInv == Init => IInv
<1> SUFFICES ASSUME Init PROVE IInv
  OBVIOUS
<1>1. ServerOK /\ InstallOK /\ BoundsOK
  BY IdleTyped, NoFileIsFile, ConstantTypes
  DEF Init, ServerOK, InstallOK, BoundsOK
<1>2. DiskOK
  BY NoDirectoryTyped DEF Init, DiskOK, Directory
<1>3. StatusOK /\ JobOK
  <2>1. status \in [phase : {"idle", "checking", "available", "downloading", "downloaded",
                             "up-to-date", "error"}, target : 0..MaxVersion]
    BY ConstantTypes DEF Init
  <2>2. StatusOK
    BY <2>1, IdleTyped, ConstantTypes DEF Init, StatusOK
  <2> QED BY <2>2, IdleTyped DEF Init, JobOK
<1>4. Served /\ Stopped /\ Busy /\ Waits /\ Ready /\ Shown /\ Helping
  BY IdleTyped DEF Init, Served, Stopped, Busy, Waits, Ready, Shown, Helping, Downloading
<1> QED BY <1>1, <1>2, <1>3, <1>4 DEF IInv, TypeOK

LEMMA NextInv == IInv /\ [Next]_vars => IInv'
<1> SUFFICES ASSUME IInv, [Next]_vars PROVE IInv'
  OBVIOUS
<1>1. CASE Publisher
  BY <1>1, PublisherStep DEF Publisher
<1>2. CASE User
  BY <1>2, startStep, checkNowStep, downloadNowStep, requestRestartStep, QuitStep DEF User
<1>3. CASE Work
  BY <1>3, checkNowInternalStep, downloadFileCoreStep, ChunkStep, FinishStep, RetryStep,
     VerifiedStep DEF Work
<1>4. CASE Trouble
  BY <1>4, FetchFailsStep, AttemptFailsStep DEF Trouble
<1>5. CASE HelperEnds
  BY <1>5, HelperEndsStep
<1>6. CASE UNCHANGED vars
  BY <1>6 DEF vars, server, install, memory, IInv, TypeOK, ServerOK, DiskOK, InstallOK,
              StatusOK, JobOK, BoundsOK, Served, Stopped, Busy, Waits, Ready, Shown, Helping
<1> QED BY <1>1, <1>2, <1>3, <1>4, <1>5, <1>6 DEF Next

LEMMA Invariance == Spec => []IInv
BY InitInv, NextInv, PTL DEF Spec

\* The verified update stays on disk, whole, newer than the program and the one
\* that is shown, whatever the publisher, the network and the user do.
THEOREM ReadyTheorem == Spec => []ReadyIsReal
<1>1. IInv => ReadyIsReal
  BY DEF IInv, Ready, Shown, ReadyIsReal
<1> QED BY <1>1, Invariance, PTL

\* Only the helper changes the installed version, and what it installs is what
\* was verified when the program ended.
LEMMA InstallStep ==
  IInv /\ [Next]_vars => [current' # current
                          => current' > current /\ content' = Full(disk[current'].manifest)]_vars
<1> SUFFICES ASSUME IInv, [Next]_vars, current' # current
             PROVE  current' > current /\ content' = Full(disk[current'].manifest)
  OBVIOUS
<1>1. HelperEnds
  BY DEF Next, Publisher, User, Work, Trouble, vars, install, Upload, Announce, start, checkNow,
         downloadNow, requestRestartToUpdate, Quit, checkNowInternal, downloadFileCore, Chunk,
         Finish, Retry, Verified, FetchFails, AttemptFails, Elsewhere
<1> QED BY <1>1 DEF HelperEnds, IInv, Helping

\* An installation makes the program newer and puts a whole build in place.
THEOREM InstallTheorem == Spec => InstallsWholeBuilds
BY InstallStep, Invariance, PTL DEF Spec, InstallsWholeBuilds
=============================================================================
