---------------------------- MODULE UpdateService ----------------------------
(***************************************************************************)
(* How the program updates itself: a check reads the published manifest, a *)
(* newer version is downloaded into its own directory, resumed after an    *)
(* interruption, verified against the manifest's checksum, kept across     *)
(* restarts and installed at quit.  (update-service.ts, update-download.ts) *)
(*                                                                         *)
(* A file is the sequence of its blocks, a block is named by the build it  *)
(* is of, and a checksum names the build that is meant; an empty file is   *)
(* no file.  The channel, the platform and the names in a manifest are     *)
(* right; the debug routes and the dismissed banner are left out, and so   *)
(* is the Windows helper's marker: the helper here is the macOS one, and   *)
(* the user does not open the program again before that helper has ended.  *)
(***************************************************************************)
EXTENDS Integers, Sequences, FiniteSetsExt

CONSTANTS
  Channels,     \* release channels: "daily" downloads by itself, "dev" when told to
  MaxVersion, MaxBuild, Blocks,
  MaxAttempts,  \* DEFAULT_MAX_RETRIES + 1
  MaxChanges,   \* bound: uploads and announcements of the publisher
  MaxFaults,    \* bound: requests, downloads and installations that fail
  MaxExits      \* bound: times the program ends

ASSUME UpdateAssumption ==
  /\ Channels \subseteq {"daily", "dev"}
  /\ MaxVersion \in Nat /\ MaxBuild \in Nat /\ Blocks \in Nat \ {0}
  /\ MaxAttempts \in Nat \ {0}
  /\ MaxChanges \in Nat /\ MaxFaults \in Nat /\ MaxExits \in Nat

VARIABLES
  latest,            \* what latest.json says
  served,            \* the build behind a version's artifact URL, 0 for none
  changes,
  disk,              \* the directory updates/<version>
  current, content,  \* the installed version and its bytes
  helper,            \* the version an install helper is about to install, or 0
  channel, running,
  status,            \* phase and targetVersion
  downloaded,        \* downloadedUpdate
  pending,           \* pendingManifest
  installRequested,
  job,               \* the check or the download under way
  faults, exits

server == <<latest, served, changes>>
install == <<current, content, helper>>
memory == <<status, downloaded, pending, installRequested, job>>
vars == <<server, disk, install, channel, running, memory, faults, exits>>

Version == 1..MaxVersion
Build == 1..MaxBuild
Full(b) == [i \in 1..Blocks |-> b]
Files == {f \in Seq(Build) : Len(f) <= Blocks}
NoFile == <<>>

Manifest == [v : 0..MaxVersion, b : 0..MaxBuild]
NoManifest == [v |-> 0, b |-> 0]
NoDirectory == [manifest |-> 0, partial |-> NoFile, artifact |-> NoFile]
Idle == [at |-> "idle", man |-> NoManifest, attempt |-> 0, src |-> 0, manual |-> FALSE]
Fetching == [Idle EXCEPT !.at = "fetching"]

Init ==
  /\ latest = NoManifest /\ served = [v \in Version |-> 0] /\ changes = 0
  /\ disk = [v \in Version |-> NoDirectory]
  /\ current = 0 /\ content = NoFile /\ helper = 0
  /\ channel \in Channels /\ running = FALSE
  /\ status = [phase |-> "idle", target |-> 0]
  /\ downloaded = NoManifest /\ pending = NoManifest /\ installRequested = FALSE
  /\ job = Idle /\ faults = 0 /\ exits = 0

-----------------------------------------------------------------------------
(* The publisher: an artifact is uploaded, also over an older build of the *)
(* same version, and a manifest announces what is uploaded by then.        *)

Upload(v) ==
  /\ changes < MaxChanges /\ changes' = changes + 1
  /\ served[v] < MaxBuild /\ served' = [served EXCEPT ![v] = @ + 1]
  /\ UNCHANGED <<latest, disk, install, channel, running, memory, faults, exits>>

Announce(v) ==
  /\ changes < MaxChanges /\ changes' = changes + 1
  /\ served[v] > 0 /\ latest' = [v |-> v, b |-> served[v]]
  /\ UNCHANGED <<served, disk, install, channel, running, memory, faults, exits>>

Fault == faults < MaxFaults /\ faults' = faults + 1

-----------------------------------------------------------------------------
(* Start: the newest directory whose artifact matches its manifest is      *)
(* recovered; older ones go, newer ones stay if they can be resumed        *)

Verifies(d) == d.manifest # 0 /\ d.artifact = Full(d.manifest)
Resumable(d) == d.manifest # 0 /\ d.artifact = NoFile /\ d.partial # NoFile

\* Mutation: whatever file is there is the download
recoverable_AnyFile == {v \in Version : v > current /\ disk[v].manifest # 0
                                        /\ disk[v].artifact # NoFile}

\* recoverPendingUpdate of every version that is newer than the program
recoverable == {v \in Version : v > current /\ Verifies(disk[v])}
recovered == Max(recoverable \cup {0})

cleanupAndRecoverPendingUpdate ==
  /\ disk' = [v \in Version |->
                IF v > current /\ (v = recovered \/ (v > recovered /\ Resumable(disk[v])))
                THEN disk[v] ELSE NoDirectory]
  /\ downloaded' = IF recovered = 0 THEN NoManifest
                   ELSE [v |-> recovered, b |-> disk[recovered].manifest]

\* the daily and stable channels check at once
start ==
  /\ ~running /\ helper = 0 /\ running' = TRUE
  /\ cleanupAndRecoverPendingUpdate
  /\ IF channel = "daily"
     THEN job' = Fetching /\ status' = [phase |-> "checking", target |-> recovered]
     ELSE /\ job' = Idle
          /\ status' = [phase |-> IF recovered = 0 THEN "idle" ELSE "downloaded",
                        target |-> recovered]
  /\ UNCHANGED <<server, install, channel, pending, installRequested, faults, exits>>

-----------------------------------------------------------------------------
(* The check *)

\* the interval's timer, or the button where the settings offer it: they disable
\* it while a check or a download shows (Settings.tsx:234)
checkNow ==
  /\ running /\ job.at = "idle"
  /\ channel = "daily" \/ (status.phase \notin {"available", "downloaded"} /\ ~installRequested)
  /\ job' = Fetching /\ status' = [status EXCEPT !.phase = "checking"]
  /\ UNCHANGED <<server, disk, install, channel, running, downloaded, pending,
                 installRequested, faults, exits>>

Show(phase, v) == status' = [phase |-> phase, target |-> v]

\* ensureDownloaded up to its await: the manifest is saved first
downloadUpdate(m, manual) ==
  /\ Show("downloading", m.v)
  /\ disk' = [disk EXCEPT ![m.v].manifest = m.b]
  /\ job' = [at |-> IF disk[m.v].artifact = NoFile THEN "opening" ELSE "verifying",
             man |-> m, attempt |-> 1, src |-> 0, manual |-> manual]
  /\ UNCHANGED downloaded

\* checkNowInternal once the manifest is there
checkNowInternal ==
  /\ job.at = "fetching"
  /\ \/ /\ latest.v <= current
        /\ Show("up-to-date", 0) /\ downloaded' = NoManifest
        /\ job' = Idle /\ UNCHANGED <<disk, pending>>
     \/ /\ latest.v > current /\ downloaded.v = latest.v
        /\ Show("downloaded", latest.v)
        /\ job' = Idle /\ UNCHANGED <<disk, pending, downloaded>>
     \/ /\ latest.v > current /\ downloaded.v # latest.v /\ channel = "dev"
        /\ Show("available", latest.v) /\ downloaded' = NoManifest /\ pending' = latest
        /\ job' = Idle /\ UNCHANGED disk
     \/ /\ latest.v > current /\ downloaded.v # latest.v /\ channel = "daily"
        /\ downloadUpdate(latest, FALSE) /\ UNCHANGED pending
  /\ UNCHANGED <<server, install, channel, running, installRequested, faults, exits>>

downloadNow ==
  /\ running /\ job.at = "idle" /\ status.phase = "available" /\ pending.v # 0
  /\ pending' = NoManifest
  /\ downloadUpdate(pending, TRUE)
  /\ UNCHANGED <<server, install, channel, running, installRequested, faults, exits>>

\* the catch of a check shows again what is downloaded and verified
FetchFails ==
  /\ job.at = "fetching" /\ Fault /\ job' = Idle
  /\ status' = IF downloaded.v # 0 THEN [phase |-> "downloaded", target |-> downloaded.v]
               ELSE [status EXCEPT !.phase = "error"]
  /\ UNCHANGED <<server, disk, install, channel, running, downloaded, pending,
                 installRequested, exits>>

\* A download that fails: downloadNow catches it.  A check returns the promise
\* of its download without awaiting it, so its own catch never sees the failure.
Throw ==
  /\ job' = Idle
  /\ status' = IF job.manual THEN [status EXCEPT !.phase = "error"] ELSE status
  /\ UNCHANGED downloaded

-----------------------------------------------------------------------------
(* The download: downloadFileWithRetry and downloadFileCore *)

target == job.man.v
Partial(f) == disk' = [disk EXCEPT ![target].partial = f]
Elsewhere == UNCHANGED <<server, install, channel, running, pending, installRequested, exits>>

\* Range is asked for what is there.  The answer appends to it, or the download
\* starts again: the server ignores the range or rejects it (416), or its
\* Content-Range is wrong.
downloadFileCore ==
  /\ job.at = "opening"
  /\ LET p == disk[target].partial IN
       \/ p # NoFile /\ Len(p) < Blocks /\ UNCHANGED disk
       \/ Partial(NoFile)
  /\ job' = [job EXCEPT !.at = "streaming", !.src = served[target]]
  /\ UNCHANGED <<status, downloaded, faults>> /\ Elsewhere

Chunk ==
  /\ job.at = "streaming" /\ Len(disk[target].partial) < Blocks
  /\ Partial(Append(disk[target].partial, job.src))
  /\ UNCHANGED <<job, status, downloaded, faults>> /\ Elsewhere

\* the stream ends, all of it read or closed too early, and the file is renamed
Finish ==
  /\ job.at = "streaming"
  /\ \/ Len(disk[target].partial) = Blocks /\ UNCHANGED faults
     \/ Len(disk[target].partial) < Blocks /\ Fault
  /\ disk' = [disk EXCEPT ![target].artifact = disk[target].partial, ![target].partial = NoFile]
  /\ job' = [job EXCEPT !.at = "verifying"]
  /\ UNCHANGED <<status, downloaded>> /\ Elsewhere

\* offline, an error status, a stall, a timeout, a full disk; a restart of the
\* range may have removed the partial file before
AttemptFails ==
  /\ job.at \in {"opening", "streaming"} /\ Fault
  /\ UNCHANGED disk \/ (job.at = "opening" /\ Partial(NoFile))
  /\ \/ /\ job.attempt < MaxAttempts
        /\ job' = [job EXCEPT !.at = "waiting"] /\ UNCHANGED <<status, downloaded>>
     \/ Throw
  /\ Elsewhere

Retry ==
  /\ job.at = "waiting"
  /\ \/ job' = [job EXCEPT !.at = "opening", !.attempt = @ + 1] /\ UNCHANGED <<status, downloaded, faults>>
     \/ Fault /\ Throw
  /\ UNCHANGED disk /\ Elsewhere

\* Mutation: a file that failed the checksum stays
Verified_Keeps ==
  /\ job.at = "verifying"
  /\ \/ /\ disk[target].artifact = Full(job.man.b)
        /\ Partial(NoFile) /\ downloaded' = job.man
        /\ Show("downloaded", target) /\ job' = Idle
     \/ /\ disk[target].artifact # Full(job.man.b)
        /\ UNCHANGED disk /\ Throw
  /\ UNCHANGED faults /\ Elsewhere

\* the rest of ensureDownloaded
Verified ==
  /\ job.at = "verifying"
  /\ \/ /\ disk[target].artifact = Full(job.man.b)
        /\ Partial(NoFile) /\ downloaded' = job.man
        /\ Show("downloaded", target) /\ job' = Idle
     \/ /\ disk[target].artifact # Full(job.man.b)
        /\ disk' = [disk EXCEPT ![target].artifact = NoFile, ![target].partial = NoFile]
        /\ Throw
  /\ UNCHANGED faults /\ Elsewhere

-----------------------------------------------------------------------------
(* Restart to update, and the end of the program, asked for or not *)

requestRestartToUpdate ==
  /\ running /\ downloaded.v # 0 /\ ~installRequested
  /\ installRequested' = TRUE
  /\ UNCHANGED <<server, disk, install, channel, running, status, downloaded, pending,
                 job, faults, exits>>

\* Mutation: the version that is shown is installed, not the one that was verified
Quit_Shown ==
  /\ running /\ exits < MaxExits /\ exits' = exits + 1
  /\ running' = FALSE
  /\ helper' \in {0} \cup (IF installRequested THEN {status.target} ELSE {})
  /\ status' = [phase |-> "idle", target |-> 0] /\ job' = Idle
  /\ downloaded' = NoManifest /\ pending' = NoManifest /\ installRequested' = FALSE
  /\ UNCHANGED <<server, disk, current, content, channel, faults>>

Quit ==
  /\ running /\ exits < MaxExits /\ exits' = exits + 1
  /\ running' = FALSE
  /\ helper' \in {0} \cup (IF installRequested THEN {downloaded.v} ELSE {})
  /\ status' = [phase |-> "idle", target |-> 0] /\ job' = Idle
  /\ downloaded' = NoManifest /\ pending' = NoManifest /\ installRequested' = FALSE
  /\ UNCHANGED <<server, disk, current, content, channel, faults>>

\* the install script replaces the bundle and removes the archive, or fails
HelperEnds ==
  /\ helper # 0 /\ helper' = 0
  /\ \/ /\ current' = helper /\ content' = disk[helper].artifact
        /\ disk' = [disk EXCEPT ![helper].artifact = NoFile] /\ UNCHANGED faults
     \/ Fault /\ UNCHANGED <<current, content, disk>>
  /\ UNCHANGED <<server, channel, running, memory, exits>>

-----------------------------------------------------------------------------
Publisher == \E v \in Version : Upload(v) \/ Announce(v)
User == start \/ checkNow \/ downloadNow \/ requestRestartToUpdate \/ Quit
Work == checkNowInternal \/ downloadFileCore \/ Chunk \/ Finish \/ Retry \/ Verified
Trouble == FetchFails \/ AttemptFails

Next == Publisher \/ User \/ Work \/ Trouble \/ HelperEnds
Spec == Init /\ [][Next]_vars

\* the interval's timer fires, and what is awaited ends
FairSpec == Spec /\ WF_vars(checkNow) /\ WF_vars(Work)
-----------------------------------------------------------------------------
(* Properties *)

ServerOK == latest \in Manifest /\ served \in [Version -> 0..MaxBuild]
DiskOK == disk \in [Version -> [manifest : 0..MaxBuild, partial : Files, artifact : Files]]
InstallOK == current \in 0..MaxVersion /\ content \in Files /\ helper \in 0..MaxVersion
StatusOK ==
  /\ channel \in {"daily", "dev"} /\ running \in BOOLEAN /\ installRequested \in BOOLEAN
  /\ status \in [phase : {"idle", "checking", "available", "downloading", "downloaded",
                          "up-to-date", "error"}, target : 0..MaxVersion]
  /\ downloaded \in Manifest /\ pending \in Manifest
JobOK ==
  job \in [at : {"idle", "fetching", "opening", "streaming", "waiting", "verifying"},
           man : Manifest, attempt : 0..MaxAttempts, src : 0..MaxBuild, manual : BOOLEAN]
BoundsOK == changes \in 0..MaxChanges /\ faults \in 0..MaxFaults /\ exits \in 0..MaxExits

TypeOK == ServerOK /\ DiskOK /\ InstallOK /\ StatusOK /\ JobOK /\ BoundsOK

(* The update a restart would install is on disk, whole, is the build its    *)
(* manifest names and is newer than the program; and it is the version the   *)
(* user is shown as downloaded.                                              *)
ReadyIsReal ==
  /\ TypeOK
  /\ downloaded.v # 0 => downloaded.v > current
                         /\ disk[downloaded.v].artifact = Full(downloaded.b)
  /\ status.phase = "downloaded" => downloaded.v # 0 /\ status.target = downloaded.v

(* What gets installed is newer and, as a whole, the build its manifest      *)
(* names, whatever was interrupted, resumed, rebuilt or withdrawn on the way. *)
InstallsWholeBuilds ==
  [][current' # current
       => current' > current /\ content' = Full(disk[current'].manifest)]_vars

(* No bad file sticks: while the program runs, a newer version stays         *)
(* published and the network is well, the daily channel ends up with it.     *)
KeepsUp ==
  []<>(\/ ~running \/ channel = "dev" \/ latest.v <= current
       \/ latest.b # served[latest.v]      \* replaced, and not announced yet
       \/ downloaded.v = latest.v)

(* "If a previously downloaded update is still valid on disk, restore its    *)
(* state so the UI shows the correct (actually downloaded) version, not the  *)
(* version whose download just failed."  (update-service.ts:1324)            *)
RestoresDownloaded ==
  running /\ job.at = "idle" /\ downloaded.v # 0 => status.phase = "downloaded"
=============================================================================
