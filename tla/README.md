# noevia: a verification development

This directory models the control logic of this repository in TLA+, checks it with TLC and proves
the central results with TLAPS. The repository holds no application server: the Node Core
(`noevia-core`), the Rust front (`noevia-rs`) and the services live in repositories of their own and
are pinned in `release/versions.lock`. What is here decides **which halves run together, how they
start and stop, how a release is put together and installed, and what the operator is told**. Its
programs are shell, Python, Node and Rust scripts that run once, often beside each other, and change
state on disk and in Docker; almost everything that can go wrong is a failure, a signal or another
run *between two commands*. That is what the models are about.

Paths below are relative to the repository's root. In `PROJECT.json`, `map` ties every definition to
the lines it translates and `hazards` lists what is hard to test, by line.

## 1. Inventory

"Pair" has two meanings in the code, kept here: *the pair* is a Core process with its front; *an
ownership pair* is a group of routes that moves from Core to the front as a whole.

| Component | State it keeps | Operations | What is hard, and what must hold | Model |
|---|---|---|---|---|
| **Web supervisor** `build/web-supervisor.sh` | flags and pids of the script, two children, the lock `embedding-pair.lock` on the data directory | start checks, `flock`, launch, `wait -n`, `stop()`, TERM/INT trap, joins, exit | signals between any two commands, a child that ignores TERM, a start over a half-dead predecessor. No route or store with two owners; front joined before Core is signalled; both joined before the exit; the end of either ends both | StartGate, WebSupervisor, PairLifetime |
| **Restart alert** `deploy/tools/sidecar-restart-alert.sh`, `--ack` from `deploy/preflight/up.sh` | baseline file (a line per container), remote state file (a line per service) | a timer's check; `--ack` after a deploy; per-container notices; replacement of both files | no lock: runs overlap each other and deploys; sends fail; runs die. Nothing swallowed, known deploys quiet, one notice per outage and recovery | SidecarAlert, RemoteAlert |
| **Remote service probe** `deploy/tools/remote-services.sh` | none | one health probe with address and key rules | its verdict feeds the restart alert | RemoteAlert (verdict only) |
| **Diary overlay release** `deploy/examples/diary-overlay.sh` | `DIARY_VERSION` in `.env`, image tags, the running container, three flags | candidate build and proof, scoped backup with Diary stopped, cutover, rollback, EXIT trap | every command may fail, recovery too; a closed ssh session at any moment. Diary is left running, on the version `.env` names, on the old one after a failure | DiaryOverlay |
| **Web overlay release** `deploy/examples/overlay-release.sh` | release link, `COWORK_VERSION`, a copy of `.env`, web and Diary containers | checks, build, copy, link, `sed`, `up.sh` and isolation check, rollback | no trap; failures between link and `.env`; a rollback that copies the whole `.env` back. Link, `.env` and containers on one release | OverlayRelease |
| **Release assembler** `deploy/tools/assemble-release.sh` (+ `lib/rs-capability.cjs`, `lib/dockerfile-rs-features.cjs`, `build-web-release.sh`) | private work tree, partial archive, output file | resolve a lock's components, 60 pairing guards and those of chat, web address and source store, read capability markers, pack, publish | pairs move one at a time in any order their needs allow; rollbacks run the guards on old commits; several readers of the same facts (assembler, marker reader, supervisor, and Docker and Cargo themselves). No stranded route, one owner per route and transcript, nothing made that cannot start, no marker read that the image does not have | OwnershipPairs, ReleaseGuards, ReleaseAssembly, FeatureProof, Detection, RsCapability, ReaderForms |
| **Idle release gate** `deploy/tools/release-idle-jobs.sh`, `.cjs` | none: reads the job directories of a running server | probe of the job store, listing of accounts, reading of each directory, wrapper's timeout | jobs begin, end and accounts appear while it reads. No job that was running is missed; what cannot be read is busy | IdleGate |
| **Framing evaluation** `experiments/framing-eval/` | calls and retries of the backend, results, report | refusals, plan, framed and reasoner legs, retries, cap, verdicts, report | requests that outlive their packet; a cap met in the middle of a packet. No call without approval, none beyond the cap; every candidate judged on the same packets | FramingEval |
| **Embedding parity check** `tools/embed-parity-check.cjs` | none | batches to two servers or beside a reference file, comparison | servers answer a batch in an order of their own. A pass means parity of each text | EmbedParity |
| **Repository split** `tools/repo-split` | clones, one per run and repository; the remote `main` of each repository | extract, verify and push with a lease, for one repository or all in turn | people commit to a remote, and other runs replace it, between any two git commands. A remote `main` is replaced only by the verified extraction of a cut; a person's commit only by a run that named exactly it | RepoSplit |
| **Offsite mirror** `deploy/offsite/rclone-sync.sh` | the remote copies, the run lock, the status the Off-site backups page shows | lock, refusals, copy, capped prune | the store changes, and may come off its mount, while a run copies it; runs overlap, fail and die. Nothing is pruned that retention did not remove; "ok" means copied | OffsiteMirror |
| **Preflight start** `deploy/preflight/` | installed hook files, backups | install, image guard, model check, configuration check | a partial install | planned |
| **notify_push repair** `deploy/nextcloud/repair-push.py` | the binary, its backup, the service | replace, restart, restore | a service that does not come back on either binary | planned |
| **Candidate boot** `deploy/tools/candidate-boot.sh` | throwaway containers, volumes | boot, probe, clean up | leftovers on an early exit | planned |
| **Managed volume init** `deploy/init-managed.sh` | secrets on a volume | exclusive link of the first writer's file | several first starts at once | planned |
| **Claude Diary connector** `integrations/claude-diary` | none but its retry | one request to one HTTP call | a retried write | planned |
| **Egress profile qualification** `deploy/tools/check-egress-*`, `qualify-egress-*`, ... | none | single-pass checks | stateless | no |
| **Compose, Dockerfile, CI** | none | configuration | enters the models as assumptions on the environment | no |

How they interact. `assemble-release.sh` makes a release from pinned commits; `release-idle-jobs.sh`
says whether a cutover may begin; `overlay-release.sh` and `diary-overlay.sh` install by editing the
same `.env` and calling `deploy/preflight/up.sh`, which checks the stack, runs `docker compose up`
and then the restart alert's `--ack`; the web container's entry point is the supervisor, which reads
the same two halves the assembler read and refuses what it does not like. So a guard of the
assembler and a start check of the supervisor must agree (`StartsOnceMade`), a deploy and the
timer's check race for one baseline (`KnownDeployQuiet`), and two overlay scripts share one file and
one container (`OneRelease`, `DiaryNamed`). Four tools stand apart and share nothing: the two that
judge a model before it is put into a release, the mirror that runs from a timer beside noevia's
retention, and the split that publishes the repositories a release is later assembled from.

## 2. The modules

Sources are mapped definition by definition in `PROJECT.json`; this is the reading guide. Every
module keeps an operator per command or handler. Operators marked *Mutant* are not part of a
specification: each is a definition changed the way a plausible bug would change it, and shows that
a property can fail.

### StartPairs, PortText, StartGate, StartCheck - the start checks

An `Image` is what the script reads of one container start: the lines of `noevia-server --features`,
the markers in Core's files, the embedding and source-job exports, the worker path, the front
selected, `UI_PORT`. `StartAllowed` is the conjunction of the checks: a refusal starts nothing, so
order matters only to its status (`RefusedWith`: 2, or 1 where `set -u` ends the script because
`UI_PORT` could not be added to). `PairAllowed` is all of them but the ports'. `PortText` is
`UI_PORT` as the shell reads it: text, compared by `[` in decimal (`InRange`; beyond the shell's
numbers both comparisons fail, `Comparable`), and added to by `$((...))`, which takes a leading zero
as octal (`ShellReads`) and wraps (`Plus`). `CoreOwns` and `FrontOwns` say what each half serves
once started, from the comments beside each check. The script has one block per ownership pair, all
alike; `Pairs` is a constant (`StartPairs`), and the two special ones (source-job store, worker
path) are named beside it. `StartCheck` is one container start up to the lock: an image is asked
about, and started or refused.

### WebSupervisor, PairLifetime, MCWebSupervisor, WebSupervisorProof - the process supervisor

One start of a container is a main line (`main`: `lock`, `locked`, `forkNode`, `recNode`,
`forkFront`, `recFront`, `waitAny`, `stop`, `waitNode`, `waitFront`, `exit`, `gone`), possibly
suspended by a call of `stop()` (`body`: `term`, `poll`, `join`, `core`) that a trap or the main
line made. `... &` and `x_pid=$!` are two steps (`Fork`, `Record`) since the trap can run between
them; a wait in progress returns when the trap has run and is not repeated (`AfterWait`). `fd` holds
the processes with descriptor 9, the lock the children inherit: the lock is free only when no
process of any start has it. `Die` is KILL (or TERM before the trap is set); the container's
teardown then kills what is left (`Teardown`).

`PairLifetime` is the abstract promise ("a replacement cannot start before both exit"): a holder of
the data directory, processes only while their start holds it. `PairSpec` is the refinement:
`holders` are the starts with an open descriptor, `live` their live processes.

### SidecarAlert, RestartAlertProof - containers that restart

Docker's containers change by themselves (`Finish`, `Crash`, `Restart`, `Remove`, `Replace`) and by
deploys (`Deploy`). A run lists the containers (`Start`), inspects each (`Inspect`), reads the
baseline (`ReadBaseline`), compares and notifies container by container (`Compare`, which may fail
to send and then keeps the previous line), and replaces the file (`Write`). `Lost` ends it anywhere.
Runs may overlap: the script takes no lock. `n`, `bad`, `known`, `acked`, `seen` are history: change
numbers, the last change somebody was told of, the last one acknowledged. `News` and
`ExpectedRestart` are the comparison.

### RemoteAlert, MCRestartAlert, RestartAlertProof - remote services

One line `(fails, alerted)` per service. `Probe` reads line and verdict, `FinishUp`/`FinishDown` do
the rest of `remote_check`: counter, threshold, recovery, the silent first run, `--ack`, and what a
failed send leaves. `told` is what the operator believes. `MCRestartAlert` puts the two parts of the
script side by side: they read and write different files, so a behaviour is one of the containers or
one of a service.

### DiaryOverlay, OverlayRelease, MCOverlays, OverlaysProof - the two overlay releases

*DiaryOverlay*: `pc` walks the script from the checks to the trap. A failing command outside an `||`
is `Abort`; a signal is `Interrupt` (also in the middle of a command: `Partial`); `CutOver` and
`Confirm` lead to `rollback()` when they fail; `Recover` is `recover_diary`, which can itself fail;
`OnExit` the EXIT trap; `RunAgain` the operator's next run, who does what a message asked for first.
`cut` records that a run ended in or after its cutover without a complete `rollback()`. The removals
of an image are behind `|| true`: `RemoveTag` and `DropCandidate` may fail, and docker refuses the
last name of an image a container has (`InUse`). `unremoved` records that a removal of the candidate
failed without that reason.

*OverlayRelease*: `wpc` walks the other script: `Checks`, `Build`, `CopyEnv`, `Repoint` (the link),
`SetVersion` (the `sed`), `CutOver` (up.sh and the isolation check, the condition of the `if`), and
the rollback `Unlink`, `Restore`, `UpAgain`. `CutShort` is `set -e` or a signal anywhere: no trap
recovers, and `wcut` remembers it. up.sh recreates Diary too, on whatever `.env` names: `env`, `box`
and `tag` are the same variables in both modules.

*MCOverlays* composes them over one `.env` and one Diary container. Each script copies the *whole*
of `.env` back when it rolls back, so the Diary script's copy also holds a `COWORK_VERSION` (`kept`)
and the web script's a `DIARY_VERSION` (`bak.diary`). `Overlap` says whether one may run while the
other is under way.

### OwnershipPairs, ReleaseGuards, ReleaseAssembly, MCReleaseAssembly, ReleaseProof - a release

`OwnershipPairs` is data: for each of the 60 pairs the routes a moved front must own, the
capabilities it needs, and what else its block reads (`old`, `refusal`, `handler`, `bridge`,
`optional`). It is the value the runs give `Table`, a constant of `ReleaseGuards`, so that the
proofs are about the form of the guards and not about sixty rows. `ReleaseGuards` evaluates the
table (`PairAgrees`, `Moved`, `Contract`) and adds the guards that are not of that form: retention,
web address, source store, project routes, sign-in, start id, transcripts (save, delete, move),
brain journal. `Accepts` is their conjunction. `ReleaseAssembly` is one run: each component exported
or fetched and verified, the guards, the partial archive, the rename, `Die` at any point with the
trap. What the proofs take from the table is stated in three assumptions, which TLC evaluates on the
real one: `TableAssumption` (a pair that has a route has a method for it), `NamesAssumption` (the
pairs the guards name apart), `RoutesAssumption` (which pairs may share a route). `Fit` is what the
script takes for granted of two commits.

`RsOf` and `CoreOf` are commits that have moved a set of pairs and nothing else.
`MCReleaseAssembly` builds the commits of the run from them: canonical ones, and each with one thing
wrong.

### FeatureProof, Detection, RsCapability, ReaderForms, MarkerProof - reading a capability marker

`FeatureProof` is `dockerfile-rs-features.cjs`. A Dockerfile is a sequence of lines, one instruction
each, and a stage is the line of its `FROM` (`Froms`, `StageAt`, `Earlier`). Here are what the file
as a whole is refused for (`Readable`), the stages a stage inherits from (`Chains`, `ChainKnown`)
and their lines (`InsOf`), the one write of the binary's path along the final chain (`DirAt`,
`Writes`, `Placed`, `ProvenCopy`), the chain of the stage it copies from with its four lines, the
last one the cargo command (`ProveBuild`, `Front`, `PlainBuild`, `Requested`), and the closure of
its features over the manifest (`Visit`, `DeriveFeatures`).

`Detection` is the reader of the source (`Detect`, `Array`). `RsCapability` is the command: it is
given a `reading` (a file, a manifest, a source) and gives an `answer` (`ReadMarker`). The reader
proves literals: an element that is a path is passed over, though it may stand for the capability
(`"alias"`).

Beside the readers stand what they are about. `Roots` is the file system after every line as Docker
makes it (`RootAt`), with what is *certain* of the binary and of the build's output; `Ships` is what
the last line leaves. A `RUN` may replace the binary without naming it (`"unnamed"`); `Unseen` says
that the image is made with one, which the reader cannot see. `CargoBuilds` is the least set of
features closed under the manifest. `Lists` is what rustc makes of the `cfg`s: `Says` that the
binary's `FEATURES` has the capability, `Spells` that a literal puts it there. `MarkerTrue` compares
the two sides: `v1` promises `Says`, `legacy` only that it is not spelled.

A reader that refuses everything is never wrong. `ReaderForms` holds what this one is there to read:
three forms of Dockerfile (`OneBuild`, `OneFile`, `Among`) over the build commands in use (`Usual`),
the manifests (`Cargos`) and sources (`Conditional`) that go with them. `MarkerRead` says that they
are read.

### IdleGate, ReleaseProof - may a cutover begin

The gate (`Prove`, `List`, `Read` of one directory at a time, `Answer`, `GiveUp` for the wrapper)
and the server beside it (`Begin`, `End`, `Join`). Jobs that ran before the gate was started (`old`)
are kept apart from those begun since (`new`): the second kind can be missed, by design.

### MCRelease - the four decisions of a release

Assembler, marker reader, idle gate and start checks share no state: each reads inputs of its own. A
behaviour of `MCRelease` is one of one part, with the other three decided (`AssemblyRests`,
`IdleRests`, `ReaderRests`, `StartRests`). It also builds the images, and spoils the Dockerfiles,
manifests and sources of `ReaderForms`.

### FramingEval, EmbedParity, MCModelEval, FramingEvalProof, EmbedParityProof - judging models

*FramingEval*: a command line and its case file (`o`) are refused before a backend exists (`Answer`)
or run: `Send` counts a call (`Done`, or `Retry` after 429/5xx), `CapReached` is `CallCapError`,
`Deadline` the abandonment of a packet whose request is in its pause, `LateRetry` what that request
does later behind the run's back, `NextLeg` and `WriteReport` the rest. `condense` of noevia-core is
external: it turns any failure into a fallback. `Verdict` is `summarizeCandidate` and `applyKill`
with their rounding.

*EmbedParity*: `Embed` sends a batch and takes its items by index (`InOrder`, a stable sort given by
the `Place` of each item), `Turn` goes to the second server or takes the reference's vectors,
`Decide` compares (`Nearer` and `TopK` are the best documents of a query, `Common` what two such
sets share). A vector is its direction, in twelfths of a turn, and nearness stands for the cosine.

*MCModelEval* runs either tool, with the other refused.

### OffsiteMirror, ToolsProof - the mirror of the sealed store

noevia adds objects (`Keep`) and retires them (`Retire`), the folder may come and go (`Mount`), and
a run, with or without `--dry-run` (`dry`), is `start`, `check`, `list`, `copy`, `relist`, `sync`,
`prune`: `Lock` is `flock -n`, `Look` the refusals, `List` the listing each of the two `rclone`
commands begins with, `Transfer` one object, `TryAgain` its retry when a listed object is gone,
`Transferred` the end of a copy, `Prune` one deletion below the cap, `Fails`, `Finish` and `Killed`
the ends. `rclone` itself is external: it copies what it listed before it deletes what it did not. A
dry run goes through the same commands, transfers and deletes nothing, and writes its status like
any other. History: `retired` (removed by retention), `found` and `shown` (the folder the run under
way, and the one the page calls ok, began with), `rehearsed` (a dry run wrote what the page shows),
`torn` (the mount changed under a run that had looked), `lost` (pruned though never retired).

### RepoSplit, ToolsProof - publishing the split repositories

A run (`Call`) takes one repository after the other through `Clone`, `Filter`, `Scaffold`, `Verify`
and, with `--push`, `LookAtRemote` and `Push`; `GiveUpOn` ends it anywhere, with the repositories it
has not come to. A commit is reduced to the cut it was made from, what its tree holds and whether
its message has the `Split-Source` line. `Replaceable` is the test of the remote's head, `saw` the
value given to `--force-with-lease`, `CommitTo` a person's commit. `git filter-repo` is external and
may make a tree that is not the split (`"other"`), which `Verify` must notice. `TrailerKept` says
whether people may keep the trailer in a commit of their own (amend, squash).

*MCTools* runs one of three: `MCModelEval`, the mirror, the split; the others stay as they began.

## 3. What the runs check

All pass with no error except the five marked **V**, where TLC finds the trace described in section
4.

| Run | Question and answer | Bounds | Distinct states |
|---|---|---|---|
| `supervisor_safety` | `SingleWriter` and the refinement `PairSpec` over two starts, with KILL and signals anywhere | 2 starts, 6 images, 2 signals per start, signals in every phase | 94,748 (symmetric) |
| `supervisor_stop` | `FrontStopsFirst`, `JoinedAtExit`, `EitherEndsBoth` for a signal while the pair is up or a crash is handled | 2 starts, 2 images, 1 signal, phases `waitAny`, `stop` | 9,676 |
| `supervisor_launch_signal` **V** | `FrontStopsFirst` with the signal during the launch | 1 start, 1 signal | |
| `supervisor_late_signal` **V** | `JoinedAtExit` with the signal while Core is waited for | 1 start, 1 signal | |
| `restart_alert` | runs that do not overlap. `KnownDeployQuiet`: no check alerts about an acknowledged deploy. `OneNoticePerTurn`, `TurnsTold`: what the operator hears of a remote service, and that outage and recovery are both told | containers: a service that crashes and a one-shot; 1 check, 1 deploy with `--ack`; 2 changes each, 1 fault. Service: 1 check, 1 `--ack`, threshold 2, 2 faults | 367,017 |
| `alert_reported` | `NothingSwallowed` and `ChangesReported` with overlapping runs | 1 container, 2 checks, 1 `--ack`, 2 changes, 1 fault | 239,101 |
| `alert_race` **V** | `KnownDeployQuiet` with overlapping runs | 1 container, 1 check, 1 `--ack` | |
| `overlays` | the two overlay scripts, one at a time, in any order. `DiaryRunning`, `DiaryRolledBack`, `DiaryNamed`, `NoStrayCandidate`: what the Diary script leaves. `OneRelease`: what the web script leaves | 3 faults over 3 runs of each | 30,302 |
| `diary_interrupt` **V** | `NeverLeftDown` | 1 fault, 1 run | |
| `release` | assembler: `NothingStranded`, `OneAnswerer`, `RollbackAssembles`, `StartsOnceMade`, `ChatOneWriter`, `ChatFollowed`, `Verified`. Gate: `NoOldJobMissed`, `UnknownIsBusy`. Marker reader: `MarkerTrue`, `MarkerRead`. Start checks: `OneOwner`, `RollbackStarts`, `PortsValid` | see below | 300,431 |
| `tools` | `OnlyApproved`, `OnPlan`, `ReportComplete`, `KilledFairly`, `EvalEnds` of a framing evaluation; `SameModelPasses`, `PassMeansParity` of a parity check; `PruneFollowsRetention`, `OkMeansCopied` of the mirror; `HumanWorkKept` of the split | see below | 1,163,554 |
| `framing_cap` **V** | `AbortsAtCap` | as the evaluations of `tools` | |

Why the bounds are enough.

- *Supervisor.* Two starts are what the lock is about: a third waits like the second (and the
  theorems hold for any number). Only the first signal of a start calls `stop()`; every later one
  just ends the wait it meets, so two cover "first" and "any later". The images are the pairings
  releases can leave behind: old/old, new/new, the older source-job client pair, an idle newer front
  behind an old Core, and two mixed pairs the gate must refuse. The starts are interchangeable, so
  `SYMMETRY` is sound for the safety run (the run with liveness does not use it).
- *Restart alert.* A line is compared with one earlier line of the same container, so containers
  interact only through the run that reads them; two kinds of container, two changes and one fault
  give every comparison, including one against a line that was kept after a failed send. Overlap
  needs two checks and one `--ack`. A remote service's counter matters only below and at the
  threshold; 2 has both, and `fails` stops at the threshold, as the script only compares with it.
  The proofs lift the bounds.
- *Overlays.* A main line that fails, a recovery that fails and one more fault in the next run;
  three runs of each reach a retry after a failed retry, with a run of the other script before,
  between and after. The theorems hold for any number of runs, releases and faults.
- *Release, assembler.* Canonical commits for no pair, all pairs, each pair with its needs only, and
  all but what needs a given pair; each of the first two with one flaw of Core or of the front at
  each pair (marker, handler, bridge, refusal list, feature, owner, switch, methods, missing row).
  The capabilities of transcripts, web address and source store are taken in every combination, the
  stack of a chat's move whole or up to two parts short. Locks have at most one bad entry, of every
  kind. The guards are conjunctions of per-pair tests, so two flaws in different pairs are refused
  by either.
- *Release, idle gate.* Two accounts under a cap of one are all orders of reading, an account that
  moves in during the reading and one listing above the cap; at most one job of either kind per
  directory. Proved for any.
- *Release, marker reader.* Dockerfiles of a front stage, up to two more stages, a runtime stage and
  a final one, with every form the reader's tests use and every way they spoil it, up to four at a
  time; every program of one cargo command over two features; manifests with and without a default,
  a chain, a dependency feature and each flaw; sources of up to two elements, or one declaration
  between two other items.
- *Release, start checks.* Every image over two pairs (the two special ones, with which blocks of
  ordinary pairs share their text) and one required feature, behind a native front; the extremes
  behind another. `UI_PORT`s on both sides of each limit, unset, with a letter, with a leading zero
  (legible in octal or not) and beyond the shell's numbers. TLC's own integers have 32 bits, so
  `ShellWord` is 2^18 there and stands for 2^64; the theorem is for any of at least 2^18.
- *Model evaluation.* Every refusal one at a time; two cases at every cap from 4 to 9, four cases
  with none, one and two candidates, with and without a reference and `--smoke`, at three caps
  (below, at and above the plan); one retry per request. With three condensed cases every verdict is
  met. Parity: three texts in batches of two - a full batch and a short one - over every three
  directions of either side, every split into documents and queries, `--k` below and above the
  documents.
- *Mirror.* A store of the config object, a snapshot and a chunk is the smallest one that is
  healthy, can stop being so, and has something that is neither; two runs are the timer's and one by
  hand; `MAX_DELETE` 1 is met with one object left to delete; two changes give an object that is
  retired and kept again, one of each kind, and an unmount with a remount. Every start is tried: any
  store, mounted or not, beside any remote that follows it, and every run with and without
  `--dry-run`.
- *Split.* Two repositories for the order of a run over all of them, two runs, one cut (runs of one
  cut differ in the commits they make, and `LookAtRemote` compares those), two commits of people.
  Both are proved for any number.

Fairness. `WebSupervisor!Fairness`: the script goes on; a killed child ends and a finished container
is torn down (the kernel); Core ends once TERMed, since its shutdown hooks have a 3 s budget
(`docs/embedding-background-pairing.md`). Nothing is assumed of the front, which may ignore TERM:
the deadline (`FrontDeadline`) is a step of the script. `SidecarAlert!FairSpec` and
`MCRestartAlert!AlertSpec`: the timer keeps starting checks and a run that started goes on, which a
loss (`Lost`, bounded) may still interrupt; no fairness for containers, services, deploys before
they begin, or faults. `FramingEval!FairSpec`, and `MCTools!ToolsSpec` with it: the run's own
`Step`, as every request has a time limit and pauses end; a late request need never come back.
`EitherEndsBoth`, `ChangesReported`, `TurnsTold` and `EvalEnds` use these.

Deadlock is not checked: every script ends and the bounds stop the environment, so a last state is
legal; what must not hang is stated as liveness instead. In the runs of several parts the others are
at rest.

## 4. Where the code does not do what it says

Each is a run TLC refutes; the trace is short and of the real code's steps.

1. **A signal during the launch** (`supervisor_launch_signal`). TERM after Node is launched and
   before `front_pid=$!` runs `stop()` with no front to stop: Core is signalled at once, the main
   line goes on to launch the front or has just done so, and `stop()` is spent. "Required rollback
   order: stop/join the native owner before stopping Core" (`build/web-supervisor.sh:515`).
2. **A signal while Core is waited for** (`supervisor_late_signal`). The trap interrupts `wait
   "$node_pid"`, which is not repeated; with the front already joined the script exits while Core is
   in its shutdown hooks (`docs/embedding-background-pairing.md:13`: "wait for its shutdown hooks
   and exit").
3. **A check across a deploy** (`alert_race`). Containers are inspected before the baseline is read,
   and nothing locks the file: a check that looked before the deploy and read after its `--ack`
   alerts about the acknowledged replacement, and writes its older lines back ("A successful up is a
   known deploy: re-baseline the restart alert", `deploy/preflight/up.sh:89`).
4. **A closed session during the cutover** (`diary_interrupt`). `diary_stopped` is cleared just
   before `up.sh`, and `rollback()` runs only when `up.sh` returns; a signal in between leaves Diary
   stopped ("so a failed run never leaves it down", `deploy/examples/diary-overlay.sh:123`).
5. **The cap met inside a packet** (`framing_cap`). `CallCapError` ends the run when `timed()` sees
   it, but a packet's request is made inside `condense`, which turns any error into a fallback: when
   retries have used up the cap there and no other call follows, the remaining packets count as
   fallbacks and a report with verdicts is written ("the run aborts when exceeded",
   `experiments/framing-eval/run.cjs:106`). The cap itself holds (`OnlyApproved`).

Six more have no run of their own. They are met in the model, and a property or a theorem of section
5 names them as a condition, without which TLC refutes it.

- *A one-shot that fails and runs again.* With a one-shot in `Crashing`, `NothingSwallowed` fails,
  since Docker has reset the exit code of one that is running again at the next check, and its
  restart passes as expected ("a non-zero exit ... still alerts",
  `deploy/tools/sidecar-restart-alert.sh:10`). `alert_reported` and the theorem assume there is
  none.
- *A port written with a leading zero* (`PortsValid`: `LeadingZero`, `Comparable`). `UI_PORT` is
  compared in decimal and added to in octal (`build/web-supervisor.sh:458`, `462`): 04160 is let
  through as 4160 and gives Core 3160 and the store 4160, the front's own port ("Node behind it on
  UI_PORT+1000", line 5; "at UI_PORT+2000", line 466). More digits than the shell's numbers have
  make both comparisons fail, which lets them through, and wrap in the sum.
- *A candidate that is in use* (`NoStrayCandidate`: `box'.image = "new"`). When the cutover and the
  recovery both fail with the container on the new image, V has gone and V-candidate is that image's
  last name: docker refuses to remove it and `|| true` ignores that ("Any other exit after the build
  removes cowork-diary:$V-candidate ... unless cowork-diary:$V exists",
  `deploy/examples/diary-overlay.sh:125`).
- *A dry run that reports a copy* (`OkMeansCopied`: `rehearsed`). `--dry-run` ends in `status ok
  "Copied N snapshots."` like any run (`rclone-sync.sh:101`), and the Off-site backups page shows it.
  `deploy/offsite/README.md:24-35` says that such a run copies nothing and writes its status; that
  the status claims a copy it does not say.
- *A `RUN` over the binary* (`MarkerTrue`: `Unseen`). The reader refuses a runtime `RUN` by its text
  (`dockerfile-rs-features.cjs:275`): one that writes into `/usr` from another place (`RUN cp -r x/.
  /usr`) passes, and the features of the binary it replaced are answered ("Alternate copies,
  overwrites, ... refuse", `deploy/tools/lib/rs-capability.md:29-31`). A `COPY` or `ADD` to `/`,
  `/usr` or `/usr/local` is seen (`Writes`).
- *A commit that keeps the trailer* (`HumanWorkKept`: `TrailerKept`). A head is taken for an
  extraction by its `Split-Source` line alone (`tools/repo-split/src/lib.rs:574`), which an amended
  or squashed commit keeps ("If someone committed to a split repo, the push stops",
  `docs/repo-split-cutover.md:87`; "the guarded push will refuse to overwrite such commits until
  they are handled", lines 157-158).

Also seen, without a document that promises otherwise, and therefore stated as assumptions or left
out by a history variable: `TurnsTold` needs runs that do not overlap (overlapping ones replace each
other's line) and a service that stays configured (`Unconfigurable = FALSE`); a command that fails
after the last health check (`diary-overlay.sh:305`) ends a run with an error on the new version,
which `RolledBack` leaves out through `cut`; a `sed` of `.env` that fails after the tag was made
leaves the tag, and every later run for that version is refused; a signal in the launch also breaks
`EitherEndsBoth`; with two signals per start, the second one ends the join of a front that has just
been killed, and Core is signalled before the kernel is done with it (`JoinFront`: `FrontStopsFirst`
fails for as long as that takes, so the run and the theorem have one signal); a web release cut
short between link and cutover leaves two releases mixed, and every later run refused (`wcut`); with
`Overlap = TRUE` in `overlays`, `OneRelease` fails: either rollback undoes what the other script
wrote to `.env` meanwhile.

Of the mirror: the folder is looked at once, before a copy that may take hours. If it comes off its
mount after that and shows as empty, `rclone sync` deletes from the remote until it meets
`MAX_DELETE` (`torn`; "an empty or unmounted source cannot wipe the remote",
`deploy/offsite/README.md:43`, holds up to that cap), and the line logged then, "the remote keeps
everything it had" (`rclone-sync.sh:97`), is true only of what is above it.

## 5. What is proved

For every value of the constants, by `tlapm`, from the named assumptions of the modules and what the
table names.

| Theorem | Statement | Argument |
|---|---|---|
| `WebSupervisorProof!GateOneOwner` | `StartAllowed(img)` implies `CoreOwns(img) \cap FrontOwns(img) = {}` | by the kind of route: an ordinary pair, embedding, the source store. Uses `PairsAssumption`, `DistinctFeatures` |
| `WebSupervisorProof!StartOneOwner`, `RollbackIsStarted`, `StartPorts` | `StartSpec => []` of `OneOwner`, `RollbackStarts`, `PortsValid` | below; the last one uses `WordAssumption` |
| `WebSupervisorProof!TypeCorrect` | `Spec => []TypeOK` | each action; uses `MaxSignalsAssumption` |
| `WebSupervisorProof!OneWriter` | `Spec => []SingleWriter` | below |
| `WebSupervisorProof!FrontIsFirst` | `Spec => []FrontStopsFirst` if `MaxSignals <= 1` and no signal comes in `forkFront`, `recFront` | below |
| `WebSupervisorProof!PairIsJoined` | `Spec => []JoinedAtExit` if no signal comes in `waitNode`, `waitFront` | below |
| `WebSupervisorProof!Refinement` | `Spec => PairSpec` | below |
| `RestartAlertProof!TypeCorrect` | `Spec => []TypeOK` | each action; uses `RunsAssumption`, `BoundsAssumption` |
| `RestartAlertProof!Swallowed` | `Spec => []NothingSwallowed` if `OneShots \cap Crashing = {}` | below |
| `RestartAlertProof!DeployIsQuiet` | `Spec => []KnownDeployQuiet` if `~Overlap` | below |
| `RestartAlertProof!OneNotice` | `AlertSpec => []OneNoticePerTurn` | below; uses `RemoteAssumption` |
| `OverlaysProof!DiaryTypeCorrect`, `DiaryIsRunning`, `DiaryIsRolledBack`, `DiaryIsNamed`, `CandidateRemoved`, `ReleaseIsOne` | `OverlaySpec => []` of `TypeOK`, `DiaryRunning`, `DiaryRolledBack`, `DiaryNamed`, `OneRelease`, and `OverlaySpec => NoStrayCandidate`, if `~Overlap` | below; uses `OverlayAssumption` |
| `ReleaseProof!AssemblyTypes`, `OutputVerified`, `TranscriptOneWriter`, `TranscriptFollowed` | `AssemblySpec => []` of `TypeOK`, `Verified`, `ChatOneWriter`, `ChatFollowed` | below |
| `ReleaseProof!ReleaseStrandsNothing`, `ReleaseAnswersOnce`, `ReleaseStarts` | `AssemblySpec /\ CommitsFit => []` of `NothingStranded`, `OneAnswerer`, `StartsOnceMade` | below; uses `TableAssumption`, the last one also `NamesAssumption` |
| `ReleaseProof!RollbackPasses` | `AssemblySpec => []RollbackAssembles` | below; uses `TableAssumption`, `RoutesAssumption` |
| `ReleaseProof!IdleTypeCorrect`, `IdleMissesNothingOld`, `IdleMeansKnown` | `IdleSpec => []` of `IdleTypeOK`, `NoOldJobMissed`, `UnknownIsBusy` | below; uses `IdleAssumption` |
| `MarkerProof!DerivedIsShipped` | for any lines that are not `Unseen` and any finite feature table: what `DeriveFeatures` answers is what `Ships` finds certain of the image's binary | below |
| `MarkerProof!DetectionTrue` | for any source: an answer of `Detect` is what `Spells` makes of it, if the features it was given, where it was given any, are those of the build | below |
| `MarkerProof!MarkersTrue` | `ReaderSpec => []MarkerTrue` | the two before; uses `ReadingsAssumption` |
| `MarkerProof!FormsAreRead` | for any plain build program and any finite manifest that declares what it and the legacy build ask for: `DeriveFeatures` answers for `OneBuild`, `OneFile` and `Among`, with what `Ships` finds | below |
| `MarkerProof!MarkersRead` | `ReaderSpec => []MarkerRead` | `FormsAreRead`; uses `ReadingsAssumption` |
| `FramingEvalProof!EvalTypeCorrect`, `CallsApproved`, `CallsOnPlan`, `ReportIsComplete`, `KillsFairly` | `Spec => []` of `TypeOK`, `OnlyApproved`, `OnPlan`, `ReportComplete`, `KilledFairly` | below; uses `OptionsAssumption`, `RetryAssumption` |
| `EmbedParityProof!PassIsParity`, `ItselfPasses` | `ParitySpec => []` of `PassMeansParity`, `SameModelPasses` | below; uses `ChecksAssumption`: the inputs have a vector for each text |
| `ToolsProof!MirrorTypeCorrect`, `PrunesRetired`, `OkIsCopied` | `MirrorSpec => []` of `MirrorTypeOK`, `PruneFollowsRetention`, `OkMeansCopied` | below; uses `MirrorAssumption` |
| `ToolsProof!SplitTypeCorrect`, `WorkIsKept` | `SplitSpec => []SplitTypeOK`; `SplitSpec => HumanWorkKept` if `TrailerKept = FALSE` | below; uses `SplitAssumption` |

*Start checks.* A verdict is `StartAllowed` of the image (`Decided`), so the three theorems are
about that predicate, for any pairs and features. `GateOneOwner` is the half of `OneOwner` that
counts; `GateSomeOwner` adds that no route is left without an owner. `StartPorts` is for every text
of `UI_PORT` that the shell can compare: in range it stays clear of the shell's word, so the sums do
not wrap, and an octal text names no more than the decimal one it was compared as.

*Supervisor.* `SingleWriter` is not inductive: nothing in it says why the owners of another start
are gone. `LockInv` adds it: every live child holds the descriptor (`FdOfChildren`), so does a
script past the lock (`FdOfScript`), at most one start holds it (`OneHolder`), and whatever holds it
passed the gate (`Gated`). Then two live processes belong to one start, and `GateOneOwner` divides
the routes between them. The same invariant makes every step a `PairLifetime` step or a stutter:
`TryLock` is `Acquire`, `Fork` is `Launch`, exits and ends are `End`.

*Stop order.* `FrontStopsFirst` depends on where the call of `stop()` was made from. `StopInv` says
it of one start at a time (`Orderly`): a call made before the first signal is of the main line,
after one of the two had ended; a call that has come to Core has joined the front, or the front was
not launched, or Core is gone; so Core is `termed` only when the front is down. Its two restrictions
are the two ways the code fails: a signal between the launch of the front and `front_pid=$!`, and a
second signal that cuts the join short. `JoinInv` (`Joined`) is what the two waits have seen, and
needs no bound on the signals, only that none arrives during them.

*Restart alert.* `NothingSwallowed` speaks of the file; a run carries lines in `snap`, `old` and
`out` from before other runs wrote it. `ToldOf` says of each of them what has been told, by the
phase of the run and whether the container has been compared. A line that is compared as "same run,
nothing new" must not hide a change: `History` orders the lines of one container (`Ordered`, `Past`:
within one run it only goes from up to down, ids and runs only grow), and `Honest` keeps non-zero
exits out of containers that do not crash.

*Known deploy.* `QuietInv`: change numbers name the lines of a container (`Dated`), what the file
says is never older than what was acknowledged (`Behind`), and the one run there is looked after the
file was written and compares with what it still says (`UpToDate`). Without overlap a line it
alerts about is therefore newer than the last `--ack`; `alert_race` is what becomes of `Alone`
otherwise.

*Remote alert.* A notice repeats the last one when the line a run read contradicts what the operator
was told. `Agreed` says that `alerted` is true exactly when the operator believes in an outage or
has acknowledged one, as long as no run died between the two; `Alone` that at most one run is under
way and that the line it read is the line there is.

*Overlays.* What a run leaves depends on where the last one of *either* script stopped, so the
invariant has a part per region of the scripts: `Preparing` (until `DIARY_VERSION` is written
nothing but the candidate and a stopped Diary), `Cutover` (from there into `rollback()`: the new
version, the tag, no flag that would start the old container), `Leaving` (trap and `recover_diary`),
`Resting` (both at rest: Diary as `.env` names it unless something was cut short), `Releasing`
(link, `COWORK_VERSION`, copy of `.env`). `CandidateRemoved` is of the step that ends a failed run,
`OnExit` or the `Recover` that follows it, for which `Leaving` has no candidate left but an excused
one. `Apart` is the assumption that they do not overlap.

*Assembler.* Nothing a run reads changes under it, so a release that is made is of commits the
guards accept (`AInv`: `Fetched`, `Passed`, `Output`), and what it promises follows from `Accepts`
alone. The run's commits are built from the real table; the theorems are for any table and any two
commits that fit it (`Fit`, in section 2: a Core serves what it has not given away, a refusal that
the script does not compare lists its pair's routes, and so on; every release the run makes is of
commits that do). `MovedOwns` and `RefusedOwned`: what Core's file of an accepted pair refuses, the
front's rows have; `ListedOwned` and `WebOwner` say the same of the two files that are of no pair,
and `NothingStranded` is the four together. For `OneAnswerer` a pair that has not moved must be in
no row of the front and in no list of Core's (`UnmovedAnswers`). `RollbackAccepted` goes the other
way, from commits that moved a closed set of pairs to every guard; what could stop it is a route
that two pairs share, one moved and one not, or moved with other methods. `WantedOnce` is where
`RoutesAssumption` excludes that, and `RowsStillNodes` where the shared route of a moved pair would
look, to the block of an unmoved one, like a route that has already gone.

*Marker reader.* `MarkersTrue` is for any set of readings; `ReadingsAssumption` says only that they
are well-formed files and sources and that a manifest declares finitely many features. It has two
halves, about the features and about the source.

`DerivedIsShipped`: the reader follows names backwards from the last stage, Docker runs the lines
forwards. `Walk` brings them together: along a chain, what holds of a base image and survives each
of the chain's own lines holds after them, if no line is a trigger. Along the final chain the reader
thus knows Docker's directory (`DirStep`), and that a line which neither writes the path nor
touches it keeps the binary (`EffectMild`, `Runtime`); along the chain of the copy's source, that
the four lines are run in their order and no other, so its output is what cargo makes of the one
command (`Building`). `Building` also needs that the stage named is the same one for both, which
`Readable` gives by refusing a name used twice (`OneName`). Last, rounds of `Grown` stop growing
after as many as the table has features (`ReachGrows`, `ReachEnds`), within every closed set that
has the start (`ReachWithin`): that is the smallest one, which Cargo turns on (`VisitIsBuilt`).

`DetectionTrue`: one declaration, unconditional, whose element is unconditional or under one `cfg`
(`AttrsHold`, `ArrayTrue`). It is about literals, in both directions; what is spelled is said
(`SpelledIsSaid`), which is all `MarkersTrue` needs for `v1`.

`MarkersRead` is the other direction: none of the reader's refusals meets a file of the usual forms.
Its core is `FormsAreRead`. `StageIs` gives the stage of each line of a form, `ChainAlone` and
`ChainFrom` the chain of a stage that begins on its own or on another; `BuildRead` and `ImageRead`
name what the lines of the build chain and of the final chain must be for the reader to go through,
and the three forms have them (`OneBuildRead`, `OneFileRead`, `AmongRead`). The closure stays within
the manifest because that is closed (`Derived`, from `ReachWithin`). `DerivedIsShipped` then says
what was read. Sources are four, read one by one (`SourceRead`). The run meets the usual programs in
`OneBuild` and one program in the other two forms; the theorem is for all of `Canonical`.

Both `Chains` and `Roots` are recursive functions, `Reach` too, and the library's theorems of
induction take an operator, which the prover cannot instantiate. What is used instead is a fact of
sets: a set of numbers has a least element (`Least`, from the well-foundedness of `<`), so the set
of lines that break a claim, were it not empty, would have a first one. `Recursion` proves the same
way, once, that such a function obeys its equation; `ChainsOf`, `RootsOf`, `ActiveAll` and `ReachOf`
are that for each of the four.

*Idle gate.* `Reading`: every directory with an old job is still to be read or has been counted, and
every unknown one is still to be read. `Elsewhere`: accounts that move in have no old jobs. The
server only ends old jobs, so neither it nor the order of reading breaks that.

*Framing evaluation.* `OnPlan` bounds a number of calls that late requests raise behind the run.
`Used` is what the plan provides for up to the run's position; `Counted` says that calls made and
requests still in their pause are at most that and the retries, and `Recorded` that the rows follow
the position. The plan is a product of two sizes that are never evaluated: `Sizes` and `Times` give
what is needed. `KilledFairly` compares rates after they were rounded to four places: rounding keeps
the order (`RateKeepsOrder`) and takes a whole share to the whole (`RateOfAll`), so a candidate
below either criterion has failed a case that the other side did not (`AllSuffice`, `NotBehind`).

*Parity check.* `Kept`: what is kept of a side is always the beginning of its own vectors, in
whatever order a server answers, since the sort puts the items of a batch back (`OrderKept`, from
`PutBack`); a verdict compares whole sides (`Judged`). For a model beside itself the share of common
documents must be exactly the whole, with `k` above or below the documents: nearness and then the
place in the file order a query's documents (`NearerOrders`), elements of a finite order have ranks
without gaps (`RankIsPlace`, `FirstPlaces`), so `TopK` has `Depth` documents (`TopByRank`,
`AllInCommon`).

*Mirror.* `PruneFollowsRetention` counts on a listing that is out of date by the time it is used.
What a run listed was in the store, so what it lacks is missing or retired since: `FromStore` says
that every object ever seen is still kept or retired, `Prunable` that what the remote has and a
listing of an untorn run lacks has been retired, `SeesStore` that such a run looks at the store and
not at an empty folder. `Alone` (the lock) keeps the remote from growing under a prune, which is
what `Prunable` would not survive. `Copied` carries what a run without `--dry-run` found from
the end of its copy to `ok`; a dry run changes nothing on the remote, so it only has to be kept from
the page (`rehearsed`).

*Split.* `HumanWorkKept` speaks of a push, but the tests it rests on were made two commands before.
`Compared`: from the verification to the push the clone is the verified tree of the cut asked for.
`Leased`: the head the lease names passed `Replaceable`, and the lease makes it the head replaced.
`OwnWords`: without `TrailerKept` a person's commit has no trailer, so it can only have passed by
name. `Fresh`: a run that has ended has no lease left over.

Only model-checked, on the bounds above: the liveness properties `EitherEndsBoth`,
`ChangesReported`, `TurnsTold` and `EvalEnds`, since the prover does not do fairness. Every
invariant and action property that a passing run checks is proved.

## 6. Abstractions, and what is not modelled

- *Supervisor.* The environment handed to the children, the start id and the token are left out; the
  5 s deadline may pass at any moment, so the sum of the budgets against Docker's 10 s is not
  checked. The test and set of `stopping` is one step. `noevia-server --features` and the greps are
  the sets they yield.
- *Restart alert.* `StartedAt` and `RestartCount` are one number; Docker resets `ExitCode` at a
  start; `--strict`, `--dry-run` and the wording are left out. `Overlap = FALSE` is a restriction of
  the environment that the script does not enforce: nothing but the spacing of the timer's runs
  keeps them apart.
- *Remote alert.* One service (each has a line of its own); a run lost between its notice and its
  write is `cut`, which the liveness properties exclude.
- *Overlays.* The proof of the Diary candidate (imports, self-tests, smoke), the archives' checks
  and the web image's base are their outcome. A second signal while `on_exit` runs is not modelled.
  `RunAgain` assumes the operator did what the message asked. `ocr` is recreated like Diary and no
  other script touches it.
- *Assembler.* What a guard greps for is one token of the commit; the awk over `routes.toml` and
  `FEATURES` is its result. The script does not read, in an *open* block, the routes before the move
  and the refusal list after it, so `OneAnswerer` is about the blocks that read both sides. An old
  Core is taken to carry its handlers, and a front to list a web-address capability only with its
  rows (without this `StartsOnceMade` fails: the assembler does not read rows of a capability Core
  says nothing about). Core's list of project routes is compared with the front's in one direction;
  the run's lists hold only chat routes, which are checked in both. The features the supervisor
  alone requires (embedding, preset baseline, `rust-auth`, the front's route features) are given to
  every image. A KILL during `tar` leaves the partial file (no trap runs). The file existence checks
  are part of `Die`. `build-web-release.sh` is a straight line of commands without state of its own
  and is not modelled.
- *Marker reader.* Tokens of Rust, shell and Dockerfile are read into items, commands and
  instructions: quoting, comments and line continuations are not modelled, nor macros and `include!`
  in the source. Path elements of an array are not inspected, as in the code ("this API proves
  literal declarations"); an alias of the capability makes `legacy` true of the literals only. A
  `RUN` that is not one of the two build forms is refused by its text ("touching"), whatever it does
  at run time; one the text does not give away is "unnamed". Features of the implicit form `a/b`
  name nothing in this crate.
- *Idle gate.* A directory's jobs are read at one moment; a job that moves between two directories
  is not modelled (the code has no such move).
- *Framing evaluation.* What an answer is scored for, latency and memory are left out; a report that
  cannot be written is `exit' = 1`. Rounding to four places is modelled, but no book of the run is
  long enough (twelve cases) for it to decide a verdict. `prompt-preparation/run.py`, a loop of the
  same kind without approval, retries or verdicts, is not modelled.
- *Parity check.* `--dims` and the truncation it asks for, duplicate indices in an answer, and
  statistics that decide nothing are left out.
- *Mirror.* Object contents (content-addressed, so an object is its name), temporary files, the log
  and its rotation are left out, and a listing is taken at one moment.
- *Split.* The path map of each repository and what makes two trees byte-identical are the outcome
  of `Filter` and `Verify`. Every run works in a folder of its own: two runs given the same `--out`
  are not modelled, nor people who rewrite a remote's history (a lease refuses that like any other
  commit).
- *Types.* Each module has one type invariant. TLC checks the supervisor's; it and those of the
  restart alert, the Diary script, the assembler, the idle gate, the framing evaluation, the parity
  check, the mirror and the split are proved.
- *Not modelled at all*: the components with "planned" or "no" in section 1. The planned ones are
  independent of what is here (each a script over files of its own), so none of the properties above
  depends on them.

## 7. Plan

Done: start gate and supervisor, restart alert with remote services, both overlay releases and their
composition, the release assembler with its readers, the idle gate, the two tools that judge models,
the off-site mirror, the repository split, and the proofs of section 5. Left, in this order:

1. Supervisor with time: the stop budgets (5 s + 3 s within Docker's 10 s).
2. `NotifyPushRepair`, `PreflightInstall`, `CandidateBoot`: each a script over files with a failure
   at each step; what is left at every end.
3. `InitManaged` (several first starts, one winner), `DiaryConnector` (a retried write), the image
   guard and model check of the preflight.
4. Abstract specification: "a deployment is one release or the other" for the overlays, with
   `OneRelease` as its invariant.

The runs stay few: a new component joins an existing run where one model answers both questions (the
five refuted runs each ask for one property only).
