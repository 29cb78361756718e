# A formal model of coolfymigrater

coolfymigrater turns a host that runs Coolify v3 into one that runs coolifygo: it
reads v3's SQLite, inserts rows into coolifygo's Postgres, recreates every v3
container under coolifygo's names (copying database volumes), and wipes v3. It is
a short sequential program whose difficulty lies in what it leaves on the host
when it stops half way: it may be killed, or any Docker or Postgres call may fail,
between any two steps, and the operator then runs it again, in one phase or
another, over whatever is there.

The modules here model that program in TLA+, check it on small instances with
TLC, and prove its safety for instances of every size with TLAPS.
`PROJECT.json` maps each definition to the lines it models, and lists the runs,
the mutants, the findings, the hazards and the theorems.

## The system

| part | state | operations | what makes it correct |
|---|---|---|---|
| CLI (`main.go`) | flags, the plan in memory, the hand-off file | `run`, `runPreDocker`, `runPostDocker`, `runTakeoverAndTeardown`, `insertAll`, `saveState`, `loadState` | rows before containers, all rows or none, the file never promises rows that do not exist, the wipe only when the picture is complete |
| discovery (`internal/discover`) | none (reads Docker) | `Inspect`, `ExtractSQLite` | what it sees is still true when it is used |
| v3 reader (`internal/v3`) | none (reads SQLite) | `Applications`, `Databases`, `GitSources`, `GitHubApps`, `Decrypt` | skips only what cannot be migrated; one bad secret ends the run |
| mapper (`internal/mapper`) | none (pure) | `BuildPlan`, `indexWorkloads`, `ValidatePortsAgainst`, `SetGitSourceID`, `MatchAdoptable` | a full id wins over a prefix, no port twice, a row tells what its container binds, every container matched or an orphan, adoption pairs one to one |
| Postgres client (`internal/cgo`) | rows | inserts, `UsedPorts`, `UpdateAppContainer`, `UpdateDBContainer`, `AdoptApplication` | rows name live containers; an exposed app is no bot |
| takeover (`internal/takeover`) | containers, volumes, the copy helper | `TakeoverApp`, `TakeoverDB`, `copyVolume`, `stopAndRemove`, `AdoptApp`, `AttachToCoolifygoNetwork`, `WaitHealthy` | data is never lost, volumes have one user, a launch always ends |
| teardown (`internal/teardown`) | v3's containers, volumes, images, network, host paths | `Wipe`, `reclaimSourceVolumes`, `removeImagesByPrefix`, `removeImageIfUnused`, `removeNetwork` | what a container of the user holds stays; what is left behind is reported |
| repair mode (`main.go runOldFix`) | a snapshot of rows and containers | list, refresh, match, rename, attach, write back | one to one, true, convergent when re-run |
| `install.sh` | the host | freeze, Docker upgrade, coolifygo install, the two phases | bounded waits, the order of the steps, a re-run works on its own plan |
| `clilog` | none | output, `Confirm` | - |

Interaction is by calls inside one process and by shared state outside it: Docker
(containers, volumes, names), Postgres, the hand-off file and v3 itself, which keeps
working until its management container is stopped. Nothing in the process is
concurrent, but its environment is: the copy helper is a container that outlives
the launch, v3 may deploy, containers exit, operators rename.

## The modules

| module | models |
|---|---|
| `PostDocker` | one plan taken over by any number of launches: the loops of `runTakeover`, both `Takeover*` functions, `copyVolume`, the gate and `reclaimSourceVolumes`, one action per Docker or Postgres call |
| `PostDockerProps` | its properties, and the refinement mappings to `Custody` and `Succession` |
| `Custody` | abstract, about data: an original may be released only when a pinned copy exists; pinned copies stay |
| `Succession` | abstract, about containers: predecessors retire one at a time, none while another's place is vacant, successors come and stay, and the end needs every place filled |
| `PostDockerProofs`, `FinishProofs` | the TLAPS proofs about `PostDocker`: its safety and both refinements; what a run that meets no fault leaves behind, and how launches end |
| `Migration` | launches with `--phase`, `--dry-run` and `--no-teardown` against a live v3 and a growing Postgres: discovery, freeze, extraction, port checks, the insert transaction, the hand-off file, a coarse takeover, the wipe |
| `MigrationProps` | its properties, and the refinement mapping to `Succession` |
| `MigrationProofs` | the TLAPS proofs about `Migration` |
| `OldFix` | repair runs working from a snapshot while the host changes |
| `OldFixProps` | its properties |
| `OldFixProofs`, `HealingProofs` | the TLAPS proofs about `OldFix`: what a run may do, and that it ends; that repairs converge |
| `Mapper` | one input from v3's rows to coolifygo's: the reader, `indexWorkloads`, `BuildPlan`, the port checks, the inserts with their git links, and the ports takeover will bind |
| `MapperProps` | its properties |
| `MapperProofs` | the TLAPS proofs about `Mapper` |
| `Teardown` | `Wipe`, object by object: a lookup that fails, a removal that fails, a context that is cancelled |
| `Install` | `install.sh` over several launches, with coarse phases that end in `Teardown`'s wipe |
| `InstallProps` | the properties of both |
| `InstallProofs` | the TLAPS proofs about both |
| `MCPostDocker`, `MCMigration`, `MCOldFix`, `MCMapper`, `MCInstall` | instances for TLC |

`Install` EXTENDS `Teardown`: the wipe of the composition is the detailed one. The
phases before the wipe are coarse in `Install`, finer in `Migration`, and call by call
in `PostDocker`; `Mapper` says which plans there are, and `PostDocker` takes any.

### PostDocker

`plan` is the `mapper.Plan`: which workload each entry claims (possibly none, and
possibly the same one twice, because `indexWorkloads` falls back to 8-character
prefixes), which workloads ran, and on which `FindDataVolume` finds a volume. `pc`,
`cur` and `reclaim` are the launch's memory (the loop position and `reclaimVols`);
everything else survives a launch: v3 containers `v3c`, new containers `newc`, copy
helpers, volumes `srcVol` and `newVol`, rows, the hand-off file and how far the wipe
got. Each step of a launch is an action named after the call; `Fail` ends a launch
anywhere. A start phase of `all` has no hand-off file: it gets one launch.

`helper` is the last copy helper created for an entry. Earlier ones may still be there:
`copyVolume` reads any error of `VolumeInspect` as "no such volume" and goes on
(`ClearSkipped`), whoever uses the volume. `strays` counts those that still run,
`unstarted` holds the entries with one that was created and never started, and the
history variables `misread` and `crowded` remember that an inspection failed and that a
helper was created beside another. `CopyEnds`, `CopyFails`, `StrayEnds` and `StrayFails`
are the helpers' own steps. A new volume is *partial*, a *copy*, *live* (a database ran
on it), *mixed* (a database's data overwritten by a helper, or a database started while
one still writes) or *torn* (a helper failed beside another and cut off files the other
had copied); it is complete only when the last helper at work on it has finished.

External behaviour taken from how the code relies on it: Docker refuses to remove a
volume any container mounts, names are unique, an auto-remove container disappears
when its command ends, a mount of a missing volume creates it.

### Migration

A container is identified by a resource and a generation number, so that a
redeployment gives it a new id, which is what the plan stores. Rows carry the
generation of the launch that made them: a second pre-docker run makes new ones.
Takeover is two steps per resource (remove the old container, create the new one),
since `PostDocker` has the detail. `Inspect` skips a container whose inspection fails
(discover.go:120); `missed` remembers which, for the properties only. `V3Deploys` is
enabled while the management container runs. A prompt is a free choice.

### OldFix

`read` and `snap` are the rows and the running containers as one run saw them; every
decision uses them and every effect hits the real `rows`, `name`, `up` and `net`.
`alike` is `nameMatch` as an arbitrary relation, so that no property depends on how
names are compared. `MatchAdoptable` is the set of results the code can return for
any listing order. `calm` and `settled` are history variables: no call has failed and
no container has exited, vanished or been renamed by others since this run began, and
since some completed run began.

### Mapper

The input is a constant of a behaviour: rows with their build pack, name, port and bot
flag, git sources, containers in the order Docker lists them with the tokens they show
(the label, the name, and the last part of the name), their port forwards, and the
ports coolifygo already has. `Prefix` gives a token's first eight characters, `None`
for a shorter one; it is a constant function, so ids may collide in any way.
`indexWorkloads` keeps two maps in which the container listed first wins: `Carriers`
and `Lookalikes` are the containers that compete for one key. Reading, planning, the
check against coolifygo's ports, each git source's insert and the inserts of the
applications and databases are actions; a refused plan ends in `refused`. `Binds` is
what `TakeoverApp` and `TakeoverDB` derive from the row (takeover.go:95-98, 200-202).

### Teardown and Install

`todo` holds the objects `Wipe` still goes through; `Place` is its order. An object is looked
up and removed; a failing lookup skips it silently (`Unseen`, remembered in `blind`),
a failing removal adds a warning (`Warn`). Only Docker calls follow the context: after
a signal (`Cancel`) all of them fail, while the host paths still go. `Holders` says
which containers mount, run or join an object, the user's own (`Strangers`) among
them.

In `Install` one launch walks the steps of `main`. `set -e` ends it at a failing
command, except in `freeze_v3` and the coolifygo installer, whose failures the script
ignores. A daemon upgrade takes the daemon down; `DaemonUp`, `CoolifygoStarts` and
`CoolifygoWritesEnv` are the world's answers, and may never come. A relaunch starts at
the first step over whatever the last one left: rows (numbered batches), the hand-off
file, workloads taken over for a batch.

## What is checked

| run | instance | shows |
|---|---|---|
| `postdocker` | 1 application, 3 databases, 3 workloads, every plan, 3 faults | the properties of the takeover below, refinement of `Custody` and `Succession`, that launches end (`RunReturns`) and that a restart succeeds if no container was created yet (`CleanRestart`) |
| `flaky_inspect` (violation) | 1 database, 2 faults | two copy helpers meet, the database starts under one of them and the original is reclaimed |
| `resume` (violation) | 1 application, 1 database, 1 fault | an interrupted takeover cannot be resumed once it created a container |
| `migration` | 1 application, 1 database, one port, 3 launches, 1 deployment, 2 faults | ports, transaction, hand-off file, gate and the price of a fault across launches |
| `dry_run_takes_over` (violation) | 2 launches, no fault | `--dry-run` of the post-docker phase takes containers over |
| `relaunch` (violation) | 2 launches, 1 fault | v3 wiped around a workload that was removed and never recreated |
| `oldfix` | 2 rows, 3 containers, any number of runs, 1 fault, 1 event | adoption is one to one, true and convergent |
| `oldfix_network` (violation) | the same without events | a missed network attach is never repaired |
| `mapper` | 2 applications, 1 database with one prefix, 2 containers, 2 git sources, 29,075 inputs | the plan and the rows it becomes |
| `port_forward` (violation) | the same | a host port that led to another container port leads elsewhere after the takeover |
| `install` | 1 application, 2 databases, an object or two of each kind, 3 launches, 3 faults, waits of 2 | the wipe and the script around it; `ScriptReturns` |
| `host_paths` (violation) | the same, 2 launches, 1 fault | host paths are removed although an earlier removal failed |

The properties of `PostDocker`: unless two copy helpers of a database have met, data
always exists in the original or in a complete, protected copy (`DataKept`); a copy
never reads a volume whose v3 database may still write (`QuietSource`); until a
`VolumeInspect` fails a new volume has one user (`OneUser`); v3 is wiped only
when every container was matched and replaced (`WipedOnlyWhenComplete`); over all
launches containers are replaced as `Succession` says, so at most one is ever gone
without a replacement (`KeepsSuccession`); a database that has run keeps its volume
(`LiveKept`, again until a `VolumeInspect` fails, as is the refinement of `Custody`,
`KeepsCustody`); a migration without faults leaves nothing behind (`FaultlessFinish`).

`DataNeverLost`, without the proviso, is what README.md:240-241 and takeover.go:335-336
promise, and run `flaky_inspect` shows it broken with two faults. A launch dies while
its helper copies. The next one's inspection fails, so it neither clears the volume nor
meets Docker's refusal to remove it, and creates a second helper. That one ends, the
database starts, and the first helper goes on overwriting its files. When it has ended
too, the source is reclaimed. A failing inspection that meets no helper loses nothing of
v3's: the volume is copied over once more and the source is still there, because a
launch that finds the entry's container created never reaches the wipe.

Of `Migration`: one host port is bound once over the rows of all launches
(`OncePerPort`); no v3 container is removed before its row is committed
(`TakeoverAfterCommit`); the hand-off file is backed by rows (`HandOffBacked`); a plan's
rows appear together (`AllOrNothing`); each fault costs at most one workload, removed
and not recreated (`OneLostPerFault`); the wipe leaves no v3 workload behind while v3
deploys nothing (`WipeLeavesNothingIfQuiet`). Containers that discovery could not
inspect are excepted from the last: nothing protects them. The provisos are needed. v3
may deploy between the listing of containers (main.go:199) and the freeze
(main.go:223), and that container is in no plan; and run `relaunch` shows a workload
lost after a failure.

Of `OldFix`: `OneToOne`, `WrittenIsTrue`, `Healed` (a run that ends undisturbed leaves
nothing to repair, whatever earlier runs left half done), `NoOpWhenSettled`,
`ForeignUntouched` and `ExposedIsNoBot`.

Of `Mapper`: a row whose id a container shows gets such a container, whatever looks
alike (`FullIdWins`); rows that share a container get through only when it
publishes nothing (`SharedPublishesNothing`); no host port is bound twice, nor one of
coolifygo's (`BoundOnce`); a row's port is what its container binds, and an exposed
container stays reachable on its lowest port (`RowTellsBinding`); what the completeness
gate lets through leaves no container unreachable that was reachable, and gives none two
heirs (`ExposedInherited`); a git link is kept or its loss reported (`LinkedOrWarned`).

Of `Teardown` and `Install`: what the wipe leaves was reported or could not be looked
up (`LeftIsReported`); nothing a user's container holds is removed (`StrangersKept`);
the post-docker phase works on the plan and rows of its own launch (`StateIsFresh`);
an undisturbed launch that says v3 is gone is right, up to what the user's own
containers hold (`removeImagesByPrefix` gives a prefix up at the first image that is
held, the others of the prefix included) and source volumes of databases an earlier
launch took over, which `reclaimVols` no longer lists (`DoneMeansGone`);
the daemon restart of a first launch hits neither v3's management nor coolifygo
(`UpgradeDisruptsNothing`), which a re-run or an ignored failure of `freeze_v3`
breaks; and every launch ends (`ScriptReturns`).

### Bounds

With an application and three databases over three containers two copies can share a
source while a third has its own, an entry can precede and follow another of either
kind, and the first entry that has a container can be a database, which is when a later
launch gets as far as its volume again. v3's first two containers are alike (both run,
both have a volume), so only plans that claim the first before the second are tried.
Three faults let a launch die during a copy, the next one's inspection fail, and one
more thing fail besides. Two generations of
containers and three launches let a pre-docker run, a full run and a resume overlap.
Two rows and two v3 containers give every shape of ambiguity `MatchAdoptable`
distinguishes (shared container id, one to many, many to one); the third container is
a stranger's or one coolifygo created. In `Mapper` three rows with one prefix and two
containers give a full match against a prefix match, two rows for one container, and a
container for none; two ports let a published port meet one of another row, one from
SQLite and one of coolifygo's; what only one check looks at (missing names, a secret
that does not decrypt, an unsupported type) varies with the rest fixed. In `Install`
the second management container is one the freeze may miss without port 3000 staying
taken, two images share a prefix so that the first can end it, the user runs
that first one, one source volume is also mounted by the user and the other coolifygo's
already, and waits of two seconds have a first, a middle and a last turn. `MaxFaults`,
`MaxLaunches`, `MaxDeploys` and `MaxEvents` bound the environment, never the program;
`MaxWait` stands for the 60, 60 and 180 turns of the script's loops.

### Fairness

`PostDocker` and `Install` state liveness. A launch keeps executing (`WF(Process)`: the code
has no lock and every wait it does is bounded or on a terminating helper), `cp` ends
(`WF(CopyEnds(i))`, `WF(StrayEnds(i))`), and an operator whose post-docker run failed runs it again
(`WF(Launch)`). In `Install` the script keeps executing (`WF(Script)`), and nothing
else is fair: `ScriptReturns` holds although dockerd and coolifygo may never answer. No
fairness is assumed of faults. `Migration`, `OldFix` and `Mapper` assume none.

## What is proved

All proofs hold for any values of the constants that satisfy the assumptions named in
the component's module (the types of the constants, and that `None` is none of the
rest), and for any number of launches, faults, deployments and events; what a theorem
assumes beyond them is said here. In each module `IInv` is the inductive invariant; the
module proves `Init => IInv`, one lemma per action (or per group of alike actions) that
it preserves `IInv`, and each property from it.

**`PostDockerProofs`**: `TypeCorrect`, `DataSafety`, `DataSafeWhereRead`,
`SourceIsQuiet`, `SingleUser`, `CompleteBeforeWipe`, `LiveVolumesKept`,
`CustodyUntilMisread`, `ImplementsCustody`, `ImplementsSuccession`, `OneDown`.
`DataSafety` holds until two helpers meet, whatever else fails; `DataSafeWhereRead` adds
that they meet only after a failing inspection. `SingleUser`, `LiveVolumesKept` and
`CustodyUntilMisread` hold up to the first failing inspection, `ImplementsCustody` in
behaviours that have none; the rest needs no proviso. None of these invariants is
inductive. They rest on a fact about order that no single line of
the code states: because one launch walks the entries in order and a failing entry ends
it, and because an entry whose container exists is never passed again without the launch
ending there, the entries whose containers exist always form a prefix of the matched
entries (`Prefix`), and the loop variable is never more than one past it (`Position`,
`LoopDone`). From it follow that a source volume whose entry lies before the position
has been copied (`SourceSafe`), that everything in `reclaim` has a protected copy
(`ReclaimSafe`), that a v3 container removed before the current entry has been replaced
(`Replaced`), and that the wipe finds all entries done (`WipeSafe`). `Recalled` says what
a helper left behind implies: a failed inspection, hence a fault. `Apart` keeps helpers
and databases off each other's volumes until then, and `CopyState` and `Copied` tie the
state of the new volume to the step of the copy. The refinements map each step to one of the abstract
specification or a stutter: `Create` pins a copy, `Reclaim` releases an original;
`Remove` retires a container, `Create` seats its successor, `BeginWipe` dissolves v3.
That nobody waits when `Remove` retires the next (`NobodyWaits`) is `Prefix` again.
`OneDown` then is `Succession`'s own theorem (`OneAtATime`), read through the mapping.

**`FinishProofs`**: `FaultlessRunFinishes`, for any plan and any number of launches. A
migration without faults is in one of three situations (`FInv`). A launch is on its
first walk over the plan, and every entry behind it is handed over in full: container as
v3 ran it, row written, volume remembered (`FirstWalk`). Or the first walk has finished
and nothing moves any more (`Migrated`). Or an earlier launch ended with some container
created (`Stuck`); then `CreateConflict`, or `ClearInUse` before it, ends every later
launch at that entry, so none reaches the wipe and the property holds for a sad reason.
`StuckStep` does not need the absence of faults, whence `GivenUpForGood`: once a launch
has ended short of the wipe with one container created, v3 is never wiped by this plan,
whatever else happens. Run `resume` shows the same on an instance. `LaunchIsBounded` and
`LaunchNeverWedged` are what of `RunReturns` is safety. Entries to come, then steps of
the entry, then volumes to reclaim make a number (`StepsLeft`) that every step of a
launch lowers or else ends the launch; the end of a copy nobody waits for leaves it
alone. And in each state of a launch some step of it is possible, or the end of the copy
it waits for (`CanGoOn`, the guards of the actions): the copy is there, and who uses a
volume has one to use (`Attended`). Only the conclusion, that under fairness the launch
therefore returns, is left to TLC.

**`MapperProofs`**: `TypeCorrect`, `FullIdsWin`, `SharingIsHarmless`, `PortsBoundOnce`,
`RowsTellBindings`, `ExposedAreInherited`, `LinksKept`. The invariant
says that what was read and planned is a function of the input (`FromInput`), that an
accepted plan passed both port checks (`PortsFree`), and how far the git links are
(`LinkState`). The lemmas are about the matching itself: a listed container's index
exists and is least (`LeastIsLeast`, by well-founded order), `match` returns a carrier
of the full id whenever there is one (`FullIdFirst`), `firstHostPort` returns the lowest
published port (`FirstHostPortIsLowest`).

**`MigrationProofs`**: `TypeCorrect`, `PortsOnce`, `HandOffIsBacked`, `NothingLeft`,
`LossesAreCounted`, `RowsFirst`, `AllRowsOrNone`, `CalmLaunchesSucceed`,
`EveryoneTakenOver`. The invariant ties the phase to what it has done: inside the
transaction the staged rows are those of the checked plan and clash with nothing
committed (`Inserting`; coolifygo's rows do not grow by themselves between the check and
the commit in this model), past it the plan's rows are committed (`Committed`), and the
file names committed rows (`HandOffBacked`). `Quiet`: while v3 has not deployed, the
plan covers every container v3 has. `LossesAreCounted` needs cardinalities: the one
container being replaced is not counted yet, a launch that ends in the middle pays for
it with its fault, and a successor never leaves (`LInv`). `CalmLaunchesSucceed` is the
refinement of `Succession`, up to the first fault or deployment and over any mixture of
phases: what a launch or the file believes about a container is true, or was true of one
that has been removed since (`Orderly`). Beyond them it is false, as run `relaunch`
shows. So the coarse takeover and the detailed one keep the same promise.
`EveryoneTakenOver` follows: the wipe of a calm migration finds every workload with a
successor (`WipedMeansTakenOverIfCalm`).

**`OldFixProofs`**: `TypeCorrect`, `AdoptionIsOneToOne`, `WritesAreTrue`,
`ForeignersUntouched`, `ExposedNeverBot` (which assumes that no row found by the first
run is exposed and a bot), `RunIsBounded`, `RunNeverWedged`. The invariant says where
each pair in hand comes from (`InHand`): pairs of the first loop are containers under
their row's name, pairs of the second are broken rows with nameless candidates, so the
two can share neither side; `MatchingIsOneToOne` does the same inside `MatchAdoptable`.
`Undisturbed`: in a calm run the snapshot stays true but for the names the run itself
has given. A run ends, because it loops over what it has listed (`WorkLeft`), and is
never without a next step: whatever rows contest a container, the first pass has a
result (`SomePass`). Rows and containers are finitely many by assumption.

**`HealingProofs`**: `RepairsConverge` and `LaterRunsAreIdle`, if container names are
unique at first, as Docker's are. The invariant `HInv` follows a calm run: rows not
written are as read (`RowsAsRead`), names not given as seen (`NamesAsSeen`), rows the
first loop passed are accurate (`Passed`), each pair matched is adopted, to come or out
of reach (`Matched`). The argument is `NothingNew`: that a later run would match only
what this one matched. Adopting a pair takes one row and one container out of the
matching, which might make an ambiguous third pair unambiguous; it does not, because a
pair is only adopted when it had no rival in its pass, so no pair left loses one. For
the id pass this needs that no two broken rows name one container (`Contested`): with
such rows the run takes the one listed first, and the statement is false.

**`InstallProofs`**: `TypeCorrect`, `OwnPlan`, `UsersKeepTheirs`, `NothingLeftUnsaid`,
`FirstUpgradeIsQuiet`, `AllDoneIsTrue`, `ScriptIsBounded`. `Batches`: before its import
a launch has committed fewer batches than there were launches, so the next is its own.
`FirstLaunch`: up to the upgrade the first launch has a daemon that answers and no
coolifygo, so a freeze that does not fail stops all of v3. `Accounted`: during the wipe
what is on the host is still to come, or reported. `Guarded`: what must stay is there,
and no volume of coolifygo's is to come. One lemma (`Passing`) covers every kind of
object: it is passed only gone or reported. For `AllDoneIsTrue`, `GInv` follows an
undisturbed launch: each workload is this batch's or an earlier one's (`Owners`), one
still to be taken over has its container (`Matched`), and what the wipe has passed is
gone or excused (`Swept`). Why can no container of v3's own excuse an object? Because
`Wipe` removes the containers first (`ContainersFirst`, from the order of its lists), so
what holds an object at its turn is the user's (`OnlyTheUser`). `ScriptIsBounded` is
what of `ScriptReturns` is safety: each command takes the launch to a later step or
leaves less to do in this one (`ToDo`: seconds, workloads, objects, which are finitely
many because the lists of the wipe are finite), and dockerd, coolifygo or a death never
give it more. Assumed of the instance, as `Teardown` and `Install` state it: the lists
of the wipe name objects, objects of different kinds have different names (`Kinds`), the
user's containers are none of v3's objects, nothing mounts or joins a container, there
are finitely many workloads, and the source volumes are the databases'.

Model-checked only: the liveness properties (`RunReturns`, `CleanRestart`,
`ScriptReturns`), which the prover cannot treat, and what the violating runs show.

## What is not modelled

Data without control: secrets and their ciphers (only that one undecryptable secret
ends the run), SQL text and the probing of column lists, the tar stream of
`ExtractSQLite`, image pulls, environments, start commands and health checks, all
output. `WaitHealthy` changes nothing but output. `install.sh`'s steps that fetch Go
and the binary, and remove Go again, touch nothing of the migration. A secret key
given by hand instead of read from the container changes where a string comes from.
coolifygo's own reconciler acting during a migration is not modelled, nor is anything
else that writes its rows.

## Plan

Done: the takeover with `Custody` and `Succession`, the phases, the repair mode, the
mapper with the reader, the teardown and the script; a theorem for every safety property
a passing run checks, the two refinements of `PostDocker` and that of `Migration`. Left:

1. An abstract specification of the repair mode: rows and containers paired one to one,
   a pair left alone once it is true.
2. That launches of `Migration` and of `Install` are never without a next step.
