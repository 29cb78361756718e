------------------------------- MODULE Install -------------------------------
(***************************************************************************)
(* install.sh: the script an operator runs, and runs again when it failed. *)
(* It freezes v3, upgrades Docker (a daemon restart), installs coolifygo,  *)
(* waits for both, and runs the two phases of the binary.  The phases are  *)
(* coarse here (Migration and PostDocker have their detail) up to the wipe,*)
(* which is Teardown's.  Getting Go and the binary touches nothing of the  *)
(* migration and is left out.                                              *)
(***************************************************************************)
EXTENDS Teardown, FiniteSets

CONSTANTS
    Mgmt,           \* the containers that freeze_v3 stops
    Coolify,        \* the one that holds SQLite and port 3000
    Workloads,      \* v3's workload containers
    DataOf,         \* databases: the source volume takeover copies
    MaxWait,        \* bound of every wait loop (60, 60 and 180 seconds)
    MaxLaunches     \* bound: times the operator runs the script

ASSUME InstallAssumption ==
    /\ Mgmt \subseteq Range(V3Containers)
    /\ Coolify \in Mgmt
    /\ IsFiniteSet(Workloads)
    /\ DOMAIN DataOf \subseteq Workloads
    /\ Range(DataOf) = Range(SourceVolumes)
    /\ {MaxWait, MaxLaunches} \subseteq Nat

VARIABLES
    step,       \* the step of the script; idle, failed or done outside it
    launches,
    waited,     \* seconds spent in the wait loop of the step
    up,         \* management containers that run
    daemon,     \* dockerd answers
    coolifygo,  \* its container
    env,        \* coolifygo's .env has both keys
    batch,      \* sets of rows committed to coolifygo, numbered
    state,      \* the hand-off file: its batch and claims
    mine,       \* the batch this launch committed, 0 before
    owner,      \* the batch a workload was taken over for, 0 while it is v3's
    orphans,    \* workloads no row of v3 claims; fixed
    calm,       \* history: nothing has failed in this launch
    running     \* history: what ran when the daemon went down

scriptVars == <<step, launches, waited, up, daemon, coolifygo, env, batch, state,
                mine, owner, orphans, calm, running>>
vars == <<scriptVars, wipeVars>>

Plan   == [batch : 1 .. MaxLaunches, claims : SUBSET Workloads]
NoPlan == [batch |-> 0]
Steps  == {"freeze", "upgrade", "docker", "install", "start", "env", "pre", "load",
           "takeover", "wipe", "clean"}

TypeOK ==
    /\ TeardownTypeOK
    /\ step \in Steps \cup {"idle", "failed", "done"}
    /\ launches \in 0 .. MaxLaunches
    /\ waited \in 0 .. MaxWait
    /\ up \subseteq Mgmt
    /\ daemon \in BOOLEAN
    /\ coolifygo \in {"absent", "running", "crashed"}
    /\ env \in BOOLEAN
    /\ batch \in 0 .. MaxLaunches
    /\ state \in Plan \cup {NoPlan}
    /\ mine \in 0 .. MaxLaunches
    /\ owner \in [Workloads -> 0 .. MaxLaunches]
    /\ orphans \subseteq Workloads
    /\ calm \in BOOLEAN
    /\ running \subseteq Mgmt \cup {"coolifygo"}

Init ==
    /\ TeardownInit
    /\ step = "idle"
    /\ launches = 0 /\ waited = 0
    /\ up = Mgmt
    /\ daemon = TRUE
    /\ coolifygo = "absent"
    /\ env = FALSE
    /\ batch = 0 /\ mine = 0
    /\ state = NoPlan
    /\ owner = [w \in Workloads |-> 0]
    /\ orphans \in {{}, Workloads \ DOMAIN DataOf}
    /\ calm = TRUE
    /\ running = {}

host   == <<up, daemon, coolifygo, env>>
result == <<batch, state, mine, owner, orphans>>

-----------------------------------------------------------------------------
(* Variant: Docker is upgraded once coolifygo is up.                       *)
AfterLate(s) ==
    CASE s = "freeze" -> "install" [] s = "install" -> "start" [] s = "start" -> "upgrade"
      [] s = "upgrade" -> "docker" [] s = "docker" -> "env" [] s = "env" -> "pre"
      [] s = "pre" -> "load" [] s = "clean" -> "done"

(* main: the order of the steps.                                           *)
After(s) ==
    CASE s = "freeze" -> "upgrade" [] s = "upgrade" -> "docker" [] s = "docker" -> "install"
      [] s = "install" -> "start" [] s = "start" -> "env" [] s = "env" -> "pre"
      [] s = "pre" -> "load" [] s = "clean" -> "done"

Done(s)   == step = s /\ step' = After(s) /\ waited' = 0
Abort     == step' = "failed" /\ waited' = 0
Same      == UNCHANGED <<launches, orphans, running>>

(* set -e: a failing command ends the script.                              *)
Fail(s) == step = s /\ Fault /\ Abort /\ calm' = FALSE

Launch ==
    /\ step \in {"idle", "failed"}
    /\ launches < MaxLaunches
    /\ launches' = launches + 1
    /\ step' = "freeze"
    /\ waited' = 0 /\ mine' = 0
    /\ calm' = TRUE
    /\ cancelled' = FALSE
    /\ reclaim' = {}
    /\ UNCHANGED <<host, batch, state, owner, orphans, running,
                   strangers, present, todo, wiping, warned, blind, faults>>

(* freeze_v3: a failing docker ps or docker stop leaves containers running *)
(* and ends nothing; so does a daemon that is down.                        *)
Freeze ==
    /\ Done("freeze")
    /\ \/ daemon /\ up' = {} /\ UNCHANGED <<calm, faults>>
       \/ ~daemon /\ UNCHANGED <<up, calm, faults>>
       \/ up' \in SUBSET up /\ up' # {} /\ Fault /\ calm' = FALSE
    /\ Same
    /\ UNCHANGED <<daemon, coolifygo, env, batch, state, mine, owner,
                   strangers, present, reclaim, todo, wiping, warned, blind, cancelled>>

(* upgrade_docker: the daemon restarts; what ran comes back with it.       *)
Upgrade ==
    /\ \/ /\ Done("upgrade")
          /\ daemon' = FALSE
          /\ running' = IF daemon THEN up \cup {c \in {"coolifygo"} : coolifygo = "running"}
                                  ELSE {}
          /\ UNCHANGED <<calm, faults>>
       \/ Fail("upgrade") /\ UNCHANGED <<daemon, running>>
    /\ UNCHANGED <<launches, up, coolifygo, env, result,
                   strangers, present, reclaim, todo, wiping, warned, blind, cancelled>>

(* dockerd answers again, some time, if it does.                           *)
DaemonUp ==
    /\ ~daemon
    /\ daemon' = TRUE
    /\ UNCHANGED <<step, launches, waited, up, coolifygo, env, result, calm, running, wipeVars>>

(* Variant: the wait has no limit.                                         *)
WaitForEver(s, ready) ==
    /\ step = s
    /\ IF ready THEN Done(s) ELSE UNCHANGED <<step, waited>>
    /\ UNCHANGED calm

(* Variant: off by one.                                                    *)
WaitOneMore(s, ready) ==
    /\ step = s
    /\ \/ ready /\ Done(s) /\ UNCHANGED calm
       \/ ~ready /\ waited =< MaxWait /\ waited' = waited + 1 /\ UNCHANGED <<step, calm>>
       \/ ~ready /\ waited > MaxWait /\ Abort /\ calm' = FALSE

(* until ready; do ((i++ >= n)) && fail; sleep 1; done                     *)
Wait(s, ready) ==
    /\ step = s
    /\ \/ ready /\ Done(s) /\ UNCHANGED calm
       \/ ~ready /\ waited < MaxWait /\ waited' = waited + 1 /\ UNCHANGED <<step, calm>>
       \/ ~ready /\ waited = MaxWait /\ Abort /\ calm' = FALSE

WaitDocker ==
    /\ Wait("docker", daemon)
    /\ UNCHANGED <<launches, host, result, running, wipeVars>>

(* ensure_coolifygo: skipped if coolifygo runs; the installer may fail or  *)
(* leave a container that is still starting, which is not an error yet.    *)
InstallCoolifygo ==
    /\ Done("install")
    /\ \/ coolifygo = "running" /\ UNCHANGED coolifygo
       \/ coolifygo # "running" /\ coolifygo' \in {"absent", "crashed"}
       \/ coolifygo # "running" /\ Coolify \notin up /\ coolifygo' = "running"
    /\ Same
    /\ UNCHANGED <<up, daemon, env, batch, state, mine, owner, calm, wipeVars>>

WaitCoolifygo ==
    /\ Wait("start", coolifygo = "running")
    /\ UNCHANGED <<launches, host, result, running, wipeVars>>

(* coolifygo's container starts if port 3000 is free.                      *)
CoolifygoStarts ==
    /\ coolifygo = "crashed" /\ daemon /\ Coolify \notin up
    /\ coolifygo' = "running"
    /\ UNCHANGED <<step, launches, waited, up, daemon, env, result, calm, running, wipeVars>>

(* Its first-run bootstrap ends.                                           *)
CoolifygoWritesEnv ==
    /\ coolifygo = "running" /\ ~env
    /\ env' = TRUE
    /\ UNCHANGED <<step, launches, waited, up, daemon, coolifygo, result, calm, running, wipeVars>>

LoadEnv ==
    /\ Wait("env", env)
    /\ UNCHANGED <<launches, host, result, running, wipeVars>>

(* The rows are committed and the plan is in the hand-off file.            *)
Import ==
    /\ batch' = batch + 1
    /\ mine' = batch + 1
    /\ state' = [batch  |-> batch + 1,
                 claims |-> {w \in Workloads : owner[w] = 0} \ orphans]

(* Variant: a failing pre-docker phase does not end the script.            *)
PreDockerTolerant ==
    /\ Done("pre")
    /\ \/ Import /\ UNCHANGED <<calm, faults>>
       \/ Fault /\ calm' = FALSE /\ UNCHANGED <<batch, mine, state>>
    /\ Same
    /\ UNCHANGED <<host, owner, strangers, present, reclaim, todo, wiping, warned, blind, cancelled>>

(* --phase=pre-docker imports whatever was imported before; it needs the   *)
(* coolify container, and stops v3 again, if it can.  It may fail before   *)
(* the commit, or between the commit and the hand-off file.                *)
PreDocker ==
    /\ \/ /\ Coolify \notin present
          /\ step = "pre" /\ Abort
          /\ UNCHANGED <<up, batch, mine, state, calm, faults>>
       \/ /\ Coolify \in present
          /\ \/ Import /\ Done("pre") /\ up' = {} /\ UNCHANGED <<calm, faults>>
             \/ Import /\ Done("pre") /\ UNCHANGED up /\ Fault /\ calm' = FALSE
             \/ Fail("pre") /\ up' \in {up, {}} /\ UNCHANGED <<batch, mine, state>>
             \/ /\ Fail("pre") /\ up' \in {up, {}}
                /\ batch' = batch + 1 /\ mine' = batch + 1 /\ UNCHANGED state
    /\ Same
    /\ UNCHANGED <<daemon, coolifygo, env, owner,
                   strangers, present, reclaim, todo, wiping, warned, blind, cancelled>>

(* --phase=post-docker: loadState.                                         *)
LoadState ==
    /\ step = "load"
    /\ IF state = NoPlan THEN Abort ELSE step' = "takeover" /\ waited' = 0
    /\ Same
    /\ UNCHANGED <<host, batch, state, mine, owner, calm, wipeVars>>

(* Variant: the volumes taken over are not reported.                       *)
ReclaimNothing(w) == reclaim

ReclaimOf(w) == reclaim \cup {DataOf[x] : x \in {w} \cap DOMAIN DataOf}

TakeOver(w) ==
    /\ step = "takeover"
    /\ w \in state.claims /\ owner[w] = 0
    /\ owner' = [owner EXCEPT ![w] = state.batch]
    /\ reclaim' = ReclaimOf(w)
    /\ Same
    /\ UNCHANGED <<step, waited, host, batch, state, mine, calm,
                   strangers, present, todo, wiping, warned, blind, cancelled, faults>>

TakeoverFails ==
    /\ Fail("takeover")
    /\ Same
    /\ UNCHANGED <<host, batch, state, mine, owner,
                   strangers, present, reclaim, todo, wiping, warned, blind, cancelled>>

(* The completeness gate: with orphans, exit 0 and v3 stays.               *)
Gate ==
    /\ step = "takeover"
    /\ \A w \in state.claims : owner[w] # 0
    /\ waited' = 0
    /\ IF orphans = {}
          THEN StartWipe /\ step' = "wipe"
          ELSE step' = "clean" /\ UNCHANGED wipeVars
    /\ Same
    /\ UNCHANGED <<host, batch, state, mine, owner, calm>>

(* One object, or a signal, which the binary survives and exits 0.         *)
Wipe ==
    /\ step = "wipe"
    /\ RemoveOne \/ Cancel
    /\ up' = up \cap present'
    /\ calm' = (calm /\ faults' = faults)
    /\ Same
    /\ UNCHANGED <<step, waited, daemon, coolifygo, env, batch, state, mine, owner>>

(* Whatever Wipe warned of, the hand-off file goes and the exit code is 0. *)
EndWipe ==
    /\ step = "wipe" /\ Wiped
    /\ wiping' = FALSE
    /\ state' = NoPlan
    /\ step' = "clean" /\ waited' = 0
    /\ Same
    /\ UNCHANGED <<host, batch, mine, owner, calm,
                   strangers, present, reclaim, todo, warned, blind, cancelled, faults>>

(* cleanup_go, then "all done -- Coolify v3 is gone".                      *)
Clean ==
    /\ Done("clean")
    /\ Same
    /\ UNCHANGED <<host, batch, state, mine, owner, calm, wipeVars>>

(* The script is killed, or the host goes down.                            *)
Die ==
    /\ step \in Steps
    /\ Fault /\ Abort /\ calm' = FALSE
    /\ todo' = {} /\ wiping' = FALSE
    /\ Same
    /\ UNCHANGED <<host, batch, state, mine, owner,
                   strangers, present, reclaim, warned, blind, cancelled>>

Script ==
    \/ Freeze \/ Upgrade \/ WaitDocker \/ InstallCoolifygo \/ WaitCoolifygo \/ LoadEnv
    \/ PreDocker \/ LoadState \/ (\E w \in Workloads : TakeOver(w)) \/ TakeoverFails
    \/ Gate \/ Wipe \/ EndWipe \/ Clean

Next == Launch \/ Script \/ DaemonUp \/ CoolifygoStarts \/ CoolifygoWritesEnv \/ Die

(* The script keeps running; dockerd and coolifygo need never answer.      *)
Spec == Init /\ [][Next]_vars /\ WF_vars(Script)
=============================================================================
