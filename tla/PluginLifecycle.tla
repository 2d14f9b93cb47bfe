---------------------------- MODULE PluginLifecycle ----------------------------
(***************************************************************************)
(* One plugin's installation, releases, update plans and runs:             *)
(* services/plugin_service.py behind api/plugins.py, over the tables of    *)
(* migrations/versions/0014_plugin_foundation.py.  Several requests execute *)
(* at a time; each reads in autocommit, writes in one transaction and      *)
(* writes its audit row in another.  A manifest stands for its content     *)
(* hash: equal manifests have equal hashes, and the scan is a function of  *)
(* it.  Permissions, the configuration, metrics and the audit rows, which    *)
(* nothing reads back, are left out.                                       *)
(***************************************************************************)
EXTENDS Integers, Sequences, FiniteSets

CONSTANTS
    Caller,       \* threads that execute a request
    Version,      \* versions in the order of _version_key, 1..n
    Manifest,     \* what a build may register under a version
    Build,        \* the registries in use: manifest by version, or Absent
    Clean,        \* the manifests _scan_manifest passes
    Installable,  \* those of a type that install lets in: built-in adapters and workers
    PluginRequest,\* request ids of invoke
    PluginInput,  \* payloads of invoke
    MaxPlans,     \* bound: update plans
    Absent

Installation == [current : Version, previous : Version \cup {Absent}, enabled : BOOLEAN,
    status : {"installed", "enabled", "disabled", "quarantined", "rolled_back"}]
Plan == [candidate : Version, approval : {"pending", "rejected", "applied"}]
Run  == [input : PluginInput, version : Version, outcome : {"ok", "error", "plugin_disabled"}]

(* What the code's types say of the parameters; Absent is no value of theirs. *)
PluginAssumption ==
    /\ Version \subseteq Nat /\ IsFiniteSet(Version)
    /\ Clean \subseteq Manifest /\ Installable \subseteq Manifest
    /\ Build \subseteq [Version -> Manifest \cup {Absent}]
    /\ MaxPlans \in Nat
    /\ Absent \notin Version \cup Manifest
    /\ Absent \notin Installation \cup Run

VARIABLES
    registry,   \* the build's PluginRegistry: manifest by version, or Absent
    releases,   \* plugin_releases: the manifest staged under a version
    installed,  \* plugin_installations
    plans,      \* plugin_update_plans, oldest first
    runs,       \* plugin_runs by request id
    step,       \* what each caller does next
    held,       \* what its request asks for and has read
    answers,    \* history: the envelopes invoke has returned
    executed,   \* history: what invoke and healthcheck have run, by version
    applied     \* history: how often a plan has moved the installation

pluginVars == <<registry, releases, installed, plans, runs, step, held,
                answers, executed, applied>>

Nothing == [from |-> Absent, sound |-> FALSE, plan |-> 0, version |-> Absent,
            request |-> Absent, input |-> Absent, outcome |-> Absent]

-----------------------------------------------------------------------------
Registered(v) == registry[v] # Absent

Newest == CHOOSE v \in Version : Registered(v) /\ \A w \in Version : Registered(w) => w <= v

Safe(manifest) == manifest \in Clean

(* install_preview's safe_to_install; nothing after the installation asks for the type. *)
SafeToInstall(manifest) == manifest \in Installable /\ Safe(manifest)

(* Mutant: the stored scan decides, whatever the build registers now. *)
Executable_StoredScan(v) == releases[v] # Absent /\ Safe(releases[v])

(* _release_is_executable *)
Executable(v) ==
    /\ releases[v] # Absent /\ Safe(releases[v])
    /\ Registered(v)
    /\ releases[v] = registry[v]
    /\ Safe(registry[v])

PluginInit ==
    /\ registry \in Build
    /\ releases = [v \in Version |-> Absent]
    /\ installed = Absent
    /\ plans = <<>>
    /\ runs = [r \in PluginRequest |-> Absent]
    /\ step = [c \in Caller |-> "idle"]
    /\ held = [c \in Caller |-> Nothing]
    /\ answers = {}
    /\ executed = {}
    /\ applied = <<>>

InstalledVersion == IF installed = Absent THEN Absent ELSE installed.current

(* The caller's next step, and what it now holds. *)
Go(c, next, holding) ==
    /\ step' = [step EXCEPT ![c] = next]
    /\ held' = [held EXCEPT ![c] = holding]

(* The request ends: every value it held is forgotten. *)
Finish(c) == Go(c, "idle", Nothing)

(* The request's transaction is over; its audit row is written next. *)
Audited(c) == Go(c, "audit", Nothing)

Tables  == <<releases, installed, plans, runs>>
History == <<answers, executed, applied>>

-----------------------------------------------------------------------------
(* install: the manifest must be the registered one; the installation is read ... *)
AskInstall(c) ==
    /\ step[c] = "idle"
    /\ \E v \in {w \in Version : Registered(w)} :
        Go(c, "install", [Nothing EXCEPT !.from = InstalledVersion, !.version = v])
    /\ UNCHANGED <<registry, Tables, History>>

Stage(v) == releases' = [releases EXCEPT ![v] = IF @ = Absent THEN registry[v] ELSE @]

(* ... and a first installation, a candidate or nothing is written.  A second
   installation fails on the primary key. *)
Install(c) ==
    /\ step[c] = "install"
    /\ LET from == held[c].from  v == held[c].version IN
        \/ /\ from = v
           /\ Audited(c)
           /\ UNCHANGED Tables
        \/ /\ from \notin {v, Absent}
           /\ Stage(v)
           /\ Audited(c)
           /\ UNCHANGED <<installed, plans, runs>>
        \/ /\ from = Absent /\ installed = Absent
           /\ Stage(v)
           /\ installed' = [current |-> v, previous |-> Absent, enabled |-> FALSE,
                status |-> IF SafeToInstall(registry[v]) THEN "installed" ELSE "quarantined"]
           /\ Audited(c)
           /\ UNCHANGED <<plans, runs>>
        \/ /\ from = Absent /\ installed # Absent
           /\ Finish(c)
           /\ UNCHANGED Tables
    /\ UNCHANGED <<registry, History>>

(* _audit, in a transaction of its own: one row of a log no request reads, none
   when the log has one with that key. *)
Audit(c) ==
    /\ step[c] = "audit"
    /\ Finish(c)
    /\ UNCHANGED <<registry, Tables, History>>

-----------------------------------------------------------------------------
(* enable and disable: the installation, and whether its release is executable ... *)
AskEnabled(c) ==
    /\ step[c] = "idle"
    /\ installed # Absent
    /\ \E next \in {"enable", "disable"} :
        Go(c, next, [Nothing EXCEPT !.sound =
            installed.status # "quarantined" /\ Executable(installed.current)])
    /\ UNCHANGED <<registry, Tables, History>>

(* Mutant: a quarantined release can be enabled. *)
SetEnabled_Quarantined(c) ==
    /\ step[c] \in {"enable", "disable"}
    /\ installed' = [installed EXCEPT !.enabled = step[c] = "enable",
                        !.status = IF step[c] = "enable" THEN "enabled" ELSE "disabled"]
    /\ Audited(c)
    /\ UNCHANGED <<registry, releases, plans, runs, History>>

(* ... and the write of both columns, whatever the row holds by then. *)
SetEnabled(c) ==
    /\ step[c] \in {"enable", "disable"}
    /\ \/ /\ step[c] = "enable" /\ ~held[c].sound
          /\ Finish(c)
          /\ UNCHANGED installed
       \/ /\ step[c] = "disable" \/ held[c].sound
          /\ installed' = [installed EXCEPT !.enabled = step[c] = "enable",
                !.status = IF ~held[c].sound THEN "quarantined"
                           ELSE IF step[c] = "enable" THEN "enabled" ELSE "disabled"]
          /\ Audited(c)
    /\ UNCHANGED <<registry, releases, plans, runs, History>>

-----------------------------------------------------------------------------
(* update_preview reads the installed version and runs both versions ... *)
AskPreview(c) ==
    /\ step[c] = "idle"
    /\ installed # Absent
    /\ Registered(installed.current)
    /\ Len(plans) < MaxPlans
    /\ Go(c, "preview", [Nothing EXCEPT !.version = Newest])
    /\ UNCHANGED <<registry, Tables, History>>

(* ... and stages the candidate with a plan, pending when the scan, the
   comparison and the permissions allow the switch. *)
Preview(c) ==
    /\ step[c] = "preview"
    /\ Len(plans) < MaxPlans
    /\ Stage(held[c].version)
    /\ \E approval \in {"pending", "rejected"} :
        /\ approval = "pending" => Safe(registry[held[c].version])
        /\ plans' = Append(plans, [candidate |-> held[c].version, approval |-> approval])
    /\ applied' = Append(applied, 0)
    /\ Audited(c)
    /\ UNCHANGED <<registry, installed, runs, answers, executed>>

(* switch: the installation ... *)
AskSwitch(c) ==
    /\ step[c] = "idle"
    /\ installed # Absent
    /\ \E v \in Version :
        /\ Executable(v)
        /\ Go(c, "choose", [Nothing EXCEPT !.from = installed.current, !.version = v])
    /\ UNCHANGED <<registry, Tables, History>>

LatestPlan(v) ==
    LET for == {i \in DOMAIN plans : plans[i].candidate = v} IN
    IF for = {} THEN 0 ELSE CHOOSE i \in for : \A j \in for : j <= i

Pending(plan) == IF plan = 0 THEN FALSE ELSE plans[plan].approval = "pending"

(* ... the candidate's latest plan, which a change of version needs pending ... *)
ChoosePlan(c) ==
    /\ step[c] = "choose"
    /\ LET v == held[c].version  plan == LatestPlan(v)
           allowed == v = held[c].from \/ Pending(plan) IN
        \/ allowed /\ Go(c, "switch", [held[c] EXCEPT !.plan = plan])
        \/ ~allowed /\ Finish(c)
    /\ UNCHANGED <<registry, Tables, History>>

(* Mutant: the plan stays pending. *)
MarkApplied_Pending(plan) == UNCHANGED plans

MarkApplied(plan) ==
    plans' = IF plan = 0 THEN plans ELSE [plans EXCEPT ![plan].approval = "applied"]

(* ... and the write of the versions and of the plan. *)
Switch(c) ==
    /\ step[c] = "switch"
    /\ LET v == held[c].version  plan == held[c].plan IN
        /\ installed' = [installed EXCEPT !.previous = held[c].from, !.current = v]
        /\ MarkApplied(plan)
        /\ applied' = IF v = held[c].from THEN applied
                      ELSE [applied EXCEPT ![plan] = @ + 1]
    /\ Audited(c)
    /\ UNCHANGED <<registry, releases, runs, answers, executed>>

RollbackTarget ==
    IF installed.previous = Absent THEN installed.current ELSE installed.previous

(* rollback: the target and its status are settled from one reading ... *)
AskRollback(c) ==
    /\ step[c] = "idle"
    /\ installed # Absent
    /\ Go(c, "rollback", [Nothing EXCEPT !.version = RollbackTarget,
                                !.sound = Executable(RollbackTarget)])
    /\ UNCHANGED <<registry, Tables, History>>

(* Mutant: a status the code never gives an installation. *)
Rollback_Failed(c) ==
    /\ step[c] = "rollback"
    /\ installed' = [installed EXCEPT !.current = held[c].version, !.enabled = FALSE,
                        !.status = IF held[c].sound THEN "rolled_back" ELSE "failed"]
    /\ Audited(c)
    /\ UNCHANGED <<registry, releases, plans, runs, History>>

(* ... and written. *)
Rollback(c) ==
    /\ step[c] = "rollback"
    /\ installed' = [installed EXCEPT !.current = held[c].version, !.enabled = FALSE,
                        !.status = IF held[c].sound THEN "rolled_back" ELSE "quarantined"]
    /\ Audited(c)
    /\ UNCHANGED <<registry, releases, plans, runs, History>>

-----------------------------------------------------------------------------
(* healthcheck: only an executable release that is not quarantined is asked ... *)
AskHealth(c) ==
    /\ step[c] = "idle"
    /\ installed # Absent
    /\ installed.status # "quarantined" /\ Executable(installed.current)
    /\ Go(c, "health", [Nothing EXCEPT !.version = installed.current])
    /\ UNCHANGED <<registry, Tables, History>>

(* ... and its answer recorded in columns that steer nothing. *)
Health(c) ==
    /\ step[c] = "health"
    /\ executed' = executed \cup {<<held[c].version, registry[held[c].version]>>}
    /\ Audited(c)
    /\ UNCHANGED <<registry, Tables, answers, applied>>

(* invoke: the installation and its release; a release that is not executable
   is answered plugin_quarantined, and nothing is recorded.  A plugin that is
   not installed has no row to record a run under: the request fails. *)
AskInvoke(c) ==
    /\ step[c] = "idle"
    /\ installed # Absent
    /\ Registered(installed.current)
    /\ \E r \in PluginRequest, i \in PluginInput :
        \/ /\ Executable(installed.current)
           /\ Go(c, "lookup", [Nothing EXCEPT !.request = r, !.input = i,
                    !.sound = installed.enabled /\ installed.status # "quarantined",
                    !.version = installed.current])
           /\ UNCHANGED answers
        \/ /\ ~Executable(installed.current)
           /\ answers' = answers \cup {<<r, i, "plugin_quarantined">>}
           /\ UNCHANGED <<step, held>>
    /\ UNCHANGED <<registry, Tables, executed, applied>>

(* Another request under the same id is answered from its run. *)
Lookup(c) ==
    /\ step[c] = "lookup"
    /\ LET r == held[c].request  i == held[c].input  run == runs[held[c].request] IN
        \/ /\ run # Absent
           /\ answers' = answers \cup
                {<<r, i, IF run.input = i THEN run.outcome ELSE "idempotency_conflict">>}
           /\ Finish(c)
        \/ /\ run = Absent
           /\ Go(c, "run", held[c])
           /\ UNCHANGED answers
    /\ UNCHANGED <<registry, Tables, executed, applied>>

(* The handler of the version read above, if that reading was enabled; a
   refused permission, a timeout and an exception are all an error. *)
Execute(c) ==
    /\ step[c] = "run"
    /\ \/ /\ held[c].sound
          /\ executed' = executed \cup {<<held[c].version, registry[held[c].version]>>}
          /\ \E outcome \in {"ok", "error"} :
                Go(c, "record", [held[c] EXCEPT !.outcome = outcome])
       \/ /\ ~held[c].sound
          /\ Go(c, "record", [held[c] EXCEPT !.outcome = "plugin_disabled"])
          /\ UNCHANGED executed
    /\ UNCHANGED <<registry, Tables, answers, applied>>

(* Mutant: the last run under a request id replaces the first. *)
RecordRun_Replace(c) ==
    /\ step[c] = "record"
    /\ runs' = [runs EXCEPT ![held[c].request] =
            [input |-> held[c].input, version |-> held[c].version, outcome |-> held[c].outcome]]
    /\ answers' = answers \cup {<<held[c].request, held[c].input, held[c].outcome>>}
    /\ Finish(c)
    /\ UNCHANGED <<registry, releases, installed, plans, executed, applied>>

(* The run is recorded; a second one under the request id fails. *)
RecordRun(c) ==
    /\ step[c] = "record"
    /\ \/ /\ runs[held[c].request] = Absent
          /\ runs' = [runs EXCEPT ![held[c].request] = [input |-> held[c].input,
                        version |-> held[c].version, outcome |-> held[c].outcome]]
          /\ answers' = answers \cup {<<held[c].request, held[c].input, held[c].outcome>>}
       \/ /\ runs[held[c].request] # Absent
          /\ UNCHANGED <<runs, answers>>
    /\ Finish(c)
    /\ UNCHANGED <<registry, releases, installed, plans, executed, applied>>

-----------------------------------------------------------------------------
(* The process ends: every request is lost.  The next build may register other
   manifests and other versions. *)
Restart ==
    /\ registry' \in Build
    /\ step' = [c \in Caller |-> "idle"]
    /\ held' = [c \in Caller |-> Nothing]
    /\ UNCHANGED <<Tables, History>>

PluginNext ==
    \/ \E c \in Caller :
        \/ AskInstall(c) \/ Install(c) \/ Audit(c)
        \/ AskEnabled(c) \/ SetEnabled(c)
        \/ AskPreview(c) \/ Preview(c)
        \/ AskSwitch(c) \/ ChoosePlan(c) \/ Switch(c)
        \/ AskRollback(c) \/ Rollback(c)
        \/ AskHealth(c) \/ Health(c)
        \/ AskInvoke(c) \/ Lookup(c) \/ Execute(c) \/ RecordRun(c)
    \/ Restart

PluginSpec == PluginInit /\ [][PluginNext]_pluginVars

(* At most one request is under way. *)
PluginAlone == \A c, d \in Caller : step'[c] # "idle" /\ step'[d] # "idle" => c = d

-----------------------------------------------------------------------------
(* PluginRegistry.register: one manifest under a version; and plugin_releases. *)
Registry == [Version -> Manifest \cup {Absent}]
ReleaseTable == [Version -> Manifest \cup {Absent}]

(* Every variable has its type. *)
PluginTypeOK ==
    /\ registry \in Registry
    /\ releases \in ReleaseTable
    /\ installed \in Installation \cup {Absent}
    /\ plans \in Seq(Plan) /\ Len(plans) <= MaxPlans
    /\ \A r \in PluginRequest : runs[r] \in Run \cup {Absent}
    /\ DOMAIN applied = DOMAIN plans

(* invoke and healthcheck only ever run a handler whose manifest is the one
   staged under its version and had passed the scan, whatever other requests
   and later builds changed in between.  (update_preview compares the candidate
   with the current version before any scan, and does run both.) *)
RunsVerified ==
    \A run \in executed : run[2] \in Clean /\ releases[run[1]] = run[2]

(* The tables have their types, and a handler is run only as it was verified. *)
PluginRunsVerified == PluginTypeOK /\ RunsVerified

(* A request id has one run, and whoever repeats the request with that input
   is told its outcome, by concurrent callers and after a restart too. *)
OneAnswer ==
    \A a, b \in answers :
        /\ a[1] = b[1] /\ a[2] = b[2]
        /\ a[3] # "plugin_quarantined" /\ b[3] # "plugin_quarantined"
        => a[3] = b[3]

(* One request at a time: an enabled plugin's release passed the scan when it
   was staged, after every sequence of installs, switches and rollbacks. *)
EnabledIsVerified ==
    installed # Absent /\ installed.enabled => releases[installed.current] \in Clean

(* One request at a time: a plan moves the installation at most once, so a
   version that was rolled back needs a new preview. *)
PlanAppliedOnce == \A i \in DOMAIN applied : applied[i] <= 1

(* One request at a time, what set_enabled, apply_update and rollback leave enabled
   is a release that was verified, and apply_update applies a plan once. *)
UpdatesAreVerified == EnabledIsVerified /\ PlanAppliedOnce
=============================================================================
