----------------------------- MODULE MCBackground -----------------------------
(***************************************************************************)
(* Small instances of TaskQueue and PluginLifecycle for TLC: what the      *)
(* backend runs for its user.  They share no state: a behaviour belongs to *)
(* one of them, and the other one stays as it started.                     *)
(***************************************************************************)
EXTENDS TaskQueue, PluginLifecycle, TLC

CONSTANTS good, bad, foreign

VARIABLES
    area,   \* the part a behaviour belongs to
    alone   \* at most one request to the plugin service is under way

\* Two builds that agree, one that lacks a version, and two that replace one: by a manifest
\* that the scan refuses, and by one of a type that is not installed.
Builds == {<<good, Absent>>, <<good, good>>, <<bad, good>>, <<foreign, good>>}

ASSUME BackgroundAssumption == PluginAssumption

BackgroundInit ==
    /\ area \in {"tasks", "plugins"}
    /\ alone \in BOOLEAN
    /\ Init
    /\ PluginInit
    /\ area = "tasks" => ~alone /\ registry = <<good, good>>

BackgroundNext ==
    /\ \/ /\ area = "tasks"
          /\ Next
          /\ UNCHANGED pluginVars
       \/ /\ area = "plugins"
          /\ PluginNext
          /\ alone => PluginAlone
          /\ UNCHANGED vars
    /\ UNCHANGED <<area, alone>>

BackgroundSpec == BackgroundInit /\ [][BackgroundNext]_<<area, alone, vars, pluginVars>>

(* Callers are named as Workers are. *)
BackgroundSymmetry == Permutations(Worker)

(* With one request at a time, what set_enabled, apply_update and rollback leave
   enabled is a release that was verified, and apply_update applies a plan once. *)
AloneUpdatesAreVerified == alone => UpdatesAreVerified
=============================================================================
