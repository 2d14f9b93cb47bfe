----------------------------- MODULE MCConnectors -----------------------------
(***************************************************************************)
(* Small instances of FolderSync and ConnectorDispatch for TLC.  They      *)
(* share no state: a behaviour belongs to one of them, and the other one   *)
(* stays as it started.                                                    *)
(***************************************************************************)
EXTENDS ConnectorDispatch, TLC

CONSTANTS File, Content, Run

ASSUME ContentAssumption == None \notin Content

VARIABLES
    area,  \* the part a behaviour belongs to
    folder, connector, resources, runs, place, existing, todo, current, seen, missing,
    quiet, gone

folderVars == <<folder, connector, resources, runs, place, existing, todo, current, seen,
                missing, quiet, gone>>

F == INSTANCE FolderSync WITH phase <- place

ConnectorsInit ==
    /\ area \in {"folder", "dispatch"}
    /\ Init
    /\ F!Init
    /\ area = "dispatch" => folder = F!Nothing

(* Of the syncs at most two are under way at a time. *)
ConnectorsNext ==
    /\ \/ /\ area = "folder"
          /\ F!Next
          /\ Cardinality({r \in Run : place'[r] \in F!Working}) <= 2
          /\ UNCHANGED vars
       \/ /\ area = "dispatch"
          /\ Next
          /\ UNCHANGED folderVars
    /\ UNCHANGED area

ConnectorsSpec == ConnectorsInit /\ [][ConnectorsNext]_<<area, vars, folderVars>>

(* Requests are named as contents are. *)
ConnectorsSymmetry == Permutations(Run) \cup Permutations(Content)

(* No sync marks a file deleted that was in the folder all the time it ran. *)
NoPresentFileIsDeleted == F!NoPresentFileIsDeleted

(* A failure takes back no completion, nor a late completion a failure. *)
FinishedRunIsFinal == F!FinishedRunIsFinal

(* The folder's tables have their types, and an undisturbed sync leaves its manifest and
   the table equal to the folder. *)
TableIsExact == F!TypeOK /\ F!QuietSyncIsExact

(* Of the requests that race for a task one executes it, and a schedule is advanced only
   for a connector that was synced since the request asked for it. *)
DispatchHolds == TypeOK /\ ClaimIsExclusive /\ AdvanceIsEarned
=============================================================================
