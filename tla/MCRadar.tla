-------------------------------- MODULE MCRadar --------------------------------
(***************************************************************************)
(* Small instances of Opportunities, SourceBreaker, JobStaging and Backups *)
(* for TLC.  They share no state: a behaviour belongs to one of them, and  *)
(* the others stay as they started.                                        *)
(***************************************************************************)
EXTENDS Opportunities, TLC

CONSTANTS
    Collector, User, Threshold, Retries, MaxFailures,
    Admitter, Inputs, Run, MaxTime, MaxBatch, here, there, one, other,
    Artifact, Writer

VARIABLES
    area,  \* the part a behaviour belongs to
    policy, turn, attempt, current, request, streak,
    rows, runs, files, jobs, opportunities, writer, step, held, collected, admitted, seeded,
    stored, partial, named, writing, stage, list, copied, intact, database, sound, manifest,
    restoring, target

breakerVars == <<policy, turn, attempt, current, request, streak>>
stagingVars == <<rows, runs, files, jobs, opportunities, writer, step, held,
                 collected, admitted, seeded>>
backupVars  == <<stored, partial, named, writing, stage, list, copied, intact, database,
                 sound, manifest, restoring, target>>

(* Two postings with one url, two with one content. *)
Posting == {[url |-> here, content |-> one], [url |-> here, content |-> other],
            [url |-> there, content |-> other]}

S == INSTANCE SourceBreaker WITH phase <- turn
J == INSTANCE JobStaging
B == INSTANCE Backups

ASSUME RadarAssumption == S!BreakerAssumption /\ J!StagingAssumption

RadarInit ==
    /\ area \in {"opportunities", "breaker", "staging", "backups"}
    /\ Init
    /\ S!Init
    /\ area # "breaker" => policy.threshold = CHOOSE t \in Threshold : TRUE
    /\ J!StagingInit
    /\ B!BackupInit

(* The breaker is explored with one collect or policy request at a time. *)
RadarNext ==
    /\ \/ /\ area = "opportunities"
          /\ Next
          /\ UNCHANGED <<breakerVars, stagingVars, backupVars>>
       \/ /\ area = "breaker"
          /\ S!Next
          /\ S!Alone
          /\ UNCHANGED <<vars, stagingVars, backupVars>>
       \/ /\ area = "staging"
          /\ J!StagingNext
          /\ UNCHANGED <<vars, breakerVars, backupVars>>
       \/ /\ area = "backups"
          /\ B!BackupNext
          /\ UNCHANGED <<vars, breakerVars, stagingVars>>
    /\ UNCHANGED area

RadarSpec == RadarInit /\ [][RadarNext]_<<area, vars, breakerVars, stagingVars, backupVars>>

(* Collectors and Writers are named as Clients are. *)
RadarSymmetry == Permutations(Client) \cup Permutations(Key)

(* A record is admitted exactly when its Job and its Opportunity exist. *)
AdmissionIsWhole == J!AdmissionIsWhole

(* The failure count of a source is its failures in a row, and the failure that reaches
   the threshold disables the source. *)
BreakerIsExact == [](S!TypeOK /\ S!CountIsExact) /\ S!TripsAtThreshold

(* collect leaves all of its records or none; of the records of one posting at most one
   becomes an opportunity, however many collects overlap; and a stored record has its
   raw artifact, through rollbacks and crashes. *)
StagingIsSound ==
    J!StagingTypeOK /\ J!OnePerPosting /\ J!BatchIsWhole /\ J!EvidenceHasItsFile

(* A completed backup holds the file of every artifact its rows name, a restored
   database stands beside all of its files, and a restoration that failed can be
   repeated. *)
CopiesAreWhole ==
    B!BackupTypeOK /\ B!BackupIsWhole /\ B!RestoredIsWhole /\ B!FailedRestoreIsRepeatable
=============================================================================
