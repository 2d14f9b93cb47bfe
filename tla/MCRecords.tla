------------------------------- MODULE MCRecords -------------------------------
(***************************************************************************)
(* The instances of MCEvidence and MCCareer in one: a behaviour belongs to *)
(* one of them, and the other one stays as it started.                     *)
(***************************************************************************)
EXTENDS MCEvidence, MCCareer

VARIABLE career  \* whether the behaviour belongs to MCCareer

evidenceVars == <<area, factVars, jVars, cVars, mVars>>

RecordsInit ==
    /\ career \in BOOLEAN
    /\ Init
    /\ CareerInit
    /\ IF career THEN area = "facts" /\ steady
                 ELSE section = "applications"

RecordsNext ==
    /\ IF career THEN CareerNext /\ UNCHANGED evidenceVars
                 ELSE Next /\ UNCHANGED careerVars
    /\ UNCHANGED career

RecordsSpec == RecordsInit /\ [][RecordsNext]_<<career, evidenceVars, careerVars>>
================================================================================
