------------------------------- MODULE MCCareer -------------------------------
(***************************************************************************)
(* Small instances of Applications, Communications, Resumes and            *)
(* ResumeStudio for TLC.  They share no state: a behaviour belongs to one  *)
(* of them.  Interview sessions are explored apart from long applications: *)
(* they only need an interview; the studio apart from long histories; and  *)
(* the creations of a day, of three drafts, apart from what becomes of two.*)
(***************************************************************************)
EXTENDS Applications, Communications, Sequences

CONSTANTS
    ResumeCandidate, Item, Operation, Patch, Revision, MaxBase, Profile, Title, TypstOutput,
    item1, item2, item3,
    spare     \* a message that is only created

VARIABLES
    section,  \* the part a behaviour belongs to
    bases, patches, revisions, profiles, links, files, renders, reports, reviews, doing, told

rVars == <<bases, patches, revisions>>
sVars == <<profiles, links, files, renders, reports, reviews, doing, told>>

careerVars == <<section, applicationVars, communicationVars, rVars, sVars>>

(* One operation for the parts that are not about operations. *)
Removal == [action |-> "remove", target |-> 1, expected |-> item1, value |-> None]

(* Operations written against the two entries of a first base, or against what
   another operation leaves of them. *)
FewOperations ==
    {Removal,
     [action |-> "set", target |-> 1, expected |-> item1, value |-> item3],
     [action |-> "set", target |-> 2, expected |-> item1, value |-> item2],
     [action |-> "insert", target |-> 0, expected |-> <<item1, item2>>, value |-> item1],
     [action |-> "remove", target |-> 0, expected |-> <<item1>>, value |-> None]}

S == INSTANCE ResumeStudio WITH Candidate <- ResumeCandidate, answered <- told

ASSUME CareerAssumption ==
    ApplicationAssumption /\ CommunicationAssumption /\ S!StudioAssumption

FirstBase == \A r \in Resume : bases'[r] # <<>> => bases'[r][1].content = <<item1, item2>>

(* The ids of new drafts are exchangeable: the spare one is the last to be used. *)
SpareLast(m) ==
    /\ drafts[m] = None
    /\ m = spare => \A n \in Message \ {spare} :
                        drafts[n] # None \/ \E c \in Client : cheld[c].message = n

CareerInit ==
    /\ section \in {"applications", "sessions", "communications", "creations",
                    "resumes", "proposals", "renders"}
    /\ ApplicationInit
    /\ CommunicationInit
    /\ S!StudioInit

CareerNext ==
    /\ \/ /\ section = "applications"
          /\ ApplicationNext
          /\ UNCHANGED <<turns, speaking>>
          /\ UNCHANGED <<communicationVars, rVars, sVars>>
       \/ /\ section = "sessions"
          /\ ApplicationNext
          /\ \A a \in Application : Len(applications'[a]) <= 3
          /\ UNCHANGED <<communicationVars, rVars, sVars>>
       \/ /\ section \in {"communications", "creations"}
          /\ CommunicationNext
          /\ \A c \in Client :
                IF section = "communications"
                THEN day' = 1 /\ cheld'[c].message # spare /\ cheld'[c].limit <= 1
                ELSE /\ cstep'[c] \in {"idle", "count", "create"}
                     /\ cstep[c] # cstep'[c] /\ cstep'[c] = "count" => SpareLast(cheld'[c].message)
          /\ UNCHANGED <<applicationVars, rVars, sVars>>
       \/ /\ section = "resumes"
          /\ S!ResumeNext
          /\ FirstBase
          /\ Cardinality({r \in Resume : bases'[r] # <<>>}) <= 1
          /\ UNCHANGED <<applicationVars, communicationVars, sVars>>
       \/ /\ section \in {"proposals", "renders"}
          /\ S!StudioNext
          /\ FirstBase
          /\ IF section = "proposals"
             THEN /\ revisions' = revisions
                  /\ \A p \in Patch : patches'[p] # None => patches'[p].operations = <<Removal>>
             ELSE /\ patches' = patches
                  /\ Cardinality({x \in S!RenderRun :
                        \/ renders'[x] # None
                        \/ \E c \in Client : "run" \in DOMAIN doing'[c] /\ doing'[c].run = x}) <= 1
          /\ UNCHANGED <<applicationVars, communicationVars>>
    /\ UNCHANGED section

CareerSpec == CareerInit /\ [][CareerNext]_careerVars

(* An entry a resume revision has lost or gained was removed or proposed by an operation
   a user accepted, and a revision stays what its base and its patches compose to. *)
ChangedOnlyByReview ==
    S!ResumeTypeOK /\ S!LostOnlyByReview /\ S!AddedOnlyByReview /\ S!RevisionStaysComposed

(* A patch that a proposal was answered with is linked to its profile, whoever was told
   of a render or its review was told of the stored one, and a stored render has its file
   and its report, wherever the process ended. *)
AnsweredIsStored ==
    /\ S!StudioTypeOK
    /\ S!AnsweredIsLinked
    /\ S!RenderIsComplete
    /\ S!AnsweredRenderIsStored
    /\ S!AnsweredReviewStands
=============================================================================
