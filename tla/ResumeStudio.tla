----------------------------- MODULE ResumeStudio -----------------------------
(***************************************************************************)
(* The resume studio: target profiles, the patches proposed for them, and  *)
(* the renders of a revision with their reviews                            *)
(* (services/resume_studio_service.py, db/resume_studio_repository.py).    *)
(* A request reads before its transaction begins, so two requests          *)
(* interleave; a proposal commits its patch and its link apart, and a      *)
(* render is a file before it is a row, so a crash may come in between.    *)
(***************************************************************************)
EXTENDS Resumes

CONSTANTS
    Client,             \* requests being served
    Profile, Title,
    TypstOutput         \* files an external compiler may produce

Template == {"html", "typst"}

(* render_run_id is a digest of the exact inputs. *)
RenderRun == [revision : Revision, profile : Profile \cup {None}, template : Template]

(* The local renderer is a function of the revision. *)
Output == [html : Revision] \cup [typst : TypstOutput]

TargetProfile == [resume : Resume, title : Title]

Decision == {"approved", "rejected"}

(* None is no value of these types. *)
StudioAssumption ==
    /\ ResumeAssumption
    /\ None \notin TargetProfile
    /\ None \notin Output
    /\ None \notin Decision

VARIABLES
    profiles,   \* resume_target_profile
    links,      \* resume_target_patch_ref
    files,      \* the artifact store
    renders,    \* resume_render_run: its output; rows carry their report
    reports,    \* resume_ats_report
    reviews,    \* resume_render_review
    doing,      \* what each request is at
    answered    \* answers given

studioVars == <<profiles, links, files, renders, reports, reviews, doing, answered>>

Idle == [step |-> "idle"]

StudioInit ==
    /\ Init
    /\ profiles = [t \in Profile |-> None]
    /\ links = {}
    /\ files = {}
    /\ renders = [x \in RenderRun |-> None]
    /\ reports = {}
    /\ reviews = [x \in RenderRun |-> None]
    /\ doing = [c \in Client |-> Idle]
    /\ answered = {}

Go(c, next) == doing' = [doing EXCEPT ![c] = next]

Answer(c, answer) == Go(c, Idle) /\ answered' = answered \cup {answer}

(* create_target_profile reads the identifier; an equal profile is returned. *)
AskProfile(c) ==
    /\ doing[c] = Idle
    /\ \E t \in Profile, r \in Resume, title \in Title :
        LET profile == [resume |-> r, title |-> title] IN
        /\ bases[r] # <<>>
        /\ IF profiles[t] = None
           THEN Go(c, [step |-> "profile", id |-> t, profile |-> profile])
           ELSE UNCHANGED doing
    /\ UNCHANGED <<resumeVars, profiles, links, files, renders, reports, reviews, answered>>

(* It inserts what it read absent; the primary key refuses a second insert. *)
CreateProfile(c) ==
    /\ doing[c].step = "profile"
    /\ profiles' = IF profiles[doing[c].id] = None
                   THEN [profiles EXCEPT ![doing[c].id] = doing[c].profile]
                   ELSE profiles
    /\ Go(c, Idle)
    /\ UNCHANGED <<resumeVars, links, files, renders, reports, reviews, answered>>

(* propose_patch commits the patch, or replays the command that committed it. *)
ProposeFor(c) ==
    /\ doing[c] = Idle
    /\ \E t \in Profile, p \in Patch :
        /\ profiles[t] # None
        /\ \/ ProposePatch(p)
           \/ patches[p] # None /\ UNCHANGED resumeVars
        /\ patches'[p].resume = profiles[t].resume
        /\ Go(c, [step |-> "link", profile |-> t, patch |-> p])
    /\ UNCHANGED <<profiles, links, files, renders, reports, reviews, answered>>

(* Mutant: a patch is linked only while it is still proposed. *)
LinkPatch_Proposed(c) ==
    /\ doing[c].step = "link"
    /\ links' = IF patches[doing[c].patch].status = "proposed"
                THEN links \cup {<<doing[c].profile, doing[c].patch>>} ELSE links
    /\ Answer(c, [patch |-> doing[c].patch, profile |-> doing[c].profile])
    /\ UNCHANGED <<resumeVars, profiles, files, renders, reports, reviews>>

(* link_patch: INSERT OR IGNORE in a transaction of its own. *)
LinkPatch(c) ==
    /\ doing[c].step = "link"
    /\ links' = links \cup {<<doing[c].profile, doing[c].patch>>}
    /\ Answer(c, [patch |-> doing[c].patch, profile |-> doing[c].profile])
    /\ UNCHANGED <<resumeVars, profiles, files, renders, reports, reviews>>

(* render: the local template is always active, the typst one when its compiler is
   available; a compiler need not produce the same file twice. *)
Render(c) ==
    /\ doing[c] = Idle
    /\ \E x \in RenderRun :
        /\ revisions[x.revision] # None
        /\ x.profile # None => /\ profiles[x.profile] # None
                               /\ profiles[x.profile].resume = revisions[x.revision].resume
        /\ \E output \in IF x.template = "html" THEN {[html |-> x.revision]}
                         ELSE [typst : TypstOutput] :
            Go(c, [step |-> "put", run |-> x, output |-> output])
    /\ UNCHANGED <<resumeVars, profiles, links, files, renders, reports, reviews, answered>>

(* Mutant: the file is stored after the rows. *)
PutRender_Later(c) ==
    /\ doing[c].step = "put"
    /\ Go(c, [doing[c] EXCEPT !.step = "read"])
    /\ UNCHANGED <<resumeVars, profiles, links, files, renders, reports, reviews, answered>>

(* persist_render stores the file first. *)
PutRender(c) ==
    /\ doing[c].step = "put"
    /\ files' = files \cup {doing[c].output}
    /\ Go(c, [doing[c] EXCEPT !.step = "read"])
    /\ UNCHANGED <<resumeVars, profiles, links, renders, reports, reviews, answered>>

(* Mutant: the stored run is not compared with the new one. *)
ReadRender_Any(c) ==
    /\ doing[c].step = "read"
    /\ IF renders[doing[c].run] = None
       THEN Go(c, [doing[c] EXCEPT !.step = "insert"]) /\ UNCHANGED answered
       ELSE Answer(c, [run |-> doing[c].run, output |-> doing[c].output])
    /\ UNCHANGED <<resumeVars, profiles, links, files, renders, reports, reviews>>

(* Then it looks for the run: the same output is returned, another one refused. *)
ReadRender(c) ==
    /\ doing[c].step = "read"
    /\ CASE renders[doing[c].run] = None ->
                Go(c, [doing[c] EXCEPT !.step = "insert"]) /\ UNCHANGED answered
         [] renders[doing[c].run] = doing[c].output ->
                Answer(c, [run |-> doing[c].run, output |-> doing[c].output])
         [] OTHER -> Go(c, Idle) /\ UNCHANGED answered
    /\ UNCHANGED <<resumeVars, profiles, links, files, renders, reports, reviews>>

(* The run and its report are one transaction, refused by a run inserted since. *)
InsertRender(c) ==
    /\ doing[c].step = "insert"
    /\ IF renders[doing[c].run] = None
       THEN /\ renders' = [renders EXCEPT ![doing[c].run] = doing[c].output]
            /\ reports' = reports \cup {doing[c].run}
            /\ Answer(c, [run |-> doing[c].run, output |-> doing[c].output])
       ELSE Go(c, Idle) /\ UNCHANGED <<renders, reports, answered>>
    /\ UNCHANGED <<resumeVars, profiles, links, files, reviews>>

(* review_render reads the review; the same one is returned, another one refused. *)
AskReviewRender(c) ==
    /\ doing[c] = Idle
    /\ \E x \in RenderRun, decision \in Decision :
        /\ renders[x] # None
        /\ CASE reviews[x] = None ->
                    Go(c, [step |-> "review", run |-> x, decision |-> decision])
                    /\ UNCHANGED answered
             [] reviews[x] = decision -> Answer(c, [reviewed |-> x, decision |-> decision])
             [] OTHER -> FALSE
    /\ UNCHANGED <<resumeVars, profiles, links, files, renders, reports, reviews>>

(* Mutant: the later review replaces the earlier one. *)
ReviewRender_Replace(c) ==
    /\ doing[c].step = "review"
    /\ reviews' = [reviews EXCEPT ![doing[c].run] = doing[c].decision]
    /\ Answer(c, [reviewed |-> doing[c].run, decision |-> doing[c].decision])
    /\ UNCHANGED <<resumeVars, profiles, links, files, renders, reports>>

(* It inserts what it read absent. *)
ReviewRender(c) ==
    /\ doing[c].step = "review"
    /\ IF reviews[doing[c].run] = None
       THEN /\ reviews' = [reviews EXCEPT ![doing[c].run] = doing[c].decision]
            /\ Answer(c, [reviewed |-> doing[c].run, decision |-> doing[c].decision])
       ELSE Go(c, Idle) /\ UNCHANGED <<reviews, answered>>
    /\ UNCHANGED <<resumeVars, profiles, links, files, renders, reports>>

(* The process ends: requests are forgotten, tables and files stay. *)
Crash ==
    /\ \E c \in Client : doing[c] # Idle
    /\ doing' = [c \in Client |-> Idle]
    /\ UNCHANGED <<resumeVars, profiles, links, files, renders, reports, reviews, answered>>

Elsewhere ==
    /\ \/ \E r \in Resume : SaveBase(r)
       \/ \E p \in Patch : ReviewPatch(p)
       \/ \E v \in Revision : CreateRevision(v)
    /\ UNCHANGED studioVars

StudioNext ==
    \/ \E c \in Client :
        \/ AskProfile(c) \/ CreateProfile(c) \/ ProposeFor(c) \/ LinkPatch(c)
        \/ Render(c) \/ PutRender(c) \/ ReadRender(c) \/ InsertRender(c)
        \/ AskReviewRender(c) \/ ReviewRender(c)
    \/ Crash
    \/ Elsewhere

StudioSpec == StudioInit /\ [][StudioNext]_<<resumeVars, studioVars>>

-----------------------------------------------------------------------------
(* The tables of migrations 0016 and 0018. *)
ProfileTable == [Profile -> TargetProfile \cup {None}]
LinkTable == SUBSET (Profile \X Patch)
RenderTable == [RenderRun -> Output \cup {None}]
ReportTable == SUBSET RenderRun
ReviewTable == [RenderRun -> Decision \cup {None}]

(* The rows satisfy the tables' constraints. *)
StudioTypeOK ==
    /\ profiles \in ProfileTable
    /\ links \in LinkTable
    /\ files \subseteq Output
    /\ renders \in RenderTable
    /\ reports \in ReportTable
    /\ reviews \in ReviewTable

(* A proposal that was answered is linked to its profile, also when the process
   ended between the two commits and the request was sent again, and a link stays
   within one resume. *)
AnsweredIsLinked ==
    /\ \A answer \in answered : "patch" \in DOMAIN answer =>
        <<answer.profile, answer.patch>> \in links
    /\ \A link \in links : patches[link[2]].resume = profiles[link[1]].resume

(* A stored run has its file and its report, wherever the process ended. *)
RenderIsComplete ==
    \A x \in RenderRun : renders[x] # None => renders[x] \in files /\ x \in reports

(* Whoever was told of a render was told of the one that is stored, although two
   requests render the same inputs and a compiler may not repeat itself. *)
AnsweredRenderIsStored ==
    \A answer \in answered : "output" \in DOMAIN answer => renders[answer.run] = answer.output

(* Whoever was told of a review of a render was told of the one that stands. *)
AnsweredReviewStands ==
    \A answer \in answered : "decision" \in DOMAIN answer =>
        reviews[answer.reviewed] = answer.decision
=============================================================================
