---------------------------- MODULE SetupWizard ----------------------------
(***************************************************************************)
(* The configuration wizard of the terminal interface: the settings of the *)
(* agent profiles are asked one field at a time, a preview of the file is  *)
(* generated when the review step is reached and Save writes that preview. *)
(* An edited configuration is generated asynchronously; nothing ties the   *)
(* answer to the wizard that asked for it.                                 *)
(***************************************************************************)
EXTENDS Naturals, Sequences

CONSTANTS Profiles,     \* the agent profiles; "builder" also has write access
          Providers,    \* each with one model, known by the provider's name
          MaxOpened     \* how often the wizard is opened

VARIABLES
    step,        \* 0 when the wizard is closed, then the steps 1 to 4
    choosing,    \* setupProfileSelection
    profile,     \* setupProfile
    field,       \* the profile's field, or "legacy": the builder's write access
    settings,    \* setupProfileValues
    edited,      \* setupEditedProfiles
    editing,     \* editingConfiguration
    models,      \* setupModels: the providers discovered
    preview,     \* generated
    building,    \* the previews being generated
    saving,      \* the write in flight: what is written, what the person sees
    file,        \* the configuration file
    opened,      \* how often the wizard was opened
    overtaken    \* history: a preview was shown that is not of these settings

setupVars == <<step, choosing, profile, field, settings, edited, editing, models, preview,
               building, saving, file, opened, overtaken>>

None == "none"
Answer == {"yes", "no"}
Blank == [provider |-> None, model |-> None, write |-> None]
NoSettings == [p \in Profiles |-> Blank]
NoFile == NoSettings
NoPreview == <<>>
NoSave == <<>>

Complete(p) == /\ settings[p].provider # None /\ settings[p].model # None
               /\ (p = "builder") = (settings[p].write # None)

Fields(p) == IF p = "builder" THEN <<"provider", "model", "thinking", "write">>
             ELSE <<"provider", "model", "thinking">>

\* A file some earlier run of the program wrote, or none.
SetupInit ==
    /\ file \in {NoFile} \union
         {[p \in Profiles |-> [provider |-> v, model |-> v,
                               write |-> IF p = "builder" THEN "no" ELSE None]] : v \in Providers}
    /\ step = 0 /\ choosing = FALSE /\ profile = None /\ field = 1
    /\ settings = NoSettings /\ edited = {} /\ editing = FALSE /\ models = {}
    /\ preview = NoPreview /\ building = {} /\ saving = NoSave
    /\ opened = 0 /\ overtaken = FALSE

\* new-run or the choice of a folder without a configuration; the key c with one.
OpenSetup ==
    /\ step = 0 /\ opened < MaxOpened
    /\ opened' = opened + 1
    /\ editing' = (file # NoFile)
    /\ step' = IF editing' THEN 2 ELSE 1
    /\ choosing' = editing' /\ profile' = None /\ field' = 1
    /\ settings' = file /\ edited' = {}
    /\ models' = IF editing' THEN {} ELSE models
    /\ preview' = NoPreview
    /\ UNCHANGED <<building, saving, file, overtaken>>

Discovered ==
    /\ step # 0 /\ models = {}
    /\ models' = Providers
    /\ UNCHANGED <<step, choosing, profile, field, settings, edited, editing, preview, building,
                   saving, file, opened, overtaken>>

SetupNext ==
    /\ step = 1
    /\ step' = 2 /\ choosing' = TRUE
    /\ UNCHANGED <<profile, field, settings, edited, editing, models, preview, building, saving,
                   file, opened, overtaken>>

SelectProfile(p) ==
    /\ step = 2 /\ choosing
    /\ choosing' = FALSE /\ profile' = p /\ step' = 3 /\ field' = 1
    /\ edited' = edited \union {p}
    /\ UNCHANGED <<settings, editing, models, preview, building, saving, file, opened, overtaken>>

\* setupProfileChoices: the discovered models of the provider, or a text.
Choices(p) ==
    CASE Fields(p)[field] = "provider" -> IF models = {} THEN Providers ELSE models
      [] Fields(p)[field] = "model" -> IF settings[p].provider \in models
                                         THEN {settings[p].provider} ELSE Providers
      [] Fields(p)[field] = "thinking" -> {None}
      [] OTHER -> Answer

Answered(p, v) ==
    IF Fields(p)[field] = "thinking" THEN settings
    ELSE [settings EXCEPT ![p][Fields(p)[field]] = v]

AnswerField(v) ==
    /\ step = 3 /\ ~choosing /\ v \in Choices(profile)
    /\ settings' = Answered(profile, v)
    /\ IF field = Len(Fields(profile))
         THEN step' = 2 /\ choosing' = TRUE /\ profile' = None /\ UNCHANGED field
         ELSE field' = field + 1 /\ UNCHANGED <<step, choosing, profile>>
    /\ UNCHANGED <<edited, editing, models, preview, building, saving, file, opened, overtaken>>

\* generateUpdatedConfiguration: the file with the settings of the edited profiles.
Generated(s, e) == [p \in Profiles |-> IF p \in e /\ s[p].provider # None /\ s[p].model # None
                                         THEN s[p] ELSE file[p]]

\* buildGenerated runs when the review step is reached; only the preview of an
\* edited configuration is awaited.
Build(s) ==
    IF editing THEN /\ building' = building \union {Generated(s, edited)}
                    /\ overtaken' = (overtaken \/ preview # NoPreview \/ building # {}
                                       \/ Generated(s, edited) # s)
                    /\ UNCHANGED preview
    ELSE preview' = <<Generated(s, edited)>> /\ UNCHANGED <<building, overtaken>>

ReviewAllowed == \A p \in Profiles : Complete(p)

Review ==
    /\ step = 2 /\ choosing /\ ReviewAllowed
    /\ step' = 4
    /\ Build(settings)
    /\ UNCHANGED <<choosing, profile, field, settings, edited, editing, models, saving, file,
                   opened>>

Built(b) ==
    /\ b \in building
    /\ building' = building \ {b}
    /\ preview' = <<b>>
    /\ overtaken' = (overtaken \/ (step = 4 /\ b # settings))
    /\ UNCHANGED <<step, choosing, profile, field, settings, edited, editing, models, saving,
                   file, opened>>

\* "Go back" of the review asks the builder's write access once more.
SetupBack ==
    /\ step = 4
    /\ step' = 3
    /\ UNCHANGED <<choosing, profile, field, settings, edited, editing, models, preview, building,
                   saving, file, opened, overtaken>>

AnswerWriteAccess(a) ==
    /\ step = 3 /\ choosing
    /\ settings' = [settings EXCEPT !["builder"].write = a]
    /\ step' = 4
    /\ Build(settings')
    /\ UNCHANGED <<choosing, profile, field, edited, editing, models, saving, file, opened>>

SetupCancel ==
    /\ step # 0
    /\ step' = 0 /\ choosing' = FALSE /\ profile' = None /\ field' = 1
    /\ settings' = NoSettings /\ edited' = {} /\ editing' = FALSE /\ models' = {}
    /\ preview' = NoPreview
    /\ UNCHANGED <<building, saving, file, opened, overtaken>>

Save ==
    /\ step = 4 /\ preview # NoPreview /\ saving = NoSave
    /\ saving' = <<preview[1], settings, editing>>
    /\ UNCHANGED <<step, choosing, profile, field, settings, edited, editing, models, preview,
                   building, file, opened, overtaken>>

\* The write answers: a new configuration never replaces one that exists.
Written ==
    /\ saving # NoSave
    /\ saving' = NoSave
    /\ IF saving[3] \/ file = NoFile
         THEN /\ file' = saving[1]
              /\ IF step = 0 THEN UNCHANGED <<step, choosing, profile, edited, editing>>
                 ELSE step' = 0 /\ choosing' = FALSE /\ profile' = None /\ edited' = {}
                      /\ editing' = FALSE
         ELSE UNCHANGED <<file, step, choosing, profile, edited, editing>>
    /\ UNCHANGED <<field, settings, models, preview, building, opened, overtaken>>

SetupStep ==
    \/ OpenSetup \/ Discovered \/ SetupNext \/ Review \/ SetupBack \/ SetupCancel \/ Save \/ Written
    \/ \E p \in Profiles : SelectProfile(p)
    \/ \E v \in Providers \union Answer \union {None} : AnswerField(v)
    \/ \E a \in Answer : AnswerWriteAccess(a)
    \/ \E b \in building : Built(b)

SetupSpec == SetupInit /\ [][SetupStep]_setupVars

-----------------------------------------------------------------------------
\* The review is reached only with every profile complete, on every way there.
ReviewIsComplete == step = 4 => \A p \in Profiles : Complete(p)

\* What Save writes is what the person reviewed, unless the preview of an edited
\* configuration is overtaken by a later one.
SavedIsShown == (saving # NoSave /\ ~overtaken) => saving[1] = saving[2]
============================================================================
