----------------------------- MODULE ProfilePage ------------------------------
(***************************************************************************)
(* The agents of a project in the browser (web/client/ProjectAgents.tsx):  *)
(* a draft is made from the profile of a name, edited, and saved under     *)
(* that name with the hash of the file it was read from.  The file is one  *)
(* of those of LocalFiles; another client saves profiles too.              *)
(*                                                                         *)
(* A profile is the name it was made for and the save that wrote it.       *)
(***************************************************************************)
EXTENDS Naturals

CONSTANTS
    Names,       \* profiles
    MaxSaves     \* bound: writes of the file

VARIABLES
    file,        \* file[n]: the profile on disk; its hash is the number of writes
    hash,
    known,       \* profiles and sourceHash of the page
    selected, draft, confirmed,
    saving,      \* NoSave, or the closure of save() with its request: doc, what the server
                 \* has read; over, the hash it wrote over; gap, writes between the two
    switched     \* a name was selected while a profile was being saved (history)

profileVars == <<file, hash, known, selected, draft, confirmed, saving, switched>>

Builder == "builder"
NoSave == [name |-> "none", at |-> "none"]
Profile(n, version) == [of |-> n, version |-> version, writes |-> FALSE]
savingNow == saving # NoSave

ProfileTypeOK ==
    /\ selected \in Names /\ draft.of \in Names
    /\ known.hash <= hash /\ hash <= MaxSaves

ProfileInit ==
    /\ file = [n \in Names |-> Profile(n, 0)]
    /\ hash = 0
    /\ known = [profiles |-> file, hash |-> 0]
    /\ selected \in Names
    /\ draft = file[selected]
    /\ confirmed = FALSE
    /\ saving = NoSave /\ switched = FALSE

\* select: also while a save is awaited.
SelectProfile(n) ==
    /\ n # selected
    /\ selected' = n
    /\ draft' = known.profiles[n]
    /\ confirmed' = FALSE
    /\ switched' = (switched \/ savingNow)
    /\ UNCHANGED <<file, hash, known, saving>>

EditDraft ==
    /\ \/ draft' = [draft EXCEPT !.writes = ~@] /\ UNCHANGED confirmed
       \/ selected = Builder /\ confirmed' = ~confirmed /\ UNCHANGED draft
    /\ UNCHANGED <<file, hash, known, selected, saving, switched>>

NeedsConfirmation == selected = Builder /\ draft.writes

\* save
Save ==
    /\ ~savingNow
    /\ NeedsConfirmation => confirmed
    /\ saving' = [name |-> selected, profile |-> draft, hash |-> known.hash,
                  confirmed |-> confirmed, doc |-> known.profiles, over |-> known.hash, gap |-> 0,
                  at |-> "sent"]
    /\ UNCHANGED <<file, hash, known, selected, draft, confirmed, switched>>

\* Mutant: the file is written whatever it was read as.
Current_Any(expected) == TRUE

\* The source hash is compared when the file is replaced.
Current(expected) == expected = hash

Written(doc, n, profile) == [doc EXCEPT ![n] = [profile EXCEPT !.version = hash + 1]]

\* The file is read and compared; what is then kept is the whole document.
SaveChecked ==
    /\ saving.at = "sent"
    /\ \/ Current(saving.hash) /\ saving' = [saving EXCEPT !.at = "checked", !.doc = file]
       \/ saving' = [saving EXCEPT !.at = "failed"]
    /\ UNCHANGED <<file, hash, known, selected, draft, confirmed, switched>>

\* The document takes the place of the file, also of one written since; the project may
\* not open afterwards, which is reported as a failure.
SaveReplaces ==
    /\ saving.at = "checked"
    /\ \/ /\ hash < MaxSaves
          /\ file' = Written(saving.doc, saving.name, saving.profile)
          /\ hash' = hash + 1
          /\ \E at \in {"saved", "failed"} : saving' = [saving EXCEPT !.at = at, !.over = hash]
       \/ saving' = [saving EXCEPT !.at = "failed"] /\ UNCHANGED <<file, hash>>
    /\ UNCHANGED <<known, selected, draft, confirmed, switched>>

\* The answer becomes the page's; the draft is that of the name that was saved.
SaveReturns ==
    /\ savingNow /\ saving.at \in {"saved", "failed"}
    /\ IF saving.at = "saved"
       THEN /\ known' = [profiles |-> file, hash |-> hash]
            /\ draft' = file[saving.name]
       ELSE UNCHANGED <<known, draft>>
    /\ saving' = NoSave
    /\ UNCHANGED <<file, hash, selected, confirmed, switched>>

\* Another client, with what it has just read.
SaveElsewhere(n) ==
    /\ hash < MaxSaves
    /\ file' = Written(file, n, file[n]) /\ hash' = hash + 1
    /\ saving' = IF saving.at = "checked" THEN [saving EXCEPT !.gap = @ + 1] ELSE saving
    /\ UNCHANGED <<known, selected, draft, confirmed, switched>>

ProfileStep ==
    \/ EditDraft \/ Save \/ SaveChecked \/ SaveReplaces \/ SaveReturns
    \/ \E n \in Names : SelectProfile(n) \/ SaveElsewhere(n)

-----------------------------------------------------------------------------
\* A profile is written under the name it was made for, unless another name was
\* selected while a save was awaited: its answer then fills the draft with the
\* profile that was saved, under the name that is selected now.
OwnProfile == \A n \in Names : file[n].of # n => switched

\* A save replaces what the page had shown, and a newer file only when that was written
\* between the comparison and the replacement; a builder that may write was confirmed for
\* the draft that is saved.
SavesOverShown ==
    saving.at = "saved" =>
        /\ saving.over = saving.hash + saving.gap
        /\ saving.name = Builder /\ saving.profile.writes => saving.confirmed

ProfileInv == ProfileTypeOK /\ OwnProfile /\ SavesOverShown

ProfileSpec == ProfileInit /\ [][ProfileStep]_profileVars
=============================================================================
