----------------------------- MODULE PhoneEntry -----------------------------
(***************************************************************************)
(* The form of an entry on a phone, new (log.tsx, useCreateEntry.ts) or    *)
(* edited (EditEntryScreen.tsx, useUpdateEntry.ts): the draft of           *)
(* useEntryDraft.ts, the pick of PhotoField.tsx, the save with its uploads *)
(* one after another, and the guard on the way out.                        *)
(*                                                                         *)
(* A photo is a number, and so is the key its upload returned; a file is   *)
(* picked under a new name each time.  Of the fields two are told apart,   *)
(* title (always needed) and note; the stars and the reaction are saved as *)
(* these are.  The original of an edit has photo 1, title 1 and note 1.    *)
(***************************************************************************)
EXTENDS Integers, Sequences, FiniteSets, SequencesExt

CONSTANTS
    PhotosMax,      \* PHOTOS_MAX (10 in the code)
    MaxActs,        \* bound: what the person does
    MaxFaults,      \* bound: uploads and requests that fail
    MaxOthers       \* bound: what the person's other phone does

NoEntry == [photos |-> <<>>, title |-> 0, note |-> 0]
Original == [photos |-> <<1>>, title |-> 1, note |-> 1]
NoSave == [st |-> "idle", i |-> 0, form |-> NoEntry]

VARIABLES
    mode, entry, settled,           \* new or edit; the server's entry, the day settled otherwise
    draft, picked, picking,         \* the form; files picked so far, a file that is being checked
    remembered, uploads,            \* the upload memory; uploads of each file
    save,                           \* one run of submit
    busy, done, ended,              \* busyRef, doneRef, endedRef
    photoMessage, message,
    leaveOpen, allowLeave, saved,   \* the sheet, allowLeaveRef, savedRef
    open, covered, pops,            \* the screen: mounted, under another one, times it went back
    base, lost,                     \* history: the entry as it was or the other phone left it; an answer was lost
    acts, faults, others

stored == <<mode, entry, settled>>
form   == <<draft, picked, picking>>
files  == <<remembered, uploads>>
run    == <<save, busy, done, ended>>
lines  == <<photoMessage, message>>
guard  == <<leaveOpen, allowLeave, saved>>
screen == <<open, covered, pops>>
past   == <<base, lost>>
bounds == <<acts, faults, others>>
vars   == <<stored, form, files, run, lines, guard, screen, past, bounds>>

Baseline == IF mode = "new" THEN NoEntry ELSE Original
DirtyFields == draft.title # Baseline.title \/ draft.note # Baseline.note  \* (mutant: not the photos)
Dirty == draft # Baseline
Unsaved == Dirty /\ ~saved
Missing == draft.photos = <<>> \/ draft.title = 0
CanSubmit == ~busy /\ ~done /\ ~Missing /\ (mode = "new" \/ Dirty)

InHand == open /\ ~covered /\ ~leaveOpen
Acts == acts > 0 /\ acts' = acts - 1 /\ UNCHANGED <<faults, others>>

(* ---- the form ----------------------------------------------------------- *)

\* Nothing of it is live while a save runs; a change of the photos hides the photo's message.
Live == InHand /\ ~busy /\ ~done
SetTitle ==
    /\ Acts /\ Live
    /\ \E t \in {1, 2} : t # draft.title /\ draft' = [draft EXCEPT !.title = t]
    /\ UNCHANGED <<stored, picked, picking, files, run, lines, guard, screen, past>>
SetNote ==
    /\ Acts /\ Live
    /\ draft' = [draft EXCEPT !.note = 2 - draft.note]
    /\ UNCHANGED <<stored, picked, picking, files, run, lines, guard, screen, past>>
\* The camera or the library gives a file; accept reads its size before it is added.
Pick ==
    /\ Acts /\ Live /\ ~picking /\ Len(draft.photos) < PhotosMax
    /\ picked' = picked + 1 /\ picking' = TRUE
    /\ UNCHANGED <<stored, draft, files, run, lines, guard, screen, past>>
Accept ==
    /\ picking /\ picking' = FALSE
    /\ \/ UNCHANGED <<draft, photoMessage>>                     \* refused: type, size or unreadable
       \/ /\ draft' = [draft EXCEPT !.photos = IF Len(@) < PhotosMax THEN Append(@, picked) ELSE @]
          /\ photoMessage' = FALSE
    /\ UNCHANGED <<stored, picked, files, run, message, guard, screen, past, bounds>>
\* (a photo is in the list once, so what is left when it is filtered out is the list without its place)
RemovePhoto(i) ==
    /\ Acts /\ Live
    /\ mode = "new" \/ Len(draft.photos) > 1
    /\ draft' = [draft EXCEPT !.photos = RemoveAt(@, i)]
    /\ remembered' = remembered \ {draft.photos[i]} /\ photoMessage' = FALSE
    /\ UNCHANGED <<stored, picked, picking, uploads, run, message, guard, screen, past>>

(* ---- submit ------------------------------------------------------------- *)

Submit ==
    /\ Acts /\ InHand /\ CanSubmit /\ ~ended
    /\ busy' = TRUE /\ photoMessage' = FALSE /\ message' = FALSE
    /\ save' = [st |-> "uploading", i |-> 1, form |-> draft]
    /\ UNCHANGED <<stored, form, files, done, ended, guard, screen, past>>

\* What of the photos has to be uploaded: in an edit, new files of a changed list.
IsNew(p) == mode = "new" \/ (p \notin ToSet(Original.photos) /\ save.form.photos # Original.photos)
Uploading == save.st = "uploading" /\ save.i <= Len(save.form.photos)
At == save.form.photos[save.i]
Known(p) == ~IsNew(p) \/ p \in remembered
KnownNever(p) == ~IsNew(p)              \* (mutant: nothing is remembered)
Held(p) == Known(p)
NextPhoto ==
    /\ Uploading
    /\ save' = [save EXCEPT !.i = @ + 1]
    /\ IF Held(At) THEN UNCHANGED files
       ELSE remembered' = remembered \cup {At} /\ uploads' = [uploads EXCEPT ![At] = @ + 1]
    /\ UNCHANGED <<stored, form, busy, done, ended, lines, guard, screen, past, bounds>>

Fault == faults > 0 /\ faults' = faults - 1 /\ UNCHANGED <<acts, others>>
SubmitEnds == busy' = FALSE /\ save' = NoSave
\* A refused photo: its line under the strip, and nothing is posted.
UploadFails ==
    /\ Fault /\ Uploading /\ ~Held(At)
    /\ SubmitEnds
    /\ \/ photoMessage' = open /\ UNCHANGED message
       \/ message' = open /\ UNCHANGED photoMessage
    /\ UNCHANGED <<stored, form, files, done, ended, guard, screen, past>>

\* changedFields, and the photos when their list changed.
PatchedChanged(e, f) ==
    [photos |-> IF f.photos # Original.photos THEN f.photos ELSE e.photos,
     title  |-> IF f.title # Original.title THEN f.title ELSE e.title,
     note   |-> IF f.note # Original.note THEN f.note ELSE e.note]
PatchedWhole(e, f) == f                 \* (mutant: every field is sent)
Patched(e, f) == PatchedChanged(e, f)
Post ==
    /\ save.st = "uploading" /\ ~Uploading
    /\ save' = [save EXCEPT !.st = "sent"]
    /\ UNCHANGED <<stored, form, files, busy, done, ended, lines, guard, screen, past, bounds>>

\* POST /entries: the same keys in order are the same post again; one day has one entry.
PostServed ==
    LET f == save.form
        again == entry.photos = f.photos
        ok == again \/ (entry = NoEntry /\ ~settled)
    IN  /\ mode = "new" /\ save.st = "sent"
        /\ save' = [save EXCEPT !.st = IF ok THEN "ok" ELSE "ended"]
        /\ entry' = IF ok /\ ~again THEN f ELSE entry
        /\ UNCHANGED <<mode, settled, form, files, busy, done, ended, lines, guard, screen, past, bounds>>
\* PATCH /entries/{id}: a kept photo must be one of the entry's, a new key in no entry.
PatchServed ==
    LET f == save.form
        list == f.photos # Original.photos
        bad == list /\ \E p \in ToSet(f.photos) : IsNew(p) = (p \in ToSet(entry.photos))
    IN  /\ mode = "edit" /\ save.st = "sent"
        /\ save' = [save EXCEPT !.st = IF entry = NoEntry THEN "ended" ELSE IF bad THEN "refused" ELSE "ok"]
        /\ entry' = IF entry = NoEntry \/ bad THEN entry ELSE Patched(entry, f)
        /\ UNCHANGED <<mode, settled, form, files, busy, done, ended, lines, guard, screen, past, bounds>>

Focused == open /\ ~covered
FocusedAlways == TRUE                   \* (mutant: goes back wherever the person is)
GoesBack == Focused
SaveAnswered ==
    /\ save.st = "ok"
    /\ SubmitEnds /\ done' = TRUE /\ saved' = TRUE
    /\ IF GoesBack THEN open' = FALSE /\ pops' = pops + 1 ELSE UNCHANGED <<open, pops>>
    /\ leaveOpen' = (leaveOpen /\ open')
    /\ UNCHANGED <<stored, form, files, ended, lines, allowLeave, covered, past, bounds>>
SaveRefused ==
    /\ save.st \in {"refused", "ended"}
    /\ SubmitEnds /\ message' = open
    /\ ended' = (ended \/ save.st = "ended")
    /\ UNCHANGED <<stored, form, files, done, photoMessage, guard, screen, past, bounds>>
SaveLost ==
    /\ Fault /\ save.st \in {"sent", "ok", "refused", "ended"}
    /\ SubmitEnds /\ message' = open
    /\ lost' = (lost \/ save.st # "sent")
    /\ UNCHANGED <<stored, form, files, done, ended, photoMessage, guard, screen, base>>

(* ---- the way out -------------------------------------------------------- *)

Leaves == open' = FALSE /\ pops' = pops + 1 /\ UNCHANGED covered
\* beforeRemove: unsaved work opens the sheet.
Out ==
    IF Unsaved /\ ~allowLeave THEN leaveOpen' = TRUE /\ UNCHANGED <<allowLeave, saved, screen>>
    ELSE Leaves /\ UNCHANGED guard
Cancel == Acts /\ InHand /\ ~busy /\ ~done /\ Out /\ UNCHANGED <<stored, form, files, run, lines, past>>
\* The phone's own back button; the swipe only when nothing is unsaved.
Back == Acts /\ InHand /\ Out /\ UNCHANGED <<stored, form, files, run, lines, past>>
ConfirmLeave ==
    /\ open /\ leaveOpen /\ ~covered
    /\ leaveOpen' = FALSE /\ allowLeave' = TRUE /\ UNCHANGED saved
    /\ Leaves
    /\ UNCHANGED <<stored, form, files, run, lines, past, bounds>>
KeepEditing ==
    /\ open /\ leaveOpen /\ ~covered
    /\ leaveOpen' = FALSE
    /\ UNCHANGED <<stored, form, files, run, lines, allowLeave, saved, screen, past, bounds>>
BackToToday ==
    /\ Acts /\ InHand /\ ended
    /\ saved' = TRUE /\ UNCHANGED <<leaveOpen, allowLeave>>
    /\ Leaves
    /\ UNCHANGED <<stored, form, files, run, lines, past>>

\* A tapped notification opens a page over the form, and the person comes back from it.
Covers == Acts /\ open /\ ~covered /\ covered' = TRUE
            /\ UNCHANGED <<stored, form, files, run, lines, guard, open, pops, past>>
Uncovers == covered /\ covered' = FALSE
            /\ UNCHANGED <<stored, form, files, run, lines, guard, open, pops, past, bounds>>

\* The other phone posts or skips the day, changes the note or the photo, or deletes the entry.
Elsewhere ==
    /\ others > 0 /\ others' = others - 1 /\ UNCHANGED <<acts, faults>>
    /\ \/ mode = "new" /\ entry = NoEntry /\ ~settled /\ settled' = TRUE /\ UNCHANGED entry
       \/ /\ mode = "edit" /\ UNCHANGED settled
          /\ entry' \in {NoEntry, [entry EXCEPT !.note = 3], [entry EXCEPT !.photos = <<0>>]}
    /\ base' = entry'
    /\ UNCHANGED <<mode, form, files, run, lines, guard, screen, lost>>

(* ------------------------------------------------------------------------ *)

Init ==
    /\ mode \in {"new", "edit"} /\ settled = FALSE
    /\ entry = Baseline /\ draft = Baseline
    /\ picked = 1 /\ picking = FALSE
    /\ remembered = {} /\ uploads = [p \in 1 .. MaxActs + 1 |-> 0]
    /\ save = NoSave /\ busy = FALSE /\ done = FALSE /\ ended = FALSE
    /\ photoMessage = FALSE /\ message = FALSE
    /\ leaveOpen = FALSE /\ allowLeave = FALSE /\ saved = FALSE
    /\ open = TRUE /\ covered = FALSE /\ pops = 0
    /\ base = Baseline /\ lost = FALSE
    /\ acts = MaxActs /\ faults = MaxFaults /\ others = MaxOthers

Runs == Accept \/ NextPhoto \/ Post \/ PostServed \/ PatchServed \/ SaveAnswered \/ SaveRefused
Person ==
    \/ SetTitle \/ SetNote \/ Pick \/ Submit \/ Cancel \/ Back \/ ConfirmLeave \/ KeepEditing
    \/ BackToToday \/ Covers \/ Uncovers
    \/ \E i \in DOMAIN draft.photos : RemovePhoto(i)
Next == Runs \/ Person \/ UploadFails \/ SaveLost \/ Elsewhere

Spec == Init /\ [][Next]_vars
LiveSpec == Spec /\ WF_vars(Runs)

(* ---- properties --------------------------------------------------------- *)

\* What keeps the next one: the form goes back from where it stands.
GoneOnce == pops = 0 \/ (pops = 1 /\ ~open)
\* One visit of the form goes back once: never a second time, which would close the page below.
GoesBackOnce == pops <= 1

\* The form goes away with unsaved work in it only after "Leave", or when the day is settled (of
\* every step).
NothingLeftBehind == open /\ ~open' => draft = Baseline \/ saved' \/ allowLeave'

\* What keeps the next one: a file that was uploaded is remembered or out of the list for good, for what
\* is picked next is a new file; and a save uploads what is in the list.
OneUploadEach ==
    /\ DOMAIN uploads \subseteq Int
    /\ \A p \in DOMAIN uploads :
          /\ uploads[p] \in {0, 1}
          /\ uploads[p] = 1 => (p \in remembered \/ p \notin ToSet(draft.photos))
                               /\ p <= picked /\ (picking => p # picked)
UploadsRemembered ==
    /\ DOMAIN draft = {"photos", "title", "note"} /\ draft.photos \in Seq(Int) /\ picked \in Int
    /\ DOMAIN save = {"st", "i", "form"} /\ DOMAIN save.form = {"photos", "title", "note"}
    /\ \A i, j \in DOMAIN draft.photos : draft.photos[i] = draft.photos[j] => i = j
    /\ \A i \in DOMAIN draft.photos : draft.photos[i] <= picked /\ (picking => draft.photos[i] # picked)
    /\ ~busy => save.st = "idle"
    /\ save.st # "idle" => /\ save.form.photos \in Seq(Int) /\ save.i \in Nat \ {0}
                           /\ ToSet(save.form.photos) \subseteq ToSet(draft.photos)
    /\ OneUploadEach
\* No file is uploaded a second time once an upload of it worked.
FileUploadedOnce == \A p \in DOMAIN uploads : uploads[p] <= 1

\* What keeps the next one: until an answer is lost or a save is done, the entry is as the other phone
\* left it, or what the save that is under way made of that.
EntryInStep ==
    /\ DOMAIN save = {"st", "i", "form"} /\ (~busy => save.st = "idle")
    /\ ~lost /\ ~done =>
          IF mode = "new" THEN entry = NoEntry \/ (save.st = "ok" /\ entry = save.form)
          ELSE entry = base \/ (save.st = "ok" /\ entry = Patched(base, save.form))

\* What a save that the phone takes for done leaves on the server, unless an answer was lost: all of a
\* new entry; of an edit, what the person changed, and what they left alone as it was or as the other
\* phone made it (of every step).
SavedAsShown ==
    done' /\ ~done /\ ~lost /\ entry # NoEntry =>
         IF mode = "new" THEN entry = save.form
         ELSE \A k \in DOMAIN entry :
                IF save.form[k] = Original[k] THEN entry[k] = base[k] ELSE entry[k] \in {save.form[k], base[k]}

\* A save ends.
Saving == busy
SaveEnds == Saving ~> ~Saving
=============================================================================
