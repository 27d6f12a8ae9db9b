---------------------------- MODULE PhoneProfile ----------------------------
(***************************************************************************)
(* ProfileForm.tsx: the one form that signs up, takes the photo and bio    *)
(* after a sign up (extras), and edits the profile.  The username is       *)
(* checked while it is typed, suggested once from the name, and refused by *)
(* the server when someone else was faster; the photo is uploaded once.    *)
(*                                                                         *)
(* Usernames: "" (empty), "bad" (not of the pattern), "own" (stored), two  *)
(* others.  The other boxes are one value each: the name is right (1) or   *)
(* empty (0); the bio is a number.  Email, password and birthday stand as  *)
(* one box, sure, that is right or not.                                    *)
(***************************************************************************)
EXTENDS Integers, Sequences, FiniteSets

CONSTANTS
    MaxTypings,     \* bound: what the person does
    MaxTaken,       \* bound: usernames other people take meanwhile
    MaxSnags        \* bound: requests without an answer

Candidates == {"ann", "bob"}
Pattern(u) == u \in Candidates \cup {"own"}
NoBody == [username |-> "", bio |-> 0, avatar |-> 0]
NoSubmit == [st |-> "idle", body |-> NoBody]

VARIABLES
    formMode, profile, me, takenNames,      \* signup, extras or edit; the server's profile, the session's, names of others
    boxes,                                  \* the form: username, name, bio, sure
    usernameEdited, suggestionFetched,      \* usernameEditedRef, suggestionFetchedRef
    usernameStatus, usernameError, verdictOf, \* verdictOf: the name the status was said of (history)
    debounce, checks, suggestion,           \* the timer's candidate; the checks and the suggestion under way
    avatar, uploadedAvatar, avatarUploads,  \* pendingAvatarUri, uploadedRef, uploads of each file
    submit, formError, formOpen,            \* one run of handleSubmit; the page is still this one
    typings, snags

boxed   == <<boxes, usernameEdited>>
told    == <<usernameStatus, usernameError, verdictOf>>
asked   == <<debounce, checks, suggestion, suggestionFetched>>
picture == <<avatar, uploadedAvatar, avatarUploads>>
server  == <<profile, takenNames>>
pvars   == <<formMode, me, formOpen>>
vars    == <<pvars, server, boxed, told, asked, picture, submit, formError, typings, snags>>

Initial == IF formMode = "signup" THEN NoBody ELSE me

\* (the fields of the page that are compared with what is stored)
HasChanges == boxes.username # Initial.username \/ boxes.bio # Initial.bio
                  \/ avatar # 0 \/ boxes.name = 0
UsernameValid == (boxes.username = Initial.username /\ formMode # "signup") \/ Pattern(boxes.username)
UsernameBlocking == usernameStatus \in {"checking", "taken"}
Submitting == submit.st # "idle"
CanSubmit ==
    /\ ~Submitting
    /\ CASE formMode = "signup" -> boxes.sure /\ boxes.name = 1 /\ UsernameValid /\ ~UsernameBlocking
         [] formMode = "extras" -> TRUE
         [] OTHER -> HasChanges /\ boxes.name = 1 /\ UsernameValid /\ ~UsernameBlocking

Types == typings > 0 /\ formOpen /\ typings' = typings - 1
\* Any change of a box clears the message of the last try.
Cleared == formError' = FALSE

(* ---- the username box ---------------------------------------------------- *)

\* The effect on the username: nothing to check, a wrong form, or a check in 400 ms.
NameSet(u) ==
    /\ boxes' = [boxes EXCEPT !.username = u]
    /\ IF u = "" \/ (formMode # "signup" /\ u = Initial.username)
       THEN usernameStatus' = "idle" /\ usernameError' = "" /\ debounce' = ""
       ELSE IF ~Pattern(u)
       THEN usernameStatus' = "idle" /\ usernameError' = "format" /\ debounce' = ""
       ELSE usernameStatus' = "checking" /\ usernameError' = "" /\ debounce' = u
    /\ verdictOf' = ""
    /\ Cleared

TypeUsername(u) ==
    /\ Types /\ formMode # "extras" /\ u # boxes.username
    /\ u \in {"", "bad", "own"} \cup Candidates
    /\ (u = "own" => formMode # "signup")
    /\ NameSet(u) /\ usernameEdited' = TRUE
    /\ UNCHANGED <<pvars, server, checks, suggestion, suggestionFetched, picture, submit, snags>>
PressAlternate(u) ==
    /\ usernameStatus = "taken" /\ u \in Candidates \ {boxes.username}
    /\ Types /\ NameSet(u) /\ usernameEdited' = TRUE
    /\ UNCHANGED <<pvars, server, checks, suggestion, suggestionFetched, picture, submit, snags>>

CheckStarts ==
    /\ debounce # "" /\ formOpen
    /\ checks' = checks \cup {[of |-> debounce, said |-> ""]} /\ debounce' = ""
    /\ UNCHANGED <<pvars, server, boxed, told, suggestion, suggestionFetched, picture, submit, formError, typings, snags>>
\* GET /usernames/available.
CheckServed(c) ==
    /\ c.said = ""
    /\ checks' = (checks \ {c}) \cup
           {[c EXCEPT !.said = IF c.of \in takenNames THEN "taken" ELSE "available"]}
    /\ UNCHANGED <<pvars, server, boxed, told, debounce, suggestion, suggestionFetched, picture, submit,
                   formError, typings, snags>>
FieldHoldsAny(u) == boxes.username # ""  \* (mutant: an older name's answer counts)
FieldStillHolds(u) == boxes.username = u
CheckAnswered(c) ==
    /\ c.said # "" /\ checks' = checks \ {c}
    /\ IF FieldStillHolds(c.of)
       THEN /\ usernameStatus' = c.said /\ verdictOf' = c.of
            /\ usernameError' = IF c.said = "taken" THEN "taken" ELSE ""
       ELSE UNCHANGED told
    /\ UNCHANGED <<pvars, server, boxed, debounce, suggestion, suggestionFetched, picture, submit,
                   formError, typings, snags>>
CheckLost(c) ==
    /\ snags > 0 /\ snags' = snags - 1 /\ checks' = checks \ {c}
    /\ IF FieldStillHolds(c.of)
       THEN usernameStatus' = "idle" /\ verdictOf' = "" /\ usernameError' = "unchecked"
       ELSE UNCHANGED told
    /\ UNCHANGED <<pvars, server, boxed, debounce, suggestion, suggestionFetched, picture, submit, formError, typings>>

(* ---- the suggestion from the name ---------------------------------------- *)

MaybeSuggest ==
    IF formMode = "signup" /\ ~suggestionFetched /\ ~usernameEdited
    THEN suggestionFetched' = TRUE /\ suggestion' = TRUE
    ELSE UNCHANGED <<suggestionFetched, suggestion>>
\* The name is typed and its box left; the other boxes are filled or changed.
FillName ==
    /\ Types /\ formMode # "extras"
    /\ boxes' = [boxes EXCEPT !.name = 1 - @] /\ Cleared
    /\ IF boxes.name = 0 THEN MaybeSuggest ELSE UNCHANGED <<suggestionFetched, suggestion>>
    /\ UNCHANGED <<pvars, server, usernameEdited, told, debounce, checks, picture, submit, snags>>
\* A blur of a name that stands already (a suggestion that failed is asked again).
BlurName ==
    /\ Types /\ boxes.name = 1 /\ formMode = "signup" /\ ~suggestionFetched /\ ~usernameEdited
    /\ MaybeSuggest
    /\ UNCHANGED <<pvars, server, boxed, told, debounce, checks, picture, submit, formError, snags>>
SuggestionLands == TRUE  \* (mutant: whatever was typed)
SuggestionMayLand == ~usernameEdited
Suggested ==
    /\ suggestion /\ suggestion' = FALSE
    /\ IF SuggestionMayLand /\ boxes.username # "ann"
       THEN NameSet("ann")
       ELSE UNCHANGED <<boxes, told, debounce, formError>>
    /\ UNCHANGED <<pvars, server, usernameEdited, suggestionFetched, checks, picture, submit, typings, snags>>
SuggestionLost ==
    /\ suggestion /\ snags > 0 /\ snags' = snags - 1
    /\ suggestion' = FALSE /\ suggestionFetched' = FALSE
    /\ UNCHANGED <<pvars, server, boxed, told, debounce, checks, picture, submit, formError, typings>>

(* ---- the other boxes and the photo ---------------------------------------- *)

FillRest ==
    /\ Types /\ formMode = "signup" /\ ~boxes.sure
    /\ boxes' = [boxes EXCEPT !.sure = TRUE] /\ Cleared
    /\ UNCHANGED <<pvars, server, usernameEdited, told, asked, picture, submit, snags>>
TypeBio ==
    /\ Types /\ formMode # "signup"
    /\ boxes' = [boxes EXCEPT !.bio = 1 - @] /\ Cleared
    /\ UNCHANGED <<pvars, server, usernameEdited, told, asked, picture, submit, snags>>
\* applyPickedAsset: a file of its own each time.
PickAvatar ==
    /\ Types /\ formMode # "signup" /\ Len(avatarUploads) < 2
    /\ avatarUploads' = Append(avatarUploads, 0) /\ avatar' = Len(avatarUploads) + 1
    /\ UNCHANGED <<pvars, server, boxed, told, asked, uploadedAvatar, submit, formError, snags>>

(* ---- handleSubmit --------------------------------------------------------- *)

\* What the run sends is fixed by the tap: only what differs from what is stored.
Patch ==
    [username |-> IF boxes.username # Initial.username THEN boxes.username ELSE "",
     bio |-> IF boxes.bio # Initial.bio THEN boxes.bio + 1 ELSE 0, avatar |-> avatar]
Submit ==
    /\ CanSubmit /\ Types
    /\ (formMode = "edit" => HasChanges)
    /\ submit' = [st |-> IF avatar # 0 THEN "upload" ELSE "send", body |-> Patch]
    /\ formError' = FALSE
    /\ UNCHANGED <<pvars, server, boxed, told, asked, picture, snags>>
NotUploadedEver(f) == f > 0  \* (mutant: no memory of the last upload)
NotUploaded(f) == uploadedAvatar # f
EnsureUploaded ==
    /\ submit.st = "upload" /\ submit' = [submit EXCEPT !.st = "send"]
    /\ IF NotUploaded(submit.body.avatar)
       THEN /\ avatarUploads' = [avatarUploads EXCEPT ![submit.body.avatar] = @ + 1]
            /\ uploadedAvatar' = submit.body.avatar
       ELSE UNCHANGED <<avatarUploads, uploadedAvatar>>
    /\ UNCHANGED <<pvars, server, boxed, told, asked, avatar, formError, typings, snags>>
Stops(line) == submit' = NoSubmit /\ formError' = line
UploadFails ==
    /\ submit.st = "upload" /\ NotUploaded(submit.body.avatar) /\ snags > 0 /\ snags' = snags - 1
    /\ Stops(formMode = "edit")
    /\ UNCHANGED <<pvars, server, boxed, told, asked, picture, typings>>

Free(u) == u = "" \/ u \notin takenNames
Stored(p, body) ==
    [username |-> IF body.username # "" THEN body.username ELSE p.username,
     bio |-> IF body.bio # 0 THEN body.bio - 1 ELSE p.bio,
     avatar |-> IF body.avatar # 0 THEN body.avatar ELSE p.avatar]
\* POST /auth/signup, or PATCH /me, served; the answer may be lost on its way back.
SubmitServed ==
    /\ submit.st = "send"
    /\ \/ /\ formMode = "extras" /\ submit.body = NoBody
          /\ submit' = [submit EXCEPT !.st = "reload"] /\ UNCHANGED profile
       \/ /\ ~(formMode = "extras" /\ submit.body = NoBody) /\ Free(submit.body.username)
          /\ profile' = Stored(profile, submit.body)
          /\ submit' = [submit EXCEPT !.st = IF formMode = "signup" THEN "leave" ELSE "reload"]
       \/ /\ ~Free(submit.body.username) /\ submit' = [submit EXCEPT !.st = "conflict"]
          /\ UNCHANGED profile
    /\ UNCHANGED <<pvars, takenNames, boxed, told, asked, picture, formError, typings, snags>>
\* (a sign up whose answer is lost leaves an account: the form has nothing more to do for it)
SubmitLost ==
    /\ submit.st = "reload" \/ (submit.st = "send" /\ submit.body # NoBody)
    /\ snags > 0 /\ snags' = snags - 1 /\ Stops(TRUE)
    /\ UNCHANGED <<pvars, server, boxed, told, asked, picture, typings>>
\* 409: the taken state with the fresh alternates, for the name the box holds now.
Conflict ==
    /\ submit.st = "conflict" /\ Stops(FALSE)
    /\ usernameStatus' = "taken" /\ usernameError' = "taken" /\ verdictOf' = submit.body.username
    /\ UNCHANGED <<pvars, server, boxed, asked, picture, typings, snags>>
\* The new session lands, or the extras are done: on to the next page.
Leaves ==
    /\ \/ submit.st = "leave"
       \/ submit.st = "reload" /\ formMode = "extras"
    /\ submit' = NoSubmit /\ formOpen' = FALSE /\ me' = profile
    /\ UNCHANGED <<formMode, server, boxed, told, asked, picture, formError, typings, snags>>
\* reloadUser, the photo is the stored one now, and Back from the pushed page.
Saved ==
    /\ submit.st = "reload" /\ formMode = "edit"
    /\ me' = profile /\ avatar' = 0 /\ submit' = NoSubmit
    /\ \E pushed \in BOOLEAN : formOpen' = ~pushed
    /\ UNCHANGED <<formMode, server, boxed, told, asked, uploadedAvatar, avatarUploads, formError, typings, snags>>
SkipExtras ==
    /\ formMode = "extras" /\ ~Submitting /\ Types /\ formOpen' = FALSE
    /\ UNCHANGED <<formMode, me, server, boxed, told, asked, picture, submit, formError, snags>>
Someone(u) ==
    /\ u \notin takenNames /\ profile.username # u /\ Cardinality(takenNames) < MaxTaken
    /\ takenNames' = takenNames \cup {u}
    /\ UNCHANGED <<pvars, profile, boxed, told, asked, picture, submit, formError, typings, snags>>

Init ==
    /\ formMode \in {"signup", "extras", "edit"}
    /\ profile = IF formMode = "signup" THEN NoBody ELSE [NoBody EXCEPT !.username = "own"]
    /\ me = profile /\ takenNames = {}
    /\ boxes = [username |-> profile.username, bio |-> 0, name |-> IF formMode = "signup" THEN 0 ELSE 1,
                sure |-> FALSE]
    /\ usernameEdited = FALSE /\ suggestionFetched = FALSE /\ suggestion = FALSE
    /\ usernameStatus = "idle" /\ usernameError = "" /\ verdictOf = ""
    /\ debounce = "" /\ checks = {}
    /\ avatar = 0 /\ uploadedAvatar = 0 /\ avatarUploads = <<>>
    /\ submit = NoSubmit /\ formError = FALSE /\ formOpen = TRUE
    /\ typings = MaxTypings /\ snags = MaxSnags

Answers ==
    \/ CheckStarts \/ Suggested \/ EnsureUploaded \/ SubmitServed \/ Conflict \/ Leaves \/ Saved
    \/ \E c \in checks : CheckServed(c) \/ CheckAnswered(c)
Next ==
    \/ Answers
    \/ \E u \in {"", "bad", "own", "ann", "bob"} : TypeUsername(u) \/ PressAlternate(u)
    \/ FillName \/ BlurName \/ FillRest \/ TypeBio \/ PickAvatar \/ Submit \/ SkipExtras
    \/ \E c \in checks : CheckLost(c)
    \/ SuggestionLost \/ UploadFails \/ SubmitLost
    \/ \E u \in Candidates : Someone(u)
LiveSpec == Init /\ [][Next]_vars /\ WF_vars(Answers)

(* ---- properties ------------------------------------------------------------ *)

\* "Looks good." (or Available) is only ever said of the name that is in the box, by an answer about
\* that name, whatever order the answers come in.
AvailableIsTyped == usernameStatus = "available" => verdictOf = boxes.username
\* What keeps the next one: the file uploaded last is the newest that was uploaded, and none older is
\* asked for again.
LastUploaded ==
    /\ avatarUploads \in Seq(Nat) /\ uploadedAvatar \in 0 .. Len(avatarUploads)
    /\ avatar \in {0, Len(avatarUploads)}
    /\ DOMAIN submit = {"st", "body"}
    /\ submit.st = "upload" => submit.body.avatar \in 1 .. Len(avatarUploads) /\ submit.body.avatar >= uploadedAvatar
    /\ \A f \in 1 .. Len(avatarUploads) :
          avatarUploads[f] <= 1 /\ (f > uploadedAvatar => avatarUploads[f] = 0)
\* A file that was uploaded is not uploaded again, however often the rest of the save failed.
AvatarUploadedOnce == \A f \in 1 .. Len(avatarUploads) : avatarUploads[f] <= 1
\* What keeps the next one: each thing the person does counts, and the form has its boxes.
TypingsCount == typings \in Nat /\ DOMAIN boxes = {"username", "bio", "name", "sure"}
\* Once a username was typed, only the person changes it: a suggestion asked for earlier does not
\* (of every step).
TypedNameStays ==
    usernameEdited /\ boxes'.username # boxes.username => typings' < typings
\* Every wait ends: the check of the name, the suggestion and the save.
FormWaits == formOpen /\ (Submitting \/ usernameStatus = "checking" \/ suggestion)
FormSettles == FormWaits ~> ~FormWaits
=============================================================================
