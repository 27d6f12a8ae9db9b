----------------------------- MODULE PhoneDisc ------------------------------
(***************************************************************************)
(* The wheel on the Today tab: Wheel.tsx with the angles of geometry.ts,   *)
(* fed by TodayScreen.tsx (its phases, the turn of the store and the day   *)
(* on screen).  A full turn is Turn units, clockwise from 12 o'clock, so   *)
(* that every wheel of Counts has whole angles.  The effect of the wheel   *)
(* runs when what it depends on changed; an instance of the wheel starts   *)
(* at rest.  Colours, sizes and the cutting of long names are left out.    *)
(***************************************************************************)
EXTENDS Integers

CONSTANTS
    Turn,           \* 360 degrees, in units
    Counts,         \* how many wedges a wheel may have
    MinTurns,       \* MIN_TURNS (5 in the code)
    MaxDiscSpins    \* bound: spins answered

VARIABLES
    shownDay, keptDay,              \* today: open, the wedges, the winner; stableRef
    turn, turning,                  \* turn of the store; spinning
    discPhase, bonus, baseId,       \* phase, bonusActive, enteringBaseIdRef
    disc,                           \* the instance of the wheel on screen
    motion,                         \* none, asked (readReduceMotion) or moving
    reports                         \* landings the wheel reported of the last turn

vars == <<shownDay, keptDay, turn, turning, discPhase, bonus, baseId, disc, motion, reports>>

(* ---- geometry.ts -------------------------------------------------------- *)

DrawnAngle(n) == Turn \div n
Centre(n, i) == i * DrawnAngle(n) + DrawnAngle(n) \div 2
PoseOf(centre) == -centre
CeilTurns(x) == -((-x) \div Turn)       \* Math.ceil(x / 360)
TargetRotation(current, pose) == CeilTurns(current + Turn * MinTurns - pose) * Turn + pose
TargetPlain(current, pose) == current + Turn * MinTurns + pose  \* (mutant: from the pose it is in)
Target(current, pose) == TargetRotation(current, pose)
WedgeUnderPointer(rotation, n) == ((Turn - (rotation % Turn)) % Turn) \div DrawnAngle(n)

\* A word runs across its wedge or along it, and is turned half round where it would read upside down
\* in the pose the disc stops in.
Baseline(n, i, across) == Centre(n, i) + (IF across THEN Turn \div 4 ELSE 0)
LabelFlip(n, i, across, shown) == (Baseline(n, i, across) + PoseOf(Centre(n, shown))) % Turn > Turn \div 2

(* ---- TodayScreen.tsx: what the wheel is given --------------------------- *)

HoldingDay == turning \/ discPhase \in {"turning", "calm"}
ViewDay == IF HoldingDay THEN keptDay ELSE shownDay
WheelShown == bonus \/ HoldingDay \/ ViewDay.open
TurnShown == HoldingDay \/ discPhase = "revealing"
\* spinId, the wedges and the winner (-1: none)
Given == [id     |-> IF discPhase = "entering" THEN baseId ELSE turn.id,
          n      |-> IF TurnShown /\ turn.n # 0 THEN turn.n ELSE ViewDay.n,
          winner |-> IF TurnShown THEN turn.winner ELSE ViewDay.winner]
\* The wheel that turns, and the copy that fades out while the word rises.
Place == IF WheelShown THEN "page" ELSE IF discPhase = "revealing" THEN "overlay" ELSE "none"

(* ---- Wheel.tsx ---------------------------------------------------------- *)

ShownIndex(g) == IF g.winner \in 0 .. g.n - 1 THEN g.winner ELSE 0
RestPose(g) == PoseOf(Centre(g.n, ShownIndex(g)))
NoDisc == [place |-> "none", id |-> 0, n |-> 0, shown |-> 0, at |-> 0, ref |-> 0]
AtRest(g) == [place |-> Place, id |-> g.id, n |-> g.n, shown |-> ShownIndex(g), at |-> RestPose(g), ref |-> RestPose(g)]
Depends(g) == disc.id # g.id \/ disc.n # g.n \/ disc.shown # ShownIndex(g)
WheelDue == disc.place # Place \/ (Place # "none" /\ Depends(Given))

screenOf == <<shownDay, keptDay, turn, turning, discPhase, bonus, baseId>>
\* Another place is another instance: drawn at rest, with no turn of its own.
Mounts ==
    /\ disc.place # Place
    /\ disc' = IF Place = "none" THEN NoDisc ELSE AtRest(Given)
    /\ motion' = "none" /\ UNCHANGED <<screenOf, reports>>
\* Not a new spin: placed at rest at once, whatever the disc was doing.
Placed ==
    /\ disc.place = Place /\ Place # "none" /\ Depends(Given)
    /\ disc.id = Given.id \/ Given.winner = -1
    /\ disc' = AtRest(Given)
    /\ motion' = "none" /\ UNCHANGED <<screenOf, reports>>
TurnAsked ==
    /\ disc.place = Place /\ Place # "none" /\ disc.id # Given.id /\ Given.winner # -1
    /\ disc' = [AtRest(Given) EXCEPT !.at = disc.at, !.ref = Target(disc.ref, RestPose(Given))]
    /\ motion' = "asked" /\ reports' = 0 /\ UNCHANGED screenOf

\* landed: the screen's part of it is wheelLanded.
Report == turning' = FALSE /\ reports' = reports + 1
TurnStarts ==
    /\ motion = "asked"
    /\ \/ motion' = "moving" /\ UNCHANGED <<disc, turning, reports>>
       \/ motion' = "none" /\ disc' = [disc EXCEPT !.at = disc.ref] /\ Report      \* Reduce Motion by now
    /\ UNCHANGED <<shownDay, keptDay, turn, discPhase, bonus, baseId>>
TurnEnds ==
    /\ motion = "moving" /\ motion' = "none"
    /\ disc' = [disc EXCEPT !.at = disc.ref] /\ Report
    /\ UNCHANGED <<shownDay, keptDay, turn, discPhase, bonus, baseId>>

(* ---- the screen --------------------------------------------------------- *)

discOf == <<disc, motion, reports>>
\* The answer of a spin: the turn and the day in one write.
Answered ==
    /\ ~turning /\ turn.id < MaxDiscSpins
    /\ discPhase \in {"idle", "entering"} /\ (shownDay.open \/ bonus)
    /\ \E w \in 0 .. shownDay.n - 1 :
          /\ turn' = [id |-> turn.id + 1, n |-> shownDay.n, winner |-> w]
          /\ shownDay' = [shownDay EXCEPT !.open = FALSE, !.winner = w]
    /\ turning' = TRUE
    /\ UNCHANGED <<discPhase, bonus, baseId, discOf>>
BonusConfirmed ==
    /\ ~turning /\ discPhase = "idle" /\ ~bonus /\ ~shownDay.open /\ turn.id < MaxDiscSpins
    /\ baseId' = turn.id /\ bonus' = TRUE /\ discPhase' = "entering"
    /\ UNCHANGED <<shownDay, turn, turning, discOf>>
BonusLost ==
    /\ bonus /\ ~turning /\ discPhase \in {"idle", "entering"}
    /\ bonus' = FALSE /\ UNCHANGED <<shownDay, turn, turning, discPhase, baseId, discOf>>
FadeEnds ==
    /\ discPhase \in {"entering", "revealing"} /\ discPhase' = "idle"
    /\ UNCHANGED <<shownDay, turn, turning, bonus, baseId, discOf>>
CalmEnds ==
    /\ discPhase = "calm" /\ discPhase' = "revealing" /\ bonus' = FALSE
    /\ UNCHANGED <<shownDay, turn, turning, baseId, discOf>>
\* LANDING_FAILSAFE_MS, longer than a turn: only a turn that is never reported.
Failsafe ==
    /\ turning /\ motion = "none" /\ discPhase # "entering"
    /\ turning' = FALSE /\ UNCHANGED <<shownDay, turn, discPhase, bonus, baseId, discOf>>
PhaseDue == (turning /\ discPhase = "idle") \/ (discPhase = "turning" /\ ~turning)
PhaseFollows ==
    /\ PhaseDue
    /\ discPhase' = IF turning THEN "turning" ELSE "calm"
    /\ UNCHANGED <<shownDay, turn, turning, bonus, baseId, discOf>>
\* A new day opens, with a wheel edited since.
NewDay ==
    /\ ~turning /\ discPhase = "idle" /\ ~bonus /\ ~shownDay.open /\ turn.id < MaxDiscSpins
    /\ \E n \in Counts : shownDay' = [open |-> TRUE, n |-> n, winner |-> -1]
    /\ UNCHANGED <<turn, turning, discPhase, bonus, baseId, discOf>>

Init ==
    /\ \E n \in Counts : \E o \in BOOLEAN :
          shownDay = [open |-> o, n |-> n, winner |-> IF o THEN -1 ELSE n - 1]
    /\ keptDay = shownDay
    /\ turn = [id |-> 0, n |-> 0, winner |-> -1] /\ turning = FALSE
    /\ discPhase = "idle" /\ bonus = FALSE /\ baseId = 0
    /\ disc = NoDisc /\ motion = "none" /\ reports = 0

Moves ==
    IF WheelDue THEN Mounts \/ Placed \/ TurnAsked
    ELSE IF PhaseDue THEN PhaseFollows
    ELSE TurnStarts \/ TurnEnds \/ FadeEnds \/ CalmEnds \/ Failsafe
Person == ~WheelDue /\ ~PhaseDue /\ (Answered \/ BonusConfirmed \/ BonusLost \/ NewDay)
Next == (Moves \/ Person) /\ keptDay' = IF HoldingDay' THEN keptDay ELSE shownDay'
LiveSpec == Init /\ [][Next]_vars /\ WF_vars(Moves /\ Next)

(* ---- properties --------------------------------------------------------- *)

\* Wherever the disc comes to rest, the wedge under the pointer is the one of the spin that is shown
\* (the first wedge with no spin), and the word that rises is the one the wheel has stopped on.
LandsOnWinner ==
    /\ disc.place # "none" /\ motion = "none" => WedgeUnderPointer(disc.at, disc.n) = disc.shown
    /\ discPhase = "calm" /\ ~WheelDue => disc.shown = shownDay.winner
\* No word of a disc at rest reads upside down.
WordsUpright ==
    disc.place # "none" /\ motion = "none" =>
        \A i \in 0 .. disc.n - 1, across \in BOOLEAN :
            (Baseline(disc.n, i, across) + disc.at
                + (IF LabelFlip(disc.n, i, across, disc.shown) THEN Turn \div 2 ELSE 0)) % Turn <= Turn \div 2
\* A turn the wheel makes is at least MinTurns turns clockwise.
TurnsFar == motion = "moving" => disc.ref - disc.at \in Turn * MinTurns .. Turn * (MinTurns + 1)
\* What keeps the next one: a turn that is asked for or under way is not reported yet.
ReportsCount == reports \in {0, 1} /\ (motion # "none" => reports = 0)
\* A turn is reported once, and ends.
ReportedOnce == reports <= 1
Turning == turning
TurnLands == Turning ~> ~Turning
=============================================================================
