--------------------------------- MODULE Mind ---------------------------------
(***************************************************************************)
(* The Mind of an AI (game/ai/Mind.cpp): the stack of states that think     *)
(* for it.  Six of them answer the six alert levels, each pushing the next  *)
(* one when the level rises and ending when it falls; reactions (pain, a    *)
(* flash bomb, flight, a conversation) are pushed on top or take the place  *)
(* of the state in front.  Between two Thinks anybody may push, end or      *)
(* replace the front state; Think then starts whatever is in front.         *)
(*                                                                         *)
(* A Think is split into its begin, the Init and the Think of the front     *)
(* state; nothing comes in between.  Of what the states do, the model keeps *)
(* alert level, enemy, posture, eyesight, flight and conversation.  Alert   *)
(* levels are the indices; time is left to choice.                          *)
(***************************************************************************)
EXTENDS Naturals, Sequences

CONSTANTS
    MaxDisturbances,    \* bound: what happens to the AI between Thinks
    MaxTalks,           \* bound: conversations the AI is put into
    MaxLoads            \* bound: saved games loaded

ASSUME MindAssumption ==
    MaxDisturbances \in Nat /\ MaxTalks \in Nat /\ MaxLoads \in Nat

VARIABLES
    mind,               \* _stateQueue, front first; _switchState; _recycleBin; of
                        \* the memory, whether combatState tells of an earlier Think
    phase,              \* inside Think: "idle" between two, "init", "think"
    alertIndex,         \* AI_AlertIndex
    canSearch,          \* m_canSearch, a property of the AI
    enemy,              \* is GetEnemy() set
    evidence,           \* HasSeenEvidence, of an enemy
    posture,            \* move type
    sight,              \* is the base acuity of the eyes what it was
    hurt,               \* painStatePushedThisFrame
    fleeing,            \* memory.fleeing
    fleeTask,           \* the FleeTask of the movement subsystem
    inConversation,     \* m_InConversation
    conversing,         \* conversations under way that have this actor
    disturbances, talks, loads

body == <<canSearch, enemy, evidence, posture, sight>>
flight == <<fleeing, fleeTask>>
talk == <<inConversation, conversing>>
spent == <<disturbances, talks, loads>>
mindVars == <<mind, phase, alertIndex, body, hurt, flight, talk, spent>>

Idles == {"idle", "alertIdle"}
Searches == {"searching", "agitated"}
Ladder == Idles \cup {"observant", "suspicious", "combat"} \cup Searches
Kinds == Ladder \cup {"pain", "blinded", "lost", "flee", "fleeDone", "conversation", "dead"}

Level == [kind \in Ladder |->
    CASE kind \in Idles -> 0 [] kind = "observant" -> 1 [] kind = "suspicious" -> 2
      [] kind = "searching" -> 3 [] kind = "agitated" -> 4 [] kind = "combat" -> 5]

\* backboneStates: the state a level calls for.
Backbone == <<"observant", "suspicious", "searching", "agitated", "combat">>

\* A new state.  inited says its Init got to the end; keeps is what it remembers:
\* of a blinded state whether the acuity it will restore is that of open eyes,
\* of combat whether it has an enemy (_enemy), and after his death the endgame.
Fresh(kind) == [kind |-> kind, inited |-> FALSE, keeps |-> "nothing"]

Front == Head(mind.queue)
Alive == \A i \in DOMAIN mind.queue : mind.queue[i].kind # "dead"

-----------------------------------------------------------------------------
(* Operations of the Mind.  Each takes a mind and gives the next.          *)

Pushed(m, kind) == [m EXCEPT !.queue = <<Fresh(kind)>> \o @, !.switchState = TRUE]

\* EndState: the front goes to the bin, which has room for one.
Ended(m) ==
    LET popped == [m EXCEPT !.queue = Tail(@), !.switchState = TRUE, !.bin = <<Head(m.queue)>>]
    IN  IF popped.queue = <<>> THEN Pushed(popped, "idle") ELSE popped

\* SwitchState
Switched(m, kind) == Pushed([m EXCEPT !.queue = Tail(@), !.bin = <<Head(m.queue)>>], kind)

Holds(states, kind) == \E i \in DOMAIN states : states[i].kind = kind

\* Cleanup, which only ConversationState has.
CleanedUp(states) == inConversation /\ ~Holds(states, "conversation")

\* SetAlertLevel: combat takes an enemy, and some AI do not search.
AlertFor(index, foe) ==
    IF ~canSearch /\ index > 2 THEN 2 ELSE IF index = 5 /\ ~foe THEN 4 ELSE index

\* ClearTasks of the movement subsystem: the OnFinish of a FleeTask that was
\* started ends the flight.
MovementCleared ==
    /\ fleeTask' = "none"
    /\ fleeing' = (fleeing /\ fleeTask # "running")
MovementMayClear(choices) ==
    \E clears \in choices : IF clears THEN MovementCleared ELSE UNCHANGED flight

\* Think clears the bin, and starts with the front state.
BeginThink ==
    /\ phase = "idle"
    /\ inConversation' = CleanedUp(mind.bin)
    /\ mind' = [mind EXCEPT !.bin = <<>>]
    /\ phase' = IF mind.switchState THEN "init" ELSE "think"
    /\ hurt' = FALSE
    /\ UNCHANGED <<alertIndex, body, flight, conversing, spent>>

\* The front state's Init runs: m is the mind after it.  Think follows unless
\* Init put another state in front.
Initialise(kind) == phase = "init" /\ Front.kind = kind
Unswitched == [mind EXCEPT !.switchState = FALSE]
InitDone(keeps) ==
    [Unswitched EXCEPT !.queue[1] = [Front EXCEPT !.inited = TRUE, !.keeps = keeps]]
AfterInit(m) == mind' = m /\ phase' = IF m.switchState THEN "idle" ELSE "think"

Thinks(kind) == phase = "think" /\ Front.kind = kind
AfterThink(m) == mind' = m /\ phase' = "idle"

-----------------------------------------------------------------------------
(* The ladder.                                                             *)

\* Mutant of CheckAlertLevel: the state of the alert level is pushed, whatever
\* lies between.
JumpsUp(m, kind, index) ==
    [alert |-> index,
     fits |-> index = Level[kind],
     mind |-> IF index < Level[kind] THEN Ended(m)
              ELSE IF index > Level[kind] THEN Pushed(m, Backbone[index]) ELSE m,
     posture |-> posture]

\* CheckAlertLevel of the front state at some alert: what becomes of mind m,
\* alert and posture.  A sitting AI gets up before it searches.
CheckAlertLevel(m, kind, index) ==
    LET alert == IF ~canSearch /\ (kind \in Searches \cup {"combat"}
                                   \/ (kind = "suspicious" /\ index > 2))
                 THEN 2 ELSE index
        seated == kind \in Searches /\ posture # "stand"
        goesDown == alert < Level[kind] \/ seated
        goesUp == alert > Level[kind] /\ ~seated
        calm == IF kind = "agitated" THEN [m EXCEPT !.combatState = FALSE] ELSE m
    IN  [alert |-> alert,
         fits |-> ~goesDown /\ ~goesUp,
         mind |-> IF goesDown THEN Ended(m)
                  ELSE IF goesUp THEN Pushed(calm, Backbone[Level[kind] + 1]) ELSE m,
         posture |-> IF alert >= Level[kind] /\ seated THEN "getUp" ELSE posture]

\* Idle and suspicious states stop what the AI is about; a search does when it joins
\* a new one, in Init or later.
Stops(kind) ==
    CASE kind \in Idles \cup {"suspicious"} -> {TRUE}
      [] kind \in Searches -> BOOLEAN
      [] OTHER -> {FALSE}

InitLadder(kind) ==
    LET check == CheckAlertLevel(Unswitched, kind, alertIndex) IN
    /\ Initialise(kind)
    /\ kind # "combat" /\ ~(kind = "idle" /\ evidence)
    /\ AfterInit(IF check.fits THEN InitDone("nothing") ELSE check.mind)
    /\ alertIndex' = check.alert
    /\ posture' = check.posture
    /\ MovementMayClear(IF check.fits THEN Stops(kind) ELSE {FALSE})
    /\ UNCHANGED <<canSearch, enemy, evidence, sight, hurt, talk, spent>>

\* IdleState::Init of an AI that has seen something.
IdleToAlertIdle ==
    /\ Initialise("idle") /\ evidence
    /\ AfterInit(Switched(Unswitched, "alertIdle"))
    /\ UNCHANGED <<alertIndex, body, hurt, flight, talk, spent>>

\* UpdateAlertLevel, of a state whose rate Init has set.
Decayed == {alertIndex} \cup IF Front.inited /\ alertIndex > 0 THEN {alertIndex - 1} ELSE {}

ThinkLadder(kind) ==
    /\ Thinks(kind) /\ kind # "combat"
    /\ \E index \in Decayed :
          LET check == CheckAlertLevel(mind, kind, index) IN
          /\ AfterThink(check.mind)
          /\ alertIndex' = check.alert
          /\ posture' = check.posture
          /\ MovementMayClear(IF check.fits /\ kind \in Searches THEN BOOLEAN ELSE {FALSE})
    /\ UNCHANGED <<canSearch, enemy, evidence, sight, hurt, talk, spent>>

\* PerformCombatCheck keeps the enemy or may find one.  It is stored unless combat
\* is resumed; what was stored before stays (of an endgame, perhaps nobody).
Stored == CASE Front.keeps = "enemy" -> {"enemy"}
            [] Front.keeps = "endgame" -> {"enemy", "nothing"}
            [] OTHER -> {"nothing"}

InitCombat ==
    LET check == CheckAlertLevel(Unswitched, "combat", alertIndex) IN
    /\ Initialise("combat")
    /\ alertIndex' = check.alert
    /\ IF ~check.fits THEN AfterInit(check.mind) /\ UNCHANGED <<enemy, evidence>>
       ELSE \E found \in {enemy, TRUE} :
            /\ enemy' = found
            /\ evidence' = (evidence \/ found)
            /\ \E stored \in IF found /\ ~mind.combatState THEN {"enemy"} ELSE Stored :
                  AfterInit(InitDone(stored))
    /\ UNCHANGED <<canSearch, posture, sight, hurt, flight, talk, spent>>

\* What CombatState::Think comes to once the alert level is found to fit.
CombatFits == Thinks("combat") /\ CheckAlertLevel(mind, "combat", alertIndex).fits
Fights == CombatFits /\ Front.keeps # "endgame" /\ (Front.keeps = "enemy" \/ enemy)
Fought == [mind EXCEPT !.combatState = TRUE]

CombatUnfit ==
    LET check == CheckAlertLevel(mind, "combat", alertIndex) IN
    /\ Thinks("combat") /\ ~check.fits
    /\ AfterThink(check.mind)
    /\ alertIndex' = check.alert
    /\ UNCHANGED <<body, hurt, flight, talk, spent>>

CombatGoesOn ==
    /\ \/ Fights /\ MovementMayClear(BOOLEAN)
       \/ CombatFits /\ Front.keeps = "endgame" /\ ~enemy /\ UNCHANGED flight
    /\ AfterThink(Fought)
    /\ UNCHANGED <<alertIndex, body, hurt, talk, spent>>

\* A closer enemy, or a new one in the endgame.
EnemyReplaced ==
    /\ CombatFits /\ enemy /\ Front.keeps \in {"enemy", "endgame"}
    /\ AfterThink(Ended(Fought))
    /\ UNCHANGED <<alertIndex, body, hurt, flight, talk, spent>>

\* CheckEnemyStatus finds nobody: it ends the state, and so does its caller.
NoEnemy ==
    /\ CombatFits /\ Front.keeps = "nothing" /\ ~enemy
    /\ AfterThink(Ended(Ended(Fought)))
    /\ UNCHANGED <<alertIndex, body, hurt, flight, talk, spent>>

\* CheckEnemyStatus finds a friend: the same again.
EnemyNoMore ==
    /\ Fights
    /\ alertIndex' = AlertFor(2, enemy)
    /\ enemy' = FALSE
    /\ MovementCleared
    /\ AfterThink(Ended(Ended(Fought)))
    /\ UNCHANGED <<canSearch, evidence, posture, sight, hurt, talk, spent>>

\* Who cannot fight at close quarters flees even from the dead.
EnemyDies ==
    /\ Fights
    /\ enemy' = FALSE
    /\ \/ AfterThink([Fought EXCEPT !.queue[1] = [Front EXCEPT !.keeps = "endgame"]])
       \/ ~fleeing /\ AfterThink(Switched(Fought, "flee"))
    /\ UNCHANGED <<alertIndex, canSearch, evidence, posture, sight, hurt, flight, talk, spent>>

\* EStateVictor9
Victor ==
    /\ CombatFits /\ Front.keeps = "endgame" /\ ~enemy
    /\ alertIndex' = 1
    /\ AfterThink(Ended(Fought))
    /\ UNCHANGED <<body, hurt, flight, talk, spent>>

\* After the reaction time the enemy cannot be seen any more.
EnemyOutOfSight ==
    /\ Fights
    /\ enemy' = FALSE
    /\ alertIndex' = AlertFor(4, FALSE)
    /\ AfterThink(Ended(Fought))
    /\ UNCHANGED <<canSearch, evidence, posture, sight, hurt, flight, talk, spent>>

CombatGivesWay ==
    /\ Fights
    /\ \/ ~fleeing /\ AfterThink(Switched(Fought, "flee"))
       \/ AfterThink(Switched(Fought, "lost"))
    /\ UNCHANGED <<alertIndex, body, hurt, flight, talk, spent>>

-----------------------------------------------------------------------------
(* Reactions.                                                              *)

\* PainState::Init ends at once while the animation of an earlier pain plays.
InitPain ==
    /\ Initialise("pain")
    /\ \/ AfterInit(InitDone("nothing"))
       \/ AfterInit(Ended(Unswitched))
    /\ UNCHANGED <<alertIndex, body, hurt, flight, talk, spent>>

\* Mutant of ThinkPain: the pain over, it ends its state and one more.
PainEndsTwice ==
    /\ Thinks("pain")
    /\ \/ AfterThink(mind)
       \/ AfterThink(Ended(Ended(mind)))
    /\ UNCHANGED <<alertIndex, body, hurt, flight, talk, spent>>

\* Civilians and the unarmed flee afterwards.
ThinkPain ==
    /\ Thinks("pain")
    /\ \/ AfterThink(mind)
       \/ AfterThink(Ended(mind))
       \/ ~fleeing /\ AfterThink(Switched(mind, "flee"))
    /\ UNCHANGED <<alertIndex, body, hurt, flight, talk, spent>>

InitBlinded ==
    /\ Initialise("blinded")
    /\ posture' = IF posture = "sit" THEN "getUp" ELSE posture
    /\ sight' = FALSE
    /\ AfterInit(InitDone(IF sight THEN "sight" ELSE "dark"))
    /\ UNCHANGED <<alertIndex, canSearch, enemy, evidence, hurt, flight, talk, spent>>

BlindedWaits ==
    /\ Thinks("blinded")
    /\ IF posture = "stand" THEN MovementCleared ELSE UNCHANGED flight
    /\ AfterThink(mind)
    /\ UNCHANGED <<alertIndex, body, hurt, talk, spent>>

\* The time is over.  Without Init, what is restored is anything.
BlindedEnds ==
    /\ Thinks("blinded") /\ posture = "stand"
    /\ sight' \in IF Front.inited THEN {Front.keeps = "sight"} ELSE BOOLEAN
    /\ alertIndex' = IF ~enemy /\ alertIndex < 4 THEN AlertFor(4, enemy) ELSE alertIndex
    /\ MovementCleared
    /\ AfterThink(Ended(mind))
    /\ UNCHANGED <<canSearch, enemy, evidence, posture, hurt, talk, spent>>

InitLost ==
    /\ Initialise("lost")
    /\ alertIndex' = AlertFor(4, enemy)
    /\ enemy' = FALSE
    /\ MovementCleared
    /\ AfterInit(Ended(Unswitched))
    /\ UNCHANGED <<canSearch, evidence, posture, sight, hurt, talk, spent>>

\* Mutant of InitFlee: no FleeTask is queued.
NobodyRuns ==
    /\ Initialise("flee")
    /\ fleeing' = (fleeTask # "running")
    /\ fleeTask' = "none"
    /\ AfterInit(InitDone("nothing"))
    /\ UNCHANGED <<alertIndex, body, hurt, talk, spent>>

\* Flee: first memory.fleeing is set, then the movement tasks are cleared; a
\* new FleeTask is queued behind a task that waits.
InitFlee ==
    /\ Initialise("flee")
    /\ fleeing' = (fleeTask # "running")
    /\ fleeTask' = "queued"
    /\ AfterInit(InitDone("nothing"))
    /\ UNCHANGED <<alertIndex, body, hurt, talk, spent>>

ThinkFlee ==
    /\ Thinks("flee")
    /\ IF fleeing THEN AfterThink(mind) /\ UNCHANGED enemy
       ELSE AfterThink(Switched(mind, "fleeDone")) /\ enemy' = FALSE
    /\ UNCHANGED <<alertIndex, canSearch, evidence, posture, sight, hurt, flight, talk, spent>>

InitFleeDone ==
    /\ Initialise("fleeDone")
    /\ MovementCleared
    /\ AfterInit(InitDone("nothing"))
    /\ UNCHANGED <<alertIndex, body, hurt, talk, spent>>

\* It ends when the AI has calmed down, is alerted or does not cry for help.
ThinkFleeDone ==
    /\ Thinks("fleeDone")
    /\ alertIndex' \in Decayed
    /\ \/ AfterThink(Ended(mind))
       \/ alertIndex' >= Level["searching"] /\ AfterThink(mind)
    /\ UNCHANGED <<body, hurt, flight, talk, spent>>

InitConversation ==
    /\ Initialise("conversation")
    /\ IF alertIndex <= Level["suspicious"] THEN MovementCleared ELSE UNCHANGED flight
    /\ AfterInit(InitDone("nothing"))
    /\ UNCHANGED <<alertIndex, body, hurt, talk, spent>>

ThinkConversation ==
    /\ Thinks("conversation")
    /\ alertIndex' \in Decayed
    /\ IF alertIndex' > Level["suspicious"] THEN AfterThink(Switched(mind, "observant"))
       ELSE AfterThink(mind)
    /\ UNCHANGED <<body, hurt, flight, talk, spent>>

InitDead ==
    /\ Initialise("dead")
    /\ MovementCleared
    /\ AfterInit(InitDone("nothing"))
    /\ UNCHANGED <<alertIndex, body, hurt, talk, spent>>

\* Nor does a LostTrackOfEnemyState do anything when it thinks.
ThinkNothing == (Thinks("dead") \/ Thinks("lost")) /\ AfterThink(mind)
                /\ UNCHANGED <<alertIndex, body, hurt, flight, talk, spent>>

-----------------------------------------------------------------------------
(* Between two Thinks.                                                     *)

Disturb ==
    /\ phase = "idle" /\ Alive
    /\ disturbances < MaxDisturbances
    /\ disturbances' = disturbances + 1
    /\ UNCHANGED <<phase, canSearch, conversing, talks, loads>>

\* Something is heard or seen, an enemy perhaps.
Alert ==
    /\ Disturb
    /\ \E index \in alertIndex + 1 .. 5, foe \in {enemy, TRUE} :
         /\ enemy' = foe
         /\ alertIndex' = AlertFor(index, foe)
    /\ UNCHANGED <<mind, evidence, posture, sight, hurt, flight, inConversation>>

\* ClearEnemy from outside, as when somebody else kills the enemy.
LoseEnemy ==
    /\ Disturb
    /\ enemy /\ enemy' = FALSE
    /\ UNCHANGED <<mind, alertIndex, evidence, posture, sight, hurt, flight, inConversation>>

\* idAI::Damage: one pain state each frame, none in combat and none of what does
\* not hurt.  An attacker who is nearer than the enemy becomes the enemy, unless dead,
\* and the alert is just below combat.
Hurt ==
    /\ Disturb
    /\ \/ alertIndex < 5 /\ ~hurt /\ hurt' = TRUE /\ mind' = Pushed(mind, "pain")
       \/ UNCHANGED <<hurt, mind>>
    /\ \/ enemy' \in {enemy, TRUE} /\ alertIndex' = AlertFor(4, enemy')
       \/ UNCHANGED <<enemy, alertIndex>>
    /\ UNCHANGED <<evidence, posture, sight, flight, inConversation>>

\* OnBlindStim.  The blind cannot be blinded; combat ends first.
Flash ==
    LET left == IF Front.kind = "combat" THEN Ended(mind) ELSE mind
        lost == IF enemy THEN Pushed(left, "lost") ELSE left
    IN  /\ Disturb
        /\ sight
        /\ mind' = Pushed(lost, "blinded")
        /\ enemy' = (enemy /\ Front.kind # "combat")
        /\ UNCHANGED <<alertIndex, evidence, posture, sight, hurt, flight, inConversation>>

\* OnAudioAlert of an arrow near an AI that is afraid, or a script.
TakeFlight ==
    /\ Disturb
    /\ ~fleeing
    /\ mind' = Switched(mind, "flee")
    /\ UNCHANGED <<alertIndex, enemy, evidence, posture, sight, hurt, flight, inConversation>>

\* Killed and knocked out: ClearStates cleans up every state.
Die ==
    /\ Disturb
    /\ inConversation' = CleanedUp(mind.queue)
    /\ mind' = Pushed([mind EXCEPT !.queue = <<>>], "dead")
    /\ UNCHANGED <<alertIndex, enemy, evidence, posture, sight, hurt, flight>>

\* The movement: the waiting task ends, then the FleeTask; the AI stands up.
FleeTaskStarts ==
    /\ phase = "idle" /\ fleeTask = "queued"
    /\ fleeTask' = "running"
    /\ UNCHANGED <<mind, phase, alertIndex, body, hurt, fleeing, talk, spent>>

FleeTaskEnds ==
    /\ phase = "idle" /\ fleeTask = "running"
    /\ fleeTask' = "none"
    /\ fleeing' = FALSE
    /\ UNCHANGED <<mind, phase, alertIndex, body, hurt, talk, spent>>

StandUp ==
    /\ phase = "idle" /\ posture = "getUp"
    /\ posture' = "stand"
    /\ UNCHANGED <<mind, phase, alertIndex, canSearch, enemy, evidence, sight, hurt, flight,
                   talk, spent>>

\* Conversation::CheckConditions and Start.
StartConversation ==
    /\ phase = "idle" /\ Alive
    /\ talks < MaxTalks
    /\ alertIndex <= Level["suspicious"] /\ ~inConversation
    /\ mind' = Pushed(mind, "conversation")
    /\ inConversation' = TRUE
    /\ conversing' = conversing + 1
    /\ talks' = talks + 1
    /\ UNCHANGED <<phase, alertIndex, body, hurt, flight, disturbances, loads>>

\* Conversation::End: only a state in front is ended.
EndConversation ==
    /\ phase = "idle" /\ conversing > 0
    /\ conversing' = conversing - 1
    /\ IF Front.kind = "conversation"
       THEN mind' = Ended(mind) /\ inConversation' = FALSE
       ELSE UNCHANGED <<mind, inConversation>>
    /\ UNCHANGED <<phase, alertIndex, body, hurt, flight, spent>>

\* Save writes the queue only; a new Mind has nothing to switch to and no bin.
Load ==
    /\ phase = "idle" /\ loads < MaxLoads
    /\ loads' = loads + 1
    /\ mind' = [mind EXCEPT !.switchState = FALSE, !.bin = <<>>]
    /\ UNCHANGED <<phase, alertIndex, body, hurt, flight, talk, disturbances, talks>>

-----------------------------------------------------------------------------
\* After InitStateQueue.
MindInit ==
    /\ mind = [queue |-> <<Fresh("idle")>>, switchState |-> TRUE, bin |-> <<>>,
                combatState |-> FALSE]
    /\ phase = "idle" /\ alertIndex = 0
    /\ canSearch \in BOOLEAN /\ posture \in {"stand", "sit"}
    /\ enemy = FALSE /\ evidence = FALSE /\ sight = TRUE /\ hurt = FALSE
    /\ fleeing = FALSE /\ fleeTask = "none"
    /\ inConversation = FALSE /\ conversing = 0
    /\ disturbances = 0 /\ talks = 0 /\ loads = 0

InitState ==
    \/ \E kind \in Ladder : InitLadder(kind)
    \/ IdleToAlertIdle \/ InitCombat
    \/ InitPain \/ InitBlinded \/ InitLost \/ InitFlee \/ InitFleeDone
    \/ InitConversation \/ InitDead

ThinkCombat == \/ CombatUnfit \/ CombatGoesOn \/ EnemyReplaced \/ NoEnemy \/ EnemyNoMore
               \/ EnemyDies \/ Victor \/ EnemyOutOfSight \/ CombatGivesWay

ThinkState ==
    \/ \E kind \in Ladder : ThinkLadder(kind)
    \/ ThinkCombat
    \/ ThinkPain \/ BlindedWaits \/ BlindedEnds \/ ThinkFlee \/ ThinkFleeDone
    \/ ThinkConversation \/ ThinkNothing

MindNext ==
    \/ BeginThink \/ InitState \/ ThinkState
    \/ Alert \/ LoseEnemy \/ Hurt \/ Flash \/ TakeFlight \/ Die
    \/ FleeTaskStarts \/ FleeTaskEnds \/ StandUp
    \/ StartConversation \/ EndConversation \/ Load

MindSpec == MindInit /\ [][MindNext]_mindVars

\* The AI thinks each frame.  Alerts wear off, reactions and fights come to an
\* end, tasks get done, conversations run out of commands.
MindFairSpec ==
    /\ MindSpec
    /\ WF_mindVars(BeginThink \/ InitState \/ ThinkState)
    /\ SF_mindVars(ThinkState /\ alertIndex' < alertIndex)
    /\ SF_mindVars(ThinkState /\ ~ThinkCombat /\ mind' # mind)
    /\ SF_mindVars(FleeTaskStarts) /\ SF_mindVars(FleeTaskEnds) /\ SF_mindVars(StandUp)
    /\ SF_mindVars(EndConversation)

-----------------------------------------------------------------------------
(* Properties.                                                             *)

States == [kind : Kinds, inited : BOOLEAN,
           keeps : {"nothing", "enemy", "endgame", "sight", "dark"}]

\* The values of the variables.
MindTypeOK ==
    /\ mind \in [queue : Seq(States), switchState : BOOLEAN, bin : Seq(States),
                combatState : BOOLEAN]
    /\ mind.queue # <<>> /\ Len(mind.bin) <= 1
    /\ phase \in {"idle", "init", "think"}
    /\ alertIndex \in 0 .. 5 /\ canSearch \in BOOLEAN /\ enemy \in BOOLEAN
    /\ evidence \in BOOLEAN /\ posture \in {"stand", "sit", "getUp"} /\ sight \in BOOLEAN
    /\ hurt \in BOOLEAN /\ fleeing \in BOOLEAN /\ fleeTask \in {"none", "queued", "running"}
    /\ inConversation \in BOOLEAN /\ conversing \in Nat
    /\ disturbances \in Nat /\ talks \in Nat /\ loads \in Nat

\* The ladder has all its rungs: whatever was pushed, ended and replaced in
\* between, below a state of some level lies the state of the level below it,
\* so that an AI that calms down passes through every level.
LadderStacked ==
    \A i \in DOMAIN mind.queue :
       LET kind == mind.queue[i].kind IN
       (kind \in Ladder /\ Level[kind] > 1) =>
          /\ i < Len(mind.queue)
          /\ mind.queue[i + 1].kind = Backbone[Level[kind] - 1]

\* An AI marked as fleeing has a flee state, without which nothing would let it
\* flee again.
FlightIsReal == (fleeing /\ Alive) => Holds(mind.queue, "flee")

\* Left in peace, an AI calms down: it ends in an idle state, dead, or in a
\* conversation that was over while something else was in front.  This takes
\* that no Init was lost to a loaded game, and that combat found an enemy (see
\* CombatHasEnemy).
Calm == alertIndex = 0 /\ Front.kind \in Idles
CombatHasEnemy == Thinks("combat") => Front.keeps # "nothing"
CalmsDown ==
    [](loads = 0 /\ CombatHasEnemy)
       => <>[](Calm \/ ~Alive \/ Holds(mind.queue, "conversation"))

\* What PushState promises ("postponed until the new State is finished"): a
\* flight that goes on after an interruption is a flight.
FlightGoesOn == [][(Initialise("flee") /\ phase' = "think") => fleeing']_mindVars
=============================================================================
