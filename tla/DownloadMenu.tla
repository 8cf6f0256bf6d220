----------------------------- MODULE DownloadMenu -----------------------------
(***************************************************************************)
(* The download page of the main menu (CDownloadMenu), the queue behind it  *)
(* (CDownloadManager) and the requests of the mission manager that share    *)
(* the queue, all on one thread, over the downloads of module Download.     *)
(*                                                                          *)
(* The three requests of CMissionManager (mission list, details, screenshot)*)
(* have one form and are one here.                                          *)
(***************************************************************************)
EXTENDS Download

CONSTANTS
    Missions,       \* the missions on offer
    HasMission,     \* those whose archive can be downloaded
    HasPack         \* those with a language pack to download

ASSUME MenuAssumption ==
    /\ HasMission \subseteq Missions /\ HasPack \subseteq Missions

VARIABLES
    queue,          \* the ids in the map of the download manager
    nextId,         \* _nextAvailableId
    allDone,        \* _allDownloadsDone
    selected,       \* _downloadSelectedList
    active,         \* _downloads: the two ids of each mission in it
    inProgress,     \* the gui's mission_download_in_progress
    pending,        \* the id of a request of the mission manager
    after           \* where the owner goes when todo is done

menuVars == <<queue, nextId, allDone, selected, active, inProgress, pending,
              after>>
vars == <<downloadVars, menuVars>>

Init ==
    /\ InitDownloads
    /\ queue = {} /\ nextId = 1 /\ allDone = TRUE
    /\ selected = <<>> /\ active = <<>> /\ inProgress = FALSE
    /\ pending = NoId
    /\ after = "menu"

Status(d) == dl[d].status
Finished == {"SUCCESS", "FAILED", "MALFORMED", "CANCELED"}
Selected == {selected[i] : i \in DOMAIN selected}

-----------------------------------------------------------------------------
(* CDownloadManager.                                                        *)

DownloadInProgress == \E d \in queue : Status(d) = "IN_PROGRESS"

FirstWaiting ==
    CHOOSE d \in queue :
        /\ Status(d) = "NOT_STARTED_YET"
        /\ \A e \in queue : Status(e) = "NOT_STARTED_YET" => d <= e

\* The first waiting download and the one related to it.
ToStart == {FirstWaiting} \cup ({dl[FirstWaiting].related} \cap queue)

StillDone == allDone
DoneAfterAdd == FALSE

ProcessDownloads ==
    IF allDone \/ queue = {} \/ DownloadInProgress
    THEN UNCHANGED <<dl, allDone>>
    ELSE IF \E d \in queue : Status(d) = "NOT_STARTED_YET"
    THEN /\ dl' = [d \in Ids |-> IF d \in ToStart THEN Started(dl[d]) ELSE dl[d]]
         /\ UNCHANGED allDone
    ELSE allDone' = TRUE /\ UNCHANGED dl

\* From the heartbeat of the menu, and from StartDownload.
MenuProcesses ==
    /\ mpc \in {"menu", "start"}
    /\ ProcessDownloads
    /\ mpc' = IF mpc = "menu" THEN "update" ELSE "refresh"
    /\ UNCHANGED <<todo, crash, queue, nextId, selected, active,
                   inProgress, pending, after>>

\* From a frame of the game.
GameProcesses ==
    /\ mpc = "menu"
    /\ ProcessDownloads
    /\ UNCHANGED <<mpc, todo, crash, queue, nextId, selected, active,
                   inProgress, pending, after>>

-----------------------------------------------------------------------------
(* CDownloadMenu.                                                           *)

\* onselectmissionfordownload: AddUnique, and the page is refreshed.
Select(m) ==
    /\ mpc = "menu"
    /\ selected' = IF m \in Selected THEN selected ELSE Append(selected, m)
    /\ mpc' = "refresh"
    /\ UNCHANGED <<dl, todo, crash, queue, nextId, allDone, active, inProgress,
                   pending, after>>

\* The downloads a mission needs; a pack without its mission stands first.
Needed(m) ==
    (IF m \in HasMission THEN <<"mission">> ELSE <<>>)
        \o (IF m \in HasPack THEN <<"pack">> ELSE <<>>)

\* The ids of the i-th selected mission start after those before it.
FirstId[i \in 1 .. Len(selected) + 1] ==
    IF i = 1 THEN nextId ELSE FirstId[i - 1] + Len(Needed(selected[i - 1]))

IdsOf(i) ==
    [mission |-> IF Needed(selected[i]) = <<>> THEN NoId ELSE FirstId[i],
     pack    |-> IF Len(Needed(selected[i])) = 2 THEN FirstId[i] + 1 ELSE NoId]

\* onstartdownload, with the button on: AddDownload for every selected mission.
StartDownload ==
    /\ mpc = "menu"
    /\ selected # <<>> /\ ~inProgress
    /\ FirstId[Len(selected) + 1] <= MaxDownloads + 1
    /\ nextId' = FirstId[Len(selected) + 1]
    /\ queue' = queue \cup nextId .. nextId' - 1
    /\ allDone' = IF nextId' > nextId THEN DoneAfterAdd ELSE allDone
    /\ dl' = [d \in Ids |->
                 IF \E i \in DOMAIN selected : d = IdsOf(i).mission
                 THEN LET i == CHOOSE j \in DOMAIN selected : d = IdsOf(j).mission
                      IN  Created(Head(Needed(selected[i])), IdsOf(i).pack)
                 ELSE IF \E i \in DOMAIN selected : d = IdsOf(i).pack
                 THEN Created("pack", NoId)
                 ELSE dl[d]]
    /\ active' = [m \in Selected \cup DOMAIN active |->
                     IF m \in Selected
                     THEN IdsOf(CHOOSE i \in DOMAIN selected : selected[i] = m)
                     ELSE active[m]]
    /\ mpc' = "start"
    /\ UNCHANGED <<todo, crash, selected, inProgress, pending, after>>

\* RemoveDownload and, with it, the destructor.
Drop(d) == IF d \in queue THEN <<[id |-> d, op |-> "drop"]>> ELSE <<>>
StopAndDrop(d) == IF d = NoId THEN <<>> ELSE <<[id |-> d, op |-> "stop"]>> \o Drop(d)

Begin(calls, then) ==
    /\ todo' = calls
    /\ queue' = queue \ {calls[i].id : i \in DOMAIN calls}
    /\ IF calls = <<>> THEN mpc' = then /\ after' = after
                      ELSE mpc' = "stop" /\ after' = then

\* ondeselectmissionfordownload.  operator[] answers for a mission that is not
\* in _downloads too, with ids of no download.
IdsFor(m) ==
    IF m \in DOMAIN active THEN active[m] ELSE [mission |-> NoId, pack |-> NoId]

\* The mission is in the list once.
Unselect(m) ==
    \E i \in DOMAIN selected :
        /\ selected[i] = m
        /\ selected' = SubSeq(selected, 1, i - 1) \o SubSeq(selected, i + 1, Len(selected))

Deselect(m) ==
    /\ mpc = "menu" /\ ~inProgress
    /\ m \in Selected
    /\ Unselect(m)
    /\ mpc' = "refresh"
    /\ UNCHANGED <<dl, todo, crash, queue, nextId, allDone, active,
                   inProgress, pending, after>>

Cancel(m) ==
    /\ mpc = "menu" /\ inProgress
    /\ m \in Selected
    /\ IdsFor(m).mission \in queue
    /\ Status(IdsFor(m).mission) # "SUCCESS"
    /\ Begin(StopAndDrop(IdsFor(m).pack) \o StopAndDrop(IdsFor(m).mission),
             "refresh")
    /\ Unselect(m)
    /\ UNCHANGED <<dl, crash, nextId, allDone, active, inProgress,
                   pending>>

\* GetDownload has nothing for the mission, and its result is used.
CancelUnknown(m) ==
    /\ mpc = "menu" /\ inProgress
    /\ m \in Selected
    /\ IdsFor(m).mission \notin queue
    /\ crash' = "null"
    /\ UNCHANGED <<dl, mpc, todo, menuVars>>

\* ShowDownloadResult: every download the page knows of is removed.  _downloads is
\* a map from addresses: the order is any.
Removals(ids) ==
    {calls \in [1 .. Cardinality(ids) -> [id : ids, op : {"drop"}]] :
         \A d \in ids : \E i \in DOMAIN calls : calls[i].id = d}

Shown == {active[m].mission : m \in DOMAIN active} \cup {active[m].pack : m \in DOMAIN active}

\* UpdateDownloadProgress looks at the mission downloads only.
Underway ==
    \E m \in DOMAIN active :
        /\ active[m].mission \in queue
        /\ Status(active[m].mission) = "IN_PROGRESS"

UpdateDownloadProgress ==
    /\ \/ mpc = "update" /\ selected # <<>>
       \/ mpc = "refresh"
    /\ inProgress' = Underway
    /\ LET then == IF mpc = "update" THEN "requests" ELSE "menu" IN
           IF inProgress /\ ~Underway
           THEN /\ \E calls \in Removals(Shown \cap queue) : Begin(calls, then)
                /\ active' = <<>>
           ELSE mpc' = then /\ UNCHANGED <<todo, queue, active, after>>
    /\ UNCHANGED <<dl, crash, nextId, allDone, selected, pending>>

\* The heartbeat leaves an empty page alone.
NothingSelected ==
    /\ mpc = "update" /\ selected = <<>>
    /\ mpc' = "requests"
    /\ UNCHANGED <<dl, todo, crash, menuVars>>

Teardown ==
    /\ \/ StopStep /\ UNCHANGED after
       \/ Stopped(after) /\ after' = IF Len(todo) = 1 THEN "menu" ELSE after
    /\ UNCHANGED <<queue, nextId, allDone, selected, active, inProgress, pending>>

-----------------------------------------------------------------------------
(* Requests of CMissionManager.                                             *)

\* The mission list is asked for by a page that starts anew, the details and the
\* screenshots of a mission are not.  An id that was pending is forgotten; its
\* download stays in the queue.
StartRequest ==
    /\ mpc = "menu" /\ nextId <= MaxDownloads
    /\ dl' = [dl EXCEPT ![nextId] = Created("request", NoId)]
    /\ queue' = queue \cup {nextId}
    /\ allDone' = DoneAfterAdd
    /\ pending' = nextId
    /\ nextId' = nextId + 1
    /\ \/ selected' = <<>> /\ mpc' = "refresh"
       \/ UNCHANGED <<selected, mpc>>
    /\ UNCHANGED <<todo, crash, active, inProgress, after>>

\* ProcessReloadDownloadableModsRequest and its like: what was received is
\* read and removed.  A new mission list refreshes the page.
ProcessRequest ==
    /\ mpc = "requests"
    /\ IF pending # NoId /\ Status(pending) \in {"SUCCESS", "FAILED", "MALFORMED"}
       THEN /\ dl' = [dl EXCEPT ![pending].dest = NoFile]
            /\ \E then \in {"menu"} \cup IF Status(pending) = "SUCCESS"
                                       THEN {"refresh"} ELSE {} :
                   Begin(Drop(pending), then)
            /\ pending' = NoId
       ELSE /\ mpc' = "menu"
            /\ UNCHANGED <<dl, todo, queue, after, pending>>
    /\ UNCHANGED <<crash, nextId, allDone, selected, active, inProgress>>

-----------------------------------------------------------------------------
\* The manager is destroyed with what it still holds.
Quit ==
    /\ mpc = "menu"
    /\ \E calls \in Removals(queue) : Begin(calls, "over")
    /\ UNCHANGED <<dl, crash, nextId, allDone, selected, active,
                   inProgress, pending>>

Over == mpc = "over" \/ crash # "none"
Terminated == Over /\ UNCHANGED vars

WorkerRuns(d) == ~Over /\ WorkerStep(d) /\ UNCHANGED menuVars

\* What the main thread does of itself, and what the player asks of it.
MenuStep ==
    /\ ~Over
    /\ \/ MenuProcesses \/ UpdateDownloadProgress \/ NothingSelected
       \/ ProcessRequest \/ Teardown

Player ==
    /\ ~Over
    /\ \/ GameProcesses \/ StartDownload \/ StartRequest \/ Quit
       \/ \E m \in Missions :
              Select(m) \/ Deselect(m) \/ Cancel(m) \/ CancelUnknown(m)

Next == MenuStep \/ Player \/ (\E d \in Ids : WorkerRuns(d)) \/ Terminated

Spec == Init /\ [][Next]_vars

\* The menu beats between two commands of the player, however many they are, and
\* every transfer comes to an end.
FairSpec ==
    /\ Spec
    /\ WF_vars(MenuStep) /\ SF_vars(~Over /\ MenuProcesses)
    /\ \A d \in Ids : WF_vars(WorkerRuns(d))
-----------------------------------------------------------------------------
(* Properties.                                                              *)

Statuses == Finished \cup {"NOT_STARTED_YET", "IN_PROGRESS"}
WorkerLabels == {"none", "loop", "url", "create", "transfer", "received",
                 "move", "next", "end", "over"}
StopLabels == {"stop", "stopUrl", "stopCancel", "stopJoin",
               "stopped"}
OwnerLabels == StopLabels \cup {"menu", "start", "update", "refresh",
                                "requests", "over"}

Downloads ==
    [kind : {"none", "mission", "pack", "request"},
     related : Ids \cup {NoId}, status : Statuses,
     curUrl : Nat, next : Nat, request : Nat,
     cancelFlag : BOOLEAN, thread : BOOLEAN, pc : WorkerLabels,
     temp : Contents \cup {NoFile}, dest : Contents \cup {NoFile}]

Calls == [id : Ids, op : {"stop", "drop"}]

\* Every variable has its type, and no download makes more requests than it has
\* URLs.
TypeOK ==
    /\ dl \in [Ids -> Downloads]
    /\ mpc \in OwnerLabels
    /\ todo \in Seq(Calls) /\ (mpc \in StopLabels <=> todo # <<>>)
    /\ \A d \in queue :
           dl[d].kind # "none" /\ dl[d].request <= Urls(d) /\ dl[d].curUrl <= Urls(d) + 1
    /\ crash \in {"none", "null", "bounds", "terminate"}
    /\ queue \subseteq 1 .. nextId - 1
    /\ nextId \in 1 .. MaxDownloads + 1
    /\ allDone \in BOOLEAN /\ inProgress \in BOOLEAN
    /\ selected \in Seq(Missions)
    /\ DOMAIN active \subseteq Missions
    /\ \A m \in DOMAIN active :
           active[m] \in [mission : Ids \cup {NoId}, pack : Ids \cup {NoId}]
    /\ pending \in Ids \cup {NoId}
    /\ after \in OwnerLabels

Interrupted(d) == todo # <<>> /\ Current = d

\* A worker that nobody interrupted ends with a final status, and with SUCCESS
\* if and only if it has put a file in place.
ResultIsTrue ==
    \A d \in Ids :
        dl[d].pc = "over" /\ dl[d].thread /\ ~Interrupted(d) =>
            /\ Status(d) \in Finished
            /\ Status(d) = "SUCCESS" <=> dl[d].dest # NoFile

\* A mission archive is put in place only if it is one, and the right one if
\* that can be told.
InstalledIsChecked ==
    \A d \in Ids :
        /\ PK4Checked(d) => dl[d].dest \in {NoFile, "good", "other"}
        /\ Verified(d) => dl[d].dest \in {NoFile, "good"}

\* A download that was destroyed has no worker and leaves no temporary file.
DestroyedLeavesNothing ==
    \A d \in 1 .. nextId - 1 :
        d \notin queue /\ (\A i \in DOMAIN todo : todo[i].id # d) /\ ~Over =>
            dl[d].pc \in {"none", "over"} /\ dl[d].temp = NoFile

\* Whatever waits in the queue is downloaded or given up.
QueueDrains ==
    \A d \in Ids :
        d \in queue ~> d \notin queue \/ Status(d) \in Finished \/ Over
=============================================================================
