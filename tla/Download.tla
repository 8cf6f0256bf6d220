------------------------------- MODULE Download -------------------------------
(***************************************************************************)
(* The downloads of missions: CDownload with the worker thread of each and  *)
(* the request it makes (CHttpRequest).  The thread that owns the downloads *)
(* (DownloadMenu) creates, stops and destroys them; both threads touch      *)
(* status, URL index and request without a lock.                            *)
(***************************************************************************)
EXTENDS Integers, Sequences, FiniteSets

CONSTANTS
    MaxDownloads,   \* bound: downloads ever created
    NumUrls,        \* the alternative URLs of a download of each kind
    Checksummed     \* the kinds of download whose checksum is known

ASSUME DownloadAssumption ==
    /\ MaxDownloads \in Nat
    /\ NumUrls \in [{"mission", "pack", "request"} -> Nat \ {0}]
    /\ Checksummed \subseteq {"mission", "pack"}

VARIABLES
    dl,     \* each CDownload, with its thread and its request
    mpc,    \* where the owner's thread is
    todo,   \* the calls of Stop and the destructors it still has to make
    crash   \* how the process has died, if it has

downloadVars == <<dl, mpc, todo, crash>>

Ids == 1 .. MaxDownloads
NoId == -1

\* What a file may hold: the right data, a valid archive with another checksum,
\* no valid archive, or the first part of the data.
Contents == {"good", "other", "invalid", "partial"}
NoFile == "none"

Unused ==
    [kind |-> "none", related |-> NoId, status |-> "NOT_STARTED_YET",
     curUrl |-> 0, next |-> 0, request |-> 0, cancelFlag |-> FALSE,
     thread |-> FALSE, pc |-> "none", temp |-> NoFile, dest |-> NoFile]

Created(kind, related) == [Unused EXCEPT !.kind = kind, !.related = related]

\* A mission and its language pack are checked to be archives, a list is not.
PK4Checked(d) == dl[d].kind \in {"mission", "pack"}
Verified(d) == dl[d].kind \in Checksummed
Urls(d) == NumUrls[dl[d].kind]

\* What a transfer may leave, as far as the checks of d can tell it apart.
Received(d) ==
    {"good", "partial"} \cup (IF Verified(d) THEN {"other"} ELSE {})
                        \cup (IF PK4Checked(d) THEN {"invalid"} ELSE {})

InitDownloads ==
    /\ dl = [d \in Ids |-> Unused]
    /\ mpc = "menu" /\ todo = <<>>
    /\ crash = "none"

-----------------------------------------------------------------------------
(* Start, on the owner's thread; double starts are ignored.                 *)

Started(c) ==
    IF c.status = "NOT_STARTED_YET"
    THEN [c EXCEPT !.status = "IN_PROGRESS", !.thread = TRUE, !.pc = "loop"]
    ELSE c

-----------------------------------------------------------------------------
(* Perform, on the worker thread of d.                                      *)

Worker(d, label, c) ==
    /\ dl[d].pc = label
    /\ dl' = [dl EXCEPT ![d] = c]
    /\ UNCHANGED <<mpc, todo>>

\* The loop condition, and the test after the loop.
HasUrl(d) == dl[d].curUrl < Urls(d)
RanOutLate(d) == dl[d].curUrl > Urls(d)
RanOut(d) == dl[d].curUrl >= Urls(d)

\* The loop goes on; a temporary file of the last round is removed.
Loop(d) ==
    /\ Worker(d, "loop", IF HasUrl(d)
                         THEN [dl[d] EXCEPT !.temp = NoFile, !.pc = "url"]
                         ELSE [dl[d] EXCEPT !.pc = "end"])
    /\ UNCHANGED crash

\* _urls[_curUrl], which Stop may have moved past the end since the test.
ReadUrl(d) ==
    /\ Worker(d, "url", [dl[d] EXCEPT !.pc = "create"])
    /\ crash' = IF HasUrl(d) THEN "none" ELSE "bounds"

\* The new request replaces the last one.
CreateRequest(d) ==
    /\ Worker(d, "create",
              [dl[d] EXCEPT !.request = @ + 1, !.cancelFlag = FALSE,
                            !.pc = "transfer"])
    /\ UNCHANGED crash

\* CHttpRequest::Perform: a request cancelled by the end of the transfer is
\* ABORTED, and nobody asks what it has received.  _curUrl++ is a read, here,
\* and a write later; what Stop writes in between is lost.
Perform(d) ==
    /\ \E file \in IF dl[d].cancelFlag THEN {"partial"} ELSE Received(d) :
           Worker(d, "transfer",
                  IF file = "partial"
                  THEN [dl[d] EXCEPT !.temp = file, !.next = dl[d].curUrl + 1,
                                     !.pc = "next"]
                  ELSE [dl[d] EXCEPT !.temp = file, !.pc = "received"])
    /\ UNCHANGED crash

\* The checksum first, if it is known; then the archive.
WrongIfNoArchive(d) == Verified(d) /\ dl[d].temp = "invalid"
WrongChecksum(d) == Verified(d) /\ dl[d].temp # "good"
WrongArchive(d) == PK4Checked(d) /\ dl[d].temp = "invalid"

Check(d) ==
    /\ Worker(d, "received",
              IF WrongChecksum(d)
              THEN [dl[d] EXCEPT !.temp = NoFile, !.status = "MALFORMED",
                                 !.pc = "end"]
              ELSE IF WrongArchive(d)
              THEN [dl[d] EXCEPT !.next = dl[d].curUrl + 1, !.pc = "next"]
              ELSE [dl[d] EXCEPT !.pc = "move"])
    /\ UNCHANGED crash

\* The destination is removed before the move, which may fail.
Move(d) ==
    /\ \/ Worker(d, "move", [dl[d] EXCEPT !.dest = dl[d].temp, !.temp = NoFile,
                                          !.status = "SUCCESS", !.pc = "end"])
       \/ Worker(d, "move", [dl[d] EXCEPT !.dest = NoFile, !.status = "FAILED",
                                          !.pc = "end"])
    /\ UNCHANGED crash

NextUrl(d) ==
    /\ Worker(d, "next", [dl[d] EXCEPT !.curUrl = dl[d].next, !.next = 0,
                                       !.pc = "loop"])
    /\ UNCHANGED crash

\* After the loop, also by a break; SUCCESS may be overwritten here if Stop has
\* moved the index.
End(d) ==
    /\ Worker(d, "end",
              [dl[d] EXCEPT !.status = IF RanOut(d) THEN "FAILED" ELSE @,
                            !.pc = "over"])
    /\ UNCHANGED crash

WorkerStep(d) ==
    \/ Loop(d) \/ ReadUrl(d) \/ CreateRequest(d) \/ Perform(d) \/ Check(d)
    \/ Move(d) \/ NextUrl(d) \/ End(d)

-----------------------------------------------------------------------------
(* Stop and the destructor, on the owner's thread; todo holds the calls.    *)

Current == todo[1].id
Canceled == todo[1].op = "stop"

\* Without a request Stop does nothing.
StopTest ==
    /\ mpc = "stop"
    /\ mpc' = IF dl[Current].thread /\ dl[Current].request # 0
              THEN "stopUrl" ELSE "stopped"
    /\ UNCHANGED <<dl, todo, crash>>

StopUrl ==
    /\ mpc = "stopUrl"
    /\ dl' = [dl EXCEPT ![Current].curUrl = Urls(Current)]
    /\ mpc' = "stopCancel"
    /\ UNCHANGED <<todo, crash>>

\* Cancel reaches the request _request names now; the worker may replace it
\* right after.
StopCancel ==
    /\ mpc = "stopCancel"
    /\ dl' = [dl EXCEPT ![Current].cancelFlag = TRUE]
    /\ mpc' = "stopJoin"
    /\ UNCHANGED <<todo, crash>>

NotAwaited == TRUE
Joinable == dl[Current].pc = "over"

StopJoin ==
    /\ mpc = "stopJoin"
    /\ Joinable
    /\ dl' = [dl EXCEPT ![Current].thread = FALSE, ![Current].request = 0,
                        ![Current].cancelFlag = FALSE,
                        ![Current].status = IF Canceled THEN "CANCELED"
                                            ELSE IF @ = "SUCCESS" THEN @
                                            ELSE "FAILED",
                        ![Current].temp = NoFile]
    /\ mpc' = "stopped"
    /\ UNCHANGED <<todo, crash>>

\* What outlives a download: a temporary file, and a thread that was not joined.
Destroyed(c) ==
    [Unused EXCEPT !.kind = c.kind, !.temp = c.temp,
                   !.pc = IF c.thread THEN c.pc ELSE "none"]

\* The destructor calls Stop and drops _thread, which ends the process if the
\* thread was not joined.
Stopped(after) ==
    /\ mpc = "stopped"
    /\ todo' = Tail(todo)
    /\ mpc' = IF Len(todo) = 1 THEN after ELSE "stop"
    /\ IF Canceled
       THEN UNCHANGED <<dl, crash>>
       ELSE /\ dl' = [dl EXCEPT ![Current] = Destroyed(@)]
            /\ crash' = IF dl[Current].thread THEN "terminate" ELSE "none"

StopStep == StopTest \/ StopUrl \/ StopCancel \/ StopJoin
=============================================================================
