-------------------------- MODULE DownloadMenuProofs --------------------------
(***************************************************************************)
(* Proofs about DownloadMenu, for any number of downloads, URLs and         *)
(* missions: what the final status of a download says, what is put in       *)
(* place, and what a destroyed download leaves behind, while the owner's    *)
(* thread and the workers race for status, URL index and request.           *)
(***************************************************************************)
EXTENDS DownloadMenu, WellFoundedInduction, SequenceTheorems, FiniteSetTheorems, TLAPS

\* What the owner's thread keeps of its own: types, and where it may go on.
MenuTypeOK ==
    /\ mpc \in OwnerLabels /\ after \in OwnerLabels \ StopLabels
    /\ todo \in Seq(Calls) /\ (mpc \in StopLabels <=> todo # <<>>)
    /\ crash \in {"none", "null", "bounds", "terminate"}
    /\ nextId \in 1 .. MaxDownloads + 1 /\ queue \subseteq 1 .. nextId - 1
    /\ allDone \in BOOLEAN /\ inProgress \in BOOLEAN
    /\ selected \in Seq(Missions)
    /\ DOMAIN active \subseteq Missions
    /\ active \in [DOMAIN active -> [mission : Ids \cup {NoId}, pack : Ids \cup {NoId}]]
    /\ pending \in Ids \cup {NoId}

\* The page and the mission manager keep ids of downloads that were created, each of
\* its own kind.
IsMissionId(d) == d = NoId \/ (d < nextId /\ dl[d].kind \in {"mission", "pack"})

IdsKept ==
    /\ \A m \in DOMAIN active : IsMissionId(active[m].mission) /\ IsMissionId(active[m].pack)
    /\ pending # NoId =>
           /\ pending < nextId /\ dl[pending].kind = "request"
           /\ pending \in queue \/ mpc = "over" \/ (mpc \in StopLabels /\ after = "over")
    /\ \A i \in DOMAIN todo : todo[i].id < nextId /\ todo[i].id \notin queue

\* The URL index and the requests, in spite of the index Stop writes in between.
UrlsOf(c) == NumUrls[c.kind]
Counted(c) ==
    /\ c.curUrl <= UrlsOf(c) + 1 /\ c.next <= UrlsOf(c) + 1 /\ c.request <= UrlsOf(c)
    /\ c.pc = "loop" => c.request <= c.curUrl
    /\ c.pc \in {"url", "create"} => c.request < UrlsOf(c) /\ c.request <= c.curUrl
    /\ c.pc \in {"transfer", "received"} => c.request <= c.curUrl + 1
    /\ c.pc \in {"url", "create", "transfer", "received", "move"} => c.curUrl <= UrlsOf(c)
    /\ c.pc = "next" => c.request <= c.next

\* What the checks have made sure of by the time they are passed.
Fit(c, file) ==
    /\ c.kind \in {"mission", "pack"} => file \in {"good", "other"}
    /\ c.kind \in Checksummed => file = "good"
FilesKept(c) ==
    /\ c.pc \in {"received", "move"} => c.temp \in {"good", "other", "invalid"}
    /\ c.pc = "move" => Fit(c, c.temp)
    /\ c.dest # NoFile => Fit(c, c.dest)

\* A worker on its way to a final status.
Final(c) == c.status \in Finished /\ (c.status = "SUCCESS" <=> c.dest # NoFile)
Unfinished(c) == c.status = "IN_PROGRESS" /\ c.dest = NoFile
OnItsWay(c) ==
    \/ c.pc = "loop" /\ Unfinished(c) /\ c.curUrl <= UrlsOf(c)
    \/ /\ c.pc \in {"url", "create", "transfer", "received", "move"}
       /\ Unfinished(c) /\ c.curUrl < UrlsOf(c)
    \/ c.pc = "next" /\ Unfinished(c) /\ c.next <= UrlsOf(c)
    \/ c.pc = "end" /\ Unfinished(c) /\ c.curUrl >= UrlsOf(c)
    \/ c.pc = "end" /\ Final(c) /\ c.curUrl < UrlsOf(c)
    \/ c.pc = "over" /\ Final(c)

\* Nobody interrupts the worker of d, or Stop has not got to its index, or has found no
\* request and leaves it alone.  A destructor does not leave it.
Untouched(d) == Interrupted(d) => Canceled /\ mpc \in {"stop", "stopUrl", "stopped"}

\* Who is responsible for d: the queue before it starts, then its worker, until it was
\* joined; its owner destroys only what was.
Waiting(c) == c = Created(c.kind, c.related)
AtRest(c) == c.temp = NoFile /\ c.pc \in {"none", "over"}
ToBeDropped(d) == \E i \in DOMAIN todo : todo[i] = [id |-> d, op |-> "drop"]
Accounted(d) ==
    /\ d \in queue /\ Status(d) = "NOT_STARTED_YET" => Waiting(dl[d])
    /\ dl[d].thread /\ Untouched(d) => OnItsWay(dl[d])
    /\ crash = "none" /\ ~dl[d].thread => AtRest(dl[d])
    /\ crash = "none" /\ d \notin queue /\ ~ToBeDropped(d) => ~dl[d].thread

DownloadsKept ==
    /\ dl \in [Ids -> Downloads]
    /\ \A d \in Ids : d < nextId => dl[d].kind # "none" /\ Counted(dl[d])
    /\ \A d \in Ids : d >= nextId => dl[d] = Unused
    /\ \A d \in Ids : FilesKept(dl[d])

IInv == DownloadsKept /\ MenuTypeOK /\ IdsKept /\ \A d \in Ids : Accounted(d)

-----------------------------------------------------------------------------
(* The worker.                                                             *)

LEMMA InitIInv == Init => IInv
<1> SUFFICES ASSUME Init PROVE IInv
  OBVIOUS
<1>1. MaxDownloads \in Nat
  BY DownloadAssumption
<1> USE DEF Init, InitDownloads
<1>2. \A d \in Ids : dl[d] = Unused
  OBVIOUS
<1>3. Unused \in Downloads /\ FilesKept(Unused) /\ AtRest(Unused) /\ Unused.thread = FALSE
  BY DEF Unused, Downloads, WorkerLabels, Statuses, FilesKept, AtRest, NoFile, NoId
<1>4. DownloadsKept
  BY <1>1, <1>2, <1>3 DEF DownloadsKept, Ids
<1>5. MenuTypeOK
  <2>1. mpc \in OwnerLabels /\ after \in OwnerLabels \ StopLabels /\ mpc \notin StopLabels
    BY DEF OwnerLabels, StopLabels
  <2>2. todo \in Seq(Calls) /\ selected \in Seq(Missions) /\ todo = <<>>
    OBVIOUS
  <2>3. nextId \in 1 .. MaxDownloads + 1 /\ queue \subseteq 1 .. nextId - 1
    BY <1>1
  <2>4. DOMAIN active = {} /\ active \in [DOMAIN active -> [mission : Ids \cup {NoId}, pack : Ids \cup {NoId}]]
    OBVIOUS
  <2> QED BY <2>1, <2>2, <2>3, <2>4 DEF MenuTypeOK
<1>6. IdsKept
  BY DEF IdsKept
<1>7. \A d \in Ids : Accounted(d)
  BY <1>2, <1>3 DEF Accounted
<1> QED
  BY <1>4, <1>5, <1>6, <1>7 DEF IInv

\* A download with a worker has a kind and its URLs.
LEMMA WorkersUrls ==
    ASSUME IInv, NEW d \in Ids, dl[d].pc # "none"
    PROVE  /\ dl[d] \in Downloads /\ d < nextId /\ Counted(dl[d]) /\ FilesKept(dl[d])
           /\ dl[d].kind \in {"mission", "pack", "request"} /\ UrlsOf(dl[d]) \in Nat \ {0}
<1>1. dl[d] \in Downloads /\ FilesKept(dl[d])
  BY DEF IInv, DownloadsKept
<1>2. d < nextId
  <2>1. d \in Int /\ nextId \in Int
    BY DownloadAssumption DEF IInv, MenuTypeOK, Ids
  <2> QED BY <2>1 DEF IInv, DownloadsKept, Unused
<1>3. dl[d].kind # "none" /\ Counted(dl[d])
  BY <1>2 DEF IInv, DownloadsKept
<1>4. dl[d].kind \in {"mission", "pack", "request"}
  BY <1>1, <1>3 DEF Downloads
<1> QED
  BY <1>1, <1>2, <1>3, <1>4, DownloadAssumption DEF UrlsOf

\* A step of the worker of d that takes the download to c.
LEMMA WorkerFrame ==
    ASSUME IInv, NEW d \in Ids, ~Over, NEW c \in Downloads, NEW label, label \notin {"none", "over"},
           Worker(d, label, c), crash' \in {"none", "bounds"}, UNCHANGED menuVars,
           c.kind = dl[d].kind, c.thread = dl[d].thread,
           c.status = dl[d].status \/ c.status # "NOT_STARTED_YET",
           Counted(c), FilesKept(c), OnItsWay(dl[d]) => OnItsWay(c)
    PROVE  IInv'
<1>1. /\ dl \in [Ids -> Downloads] /\ dl[d].pc = label /\ dl' = [dl EXCEPT ![d] = c]
      /\ UNCHANGED <<mpc, todo, queue, nextId, allDone, selected, active, inProgress, pending, after>>
      /\ crash = "none"
  BY DEF IInv, DownloadsKept, Worker, menuVars, Over
<1>2. dl'[d] = c /\ (\A e \in Ids \ {d} : dl'[e] = dl[e]) /\ dl' \in [Ids -> Downloads]
  BY <1>1
<1>3. d < nextId /\ dl[d].pc # "none" /\ dl[d].kind # "none"
  BY <1>1, WorkersUrls
<1>4. dl[d].thread
  BY <1>1 DEF IInv, Accounted, AtRest
<1>5. DownloadsKept'
  <2>1. d \in Int /\ nextId \in Int
    BY DownloadAssumption DEF IInv, MenuTypeOK, Ids
  <2> QED BY <1>1, <1>2, <1>3, <2>1 DEF IInv, DownloadsKept
<1>6. MenuTypeOK'
  BY <1>1 DEF IInv, MenuTypeOK
<1>7. IdsKept'
  <2>1. \A e \in Ids : dl'[e].kind = dl[e].kind
    BY <1>2
  <2>2. \A e \in Ids \cup {NoId} : IsMissionId(e) => IsMissionId(e)'
    BY <1>1, <2>1 DEF IsMissionId
  <2> QED BY <1>1, <2>1, <2>2 DEF IInv, IdsKept, MenuTypeOK
<1>8. ASSUME NEW e \in Ids
      PROVE  Accounted(e)'
  <2>1. Accounted(e) /\ (Untouched(e)' => Untouched(e)) /\ (ToBeDropped(e) => ToBeDropped(e)')
    BY <1>1 DEF IInv, Untouched, Interrupted, Canceled, Current, ToBeDropped
  <2>2. CASE e # d
    BY <1>1, <1>2, <2>1, <2>2 DEF Accounted, Status
  <2>3. CASE e = d
    <3>1. dl[d].status # "NOT_STARTED_YET" \/ d \notin queue
      BY <1>3, <2>1, <2>3 DEF Accounted, Waiting, Created, Unused, Status
    <3> QED BY <1>1, <1>2, <1>4, <2>1, <2>3, <3>1 DEF Accounted, Status
  <2> QED BY <2>2, <2>3
<1> QED
  BY <1>5, <1>6, <1>7, <1>8 DEF IInv

\* The steps of Perform, one by one.
LEMMA WorkerStepIInv ==
    ASSUME IInv, NEW d \in Ids, WorkerRuns(d)
    PROVE  IInv'
<1>1. ~Over /\ WorkerStep(d) /\ UNCHANGED menuVars
  BY DEF WorkerRuns
<1> DEFINE c == dl[d]
<1>2. /\ c \in Downloads /\ Counted(c) /\ FilesKept(c)
      /\ c.kind \in {"mission", "pack", "request"} /\ UrlsOf(c) \in Nat \ {0}
  <2>1. c.pc # "none"
    BY <1>1 DEF WorkerStep, Loop, ReadUrl, CreateRequest, Perform, Check, Move, NextUrl, End, Worker
  <2> QED BY <2>1, WorkersUrls
<1>3. crash = "none" /\ Urls(d) = UrlsOf(c)
  BY <1>1 DEF Over, Urls, UrlsOf
<1>4. \A r \in Downloads : /\ r.curUrl \in Nat /\ r.next \in Nat /\ r.request \in Nat
                           /\ r.status \in Statuses /\ r.temp \in Contents \cup {NoFile}
  BY DEF Downloads
<1>5. c.curUrl \in Nat /\ c.next \in Nat /\ c.request \in Nat
  BY <1>2, <1>4
<1> USE DEF UrlsOf
<1>6. CASE Loop(d)
  <2> DEFINE r == IF HasUrl(d) THEN [c EXCEPT !.temp = NoFile, !.pc = "url"]
                               ELSE [c EXCEPT !.pc = "end"]
  <2>1. Worker(d, "loop", r) /\ UNCHANGED crash /\ c.pc = "loop"
    BY <1>6 DEF Loop, Worker
  <2>2. r \in Downloads /\ r.kind = c.kind /\ r.thread = c.thread /\ r.status = c.status
    BY <1>2 DEF Downloads, WorkerLabels
  <2>3. Counted(r) /\ FilesKept(r) /\ (OnItsWay(c) => OnItsWay(r))
    BY <1>2, <1>3, <1>5, <2>1 DEF Counted, FilesKept, Fit, OnItsWay, Unfinished, HasUrl, Downloads
  <2> HIDE DEF r
  <2> QED BY <1>1, <1>3, <2>1, <2>2, <2>3, WorkerFrame
<1>7. CASE ReadUrl(d)
  <2> DEFINE r == [c EXCEPT !.pc = "create"]
  <2>1. Worker(d, "url", r) /\ crash' \in {"none", "bounds"} /\ c.pc = "url"
    BY <1>7 DEF ReadUrl, Worker
  <2>2. r \in Downloads /\ r.kind = c.kind /\ r.thread = c.thread /\ r.status = c.status
    BY <1>2 DEF Downloads, WorkerLabels
  <2>3. Counted(r) /\ FilesKept(r) /\ (OnItsWay(c) => OnItsWay(r))
    BY <1>2, <1>3, <1>5, <2>1 DEF Counted, FilesKept, Fit, OnItsWay, Unfinished, Downloads
  <2> HIDE DEF r
  <2> QED BY <1>1, <1>3, <2>1, <2>2, <2>3, WorkerFrame
<1>8. CASE CreateRequest(d)
  <2> DEFINE r == [c EXCEPT !.request = @ + 1, !.cancelFlag = FALSE, !.pc = "transfer"]
  <2>1. Worker(d, "create", r) /\ UNCHANGED crash /\ c.pc = "create"
    BY <1>8 DEF CreateRequest, Worker
  <2>2. r \in Downloads /\ r.kind = c.kind /\ r.thread = c.thread /\ r.status = c.status
    <3>1. c.request + 1 \in Nat /\ "transfer" \in WorkerLabels
      BY <1>5 DEF WorkerLabels
    <3> QED BY <1>2, <3>1 DEF Downloads
  <2>3. Counted(r) /\ FilesKept(r) /\ (OnItsWay(c) => OnItsWay(r))
    BY <1>2, <1>3, <1>5, <2>1 DEF Counted, FilesKept, Fit, OnItsWay, Unfinished, Downloads
  <2> HIDE DEF r
  <2> QED BY <1>1, <1>3, <2>1, <2>2, <2>3, WorkerFrame
<1>9. CASE Perform(d)
  <2>1. PICK file \in {"partial"} \cup Received(d) :
            Worker(d, "transfer",
                   IF file = "partial"
                   THEN [dl[d] EXCEPT !.temp = file, !.next = dl[d].curUrl + 1, !.pc = "next"]
                   ELSE [dl[d] EXCEPT !.temp = file, !.pc = "received"])
    BY <1>9 DEF Perform
  <2> DEFINE r == IF file = "partial" THEN [c EXCEPT !.temp = file, !.next = c.curUrl + 1, !.pc = "next"]
                                      ELSE [c EXCEPT !.temp = file, !.pc = "received"]
  <2>2. Worker(d, "transfer", r) /\ UNCHANGED crash /\ c.pc = "transfer"
    BY <1>9, <2>1 DEF Perform, Worker
  <2>3. file \in Contents
    BY DEF Received, Contents
  <2>4. r \in Downloads /\ r.kind = c.kind /\ r.thread = c.thread /\ r.status = c.status
    <3>1. c.curUrl + 1 \in Nat /\ "next" \in WorkerLabels /\ "received" \in WorkerLabels
      BY <1>5 DEF WorkerLabels
    <3>2. CASE file = "partial"
      BY <1>2, <2>3, <3>1, <3>2 DEF Downloads
    <3>3. CASE file # "partial"
      BY <1>2, <2>3, <3>1, <3>3 DEF Downloads
    <3> QED BY <3>2, <3>3
  <2>5. Counted(r) /\ FilesKept(r) /\ (OnItsWay(c) => OnItsWay(r))
    BY <1>2, <1>3, <1>5, <2>2, <2>3 DEF Counted, FilesKept, Fit, OnItsWay, Unfinished, Contents, Downloads
  <2> HIDE DEF r
  <2> QED BY <1>1, <1>3, <2>2, <2>4, <2>5, WorkerFrame
<1>10. CASE Check(d)
  <2> DEFINE r == IF WrongChecksum(d) THEN [c EXCEPT !.temp = NoFile, !.status = "MALFORMED", !.pc = "end"]
                  ELSE IF WrongArchive(d) THEN [c EXCEPT !.next = c.curUrl + 1, !.pc = "next"]
                  ELSE [c EXCEPT !.pc = "move"]
  <2>1. Worker(d, "received", r) /\ UNCHANGED crash /\ c.pc = "received"
    BY <1>10 DEF Check, Worker
  <2>2. /\ r \in Downloads /\ r.kind = c.kind /\ r.thread = c.thread
        /\ r.status = c.status \/ r.status # "NOT_STARTED_YET"
    <3>1. /\ c.curUrl + 1 \in Nat /\ {"end", "next", "move"} \subseteq WorkerLabels
          /\ "MALFORMED" \in Statuses
      BY <1>5 DEF WorkerLabels, Statuses, Finished
    <3>2. CASE WrongChecksum(d)
      BY <1>2, <3>1, <3>2 DEF Downloads
    <3>3. CASE ~WrongChecksum(d) /\ WrongArchive(d)
      BY <1>2, <3>1, <3>3 DEF Downloads
    <3>4. CASE ~WrongChecksum(d) /\ ~WrongArchive(d)
      BY <1>2, <3>1, <3>4 DEF Downloads
    <3> QED BY <3>2, <3>3, <3>4
  <2>3. /\ WrongChecksum(d) <=> c.kind \in Checksummed /\ c.temp # "good"
        /\ WrongArchive(d) <=> c.kind \in {"mission", "pack"} /\ c.temp = "invalid"
    BY DEF WrongChecksum, WrongArchive, Verified, PK4Checked
  <2>4. Counted(r) /\ FilesKept(r)
    BY <1>2, <1>3, <1>5, <2>1, <2>3 DEF Counted, FilesKept, Fit, Downloads
  <2>5. OnItsWay(c) => OnItsWay(r)
    BY <1>2, <1>3, <1>5, <2>1 DEF OnItsWay, Unfinished, Final, Finished, Downloads
  <2> HIDE DEF r
  <2> QED BY <1>1, <1>3, <2>1, <2>2, <2>4, <2>5, WorkerFrame
<1>11. CASE Move(d)
  <2>1. PICK r \in {[c EXCEPT !.dest = c.temp, !.temp = NoFile, !.status = "SUCCESS", !.pc = "end"],
                    [c EXCEPT !.dest = NoFile, !.status = "FAILED", !.pc = "end"]} :
            Worker(d, "move", r)
    BY <1>11 DEF Move
  <2>2. UNCHANGED crash /\ c.pc = "move"
    BY <1>11, <2>1 DEF Move, Worker
  <2>3. r \in Downloads /\ r.kind = c.kind /\ r.thread = c.thread /\ r.status # "NOT_STARTED_YET"
    <3>1. /\ c.temp \in Contents \cup {NoFile} /\ "end" \in WorkerLabels
          /\ {"SUCCESS", "FAILED"} \subseteq Statuses
      BY <1>2, <1>4 DEF WorkerLabels, Statuses, Finished
    <3>2. CASE r = [c EXCEPT !.dest = c.temp, !.temp = NoFile, !.status = "SUCCESS", !.pc = "end"]
      BY <1>2, <3>1, <3>2 DEF Downloads
    <3>3. CASE r = [c EXCEPT !.dest = NoFile, !.status = "FAILED", !.pc = "end"]
      BY <1>2, <3>1, <3>3 DEF Downloads
    <3> QED BY <3>2, <3>3
  <2>4. Counted(r) /\ FilesKept(r)
    BY <1>2, <1>3, <1>5, <2>2, ZenonT(30) DEF Counted, FilesKept, Fit, Downloads
  <2>5. OnItsWay(c) => OnItsWay(r)
    BY <1>2, <1>3, <1>5, <2>2 DEF OnItsWay, Unfinished, Final, Finished, FilesKept, NoFile, Downloads
  <2> QED BY <1>1, <1>3, <2>1, <2>2, <2>3, <2>4, <2>5, WorkerFrame
<1>12. CASE NextUrl(d)
  <2> DEFINE r == [c EXCEPT !.curUrl = c.next, !.next = 0, !.pc = "loop"]
  <2>1. Worker(d, "next", r) /\ UNCHANGED crash /\ c.pc = "next"
    BY <1>12 DEF NextUrl, Worker
  <2>2. r \in Downloads /\ r.kind = c.kind /\ r.thread = c.thread /\ r.status = c.status
    BY <1>2, <1>5 DEF Downloads, WorkerLabels
  <2>3. Counted(r) /\ FilesKept(r) /\ (OnItsWay(c) => OnItsWay(r))
    BY <1>2, <1>3, <1>5, <2>1 DEF Counted, FilesKept, Fit, OnItsWay, Unfinished, Downloads
  <2> HIDE DEF r
  <2> QED BY <1>1, <1>3, <2>1, <2>2, <2>3, WorkerFrame
<1>13. CASE End(d)
  <2> DEFINE r == [c EXCEPT !.status = IF RanOut(d) THEN "FAILED" ELSE @, !.pc = "over"]
  <2>1. Worker(d, "end", r) /\ UNCHANGED crash /\ c.pc = "end"
    BY <1>13 DEF End, Worker
  <2>2. /\ r \in Downloads /\ r.kind = c.kind /\ r.thread = c.thread
        /\ r.status = c.status \/ r.status # "NOT_STARTED_YET"
    BY <1>2, <1>5, ZenonT(30) DEF Downloads, WorkerLabels, Statuses, Finished
  <2>3. Counted(r) /\ FilesKept(r)
    BY <1>2, <1>3, <1>5, <2>1 DEF Counted, FilesKept, Fit, Downloads
  <2>4. OnItsWay(c) => OnItsWay(r)
    BY <1>2, <1>3, <1>5, <2>1 DEF OnItsWay, Unfinished, Final, Finished, RanOut, Downloads
  <2> HIDE DEF r
  <2> QED BY <1>1, <1>3, <2>1, <2>2, <2>3, <2>4, WorkerFrame
<1> QED
  BY <1>1, <1>6, <1>7, <1>8, <1>9, <1>10, <1>11, <1>12, <1>13 DEF WorkerStep

-----------------------------------------------------------------------------
(* Stop and the destructor.                                                *)

LEMMA CurrentCall ==
    ASSUME IInv, mpc \in StopLabels
    PROVE  /\ todo \in Seq(Calls) /\ todo # <<>> /\ todo[1] \in Calls
           /\ Current \in Ids /\ Current < nextId /\ Current \notin queue
           /\ dl[Current] \in Downloads /\ Counted(dl[Current]) /\ FilesKept(dl[Current])
           /\ UrlsOf(dl[Current]) \in Nat \ {0}
           /\ dl[Current].kind \in {"mission", "pack", "request"}
<1>1. todo \in Seq(Calls) /\ todo # <<>>
  BY DEF IInv, MenuTypeOK
<1>2. 1 \in DOMAIN todo /\ todo[1] \in Calls
  BY <1>1
<1>3. Current \in Ids
  BY <1>2 DEF Current, Calls
<1>4. Current < nextId /\ Current \notin queue
  BY <1>2 DEF IInv, IdsKept, Current
<1>5. /\ dl[Current] \in Downloads /\ dl[Current].kind # "none"
      /\ Counted(dl[Current]) /\ FilesKept(dl[Current])
  BY <1>3, <1>4 DEF IInv, DownloadsKept
<1>6. dl[Current].kind \in {"mission", "pack", "request"}
  BY <1>5 DEF Downloads
<1> QED
  BY <1>1, <1>2, <1>3, <1>4, <1>5, <1>6, DownloadAssumption DEF UrlsOf

\* A step of Stop that takes the download to c and goes on to label.
LEMMA StopFrame ==
    ASSUME IInv, mpc \in StopLabels, NEW d, d = Current, NEW c \in Downloads,
           dl' = [dl EXCEPT ![d] = c], mpc' \in StopLabels,
           UNCHANGED <<todo, crash, queue, nextId, allDone, selected, active, inProgress, pending, after>>,
           c.kind = dl[d].kind, c.thread => dl[d].thread, Counted(c), FilesKept(c),
           c.thread /\ Canceled /\ mpc' \in {"stop", "stopUrl", "stopped"} =>
               OnItsWay(c),
           crash = "none" /\ ~c.thread => AtRest(c)
    PROVE  IInv'
<1>1. d \in Ids /\ d < nextId /\ d \notin queue /\ dl[d].kind # "none" /\ todo # <<>>
  BY CurrentCall
<1>2. dl'[d] = c /\ (\A e \in Ids \ {d} : dl'[e] = dl[e]) /\ dl' \in [Ids -> Downloads]
  BY <1>1 DEF IInv, DownloadsKept
<1>3. DownloadsKept'
  <2>1. d \in Int /\ nextId \in Int
    BY <1>1, DownloadAssumption DEF IInv, MenuTypeOK, Ids
  <2> QED BY <1>1, <1>2, <2>1 DEF IInv, DownloadsKept
<1>4. MenuTypeOK'
  BY <1>1 DEF IInv, MenuTypeOK, OwnerLabels
<1>5. IdsKept'
  <2>1. \A e \in Ids : dl'[e].kind = dl[e].kind
    BY <1>2
  <2>2. \A e \in Ids \cup {NoId} : IsMissionId(e) => IsMissionId(e)'
    BY <2>1 DEF IsMissionId
  <2>3. mpc # "over"
    BY DEF StopLabels
  <2> QED BY <2>1, <2>2, <2>3 DEF IInv, IdsKept, MenuTypeOK
<1>6. ASSUME NEW e \in Ids
      PROVE  Accounted(e)'
  <2>1. Accounted(e) /\ (ToBeDropped(e) => ToBeDropped(e)')
    BY DEF IInv, ToBeDropped
  <2>2. CASE e # d
    <3>1. Untouched(e)
      BY <2>2 DEF Untouched, Interrupted, Canceled, Current
    <3> QED BY <1>2, <2>1, <2>2, <3>1 DEF Accounted, Status
  <2>3. CASE e = d
    <3>1. Untouched(e)' => Canceled /\ mpc' \in {"stop", "stopUrl", "stopped"}
      BY <1>1, <2>3 DEF Untouched, Interrupted, Canceled, Current
    <3> QED BY <1>1, <1>2, <2>1, <2>3, <3>1 DEF Accounted, Status
  <2> QED BY <2>2, <2>3
<1> QED
  BY <1>3, <1>4, <1>5, <1>6 DEF IInv

LEMMA StopStepIInv ==
    ASSUME IInv, StopStep, UNCHANGED menuVars
    PROVE  IInv'
<1>1. mpc \in StopLabels /\ mpc' \in StopLabels
  BY DEF StopStep, StopTest, StopUrl, StopCancel, StopJoin, StopLabels
<1>2. UNCHANGED <<todo, crash, queue, nextId, allDone, selected, active, inProgress, pending, after>>
  BY DEF StopStep, StopTest, StopUrl, StopCancel, StopJoin, menuVars
<1>3. PICK d \in Ids : d = Current
  BY <1>1, CurrentCall
<1> DEFINE c == dl[d]
<1>4. /\ c \in Downloads /\ Counted(c) /\ FilesKept(c) /\ dl \in [Ids -> Downloads]
      /\ UrlsOf(c) \in Nat \ {0} /\ Urls(d) = UrlsOf(c)
      /\ c.kind \in {"mission", "pack", "request"} /\ Accounted(d)
  BY <1>1, <1>3, CurrentCall DEF IInv, DownloadsKept, Urls, UrlsOf
<1>5. Canceled /\ mpc \in {"stop", "stopUrl", "stopped"} => Untouched(d)
  BY DEF Untouched
<1>6. /\ c.curUrl \in Nat /\ c.next \in Nat /\ c.request \in Nat /\ c.status \in Statuses
      /\ c.temp \in Contents \cup {NoFile}
  BY <1>4 DEF Downloads
<1>7. CASE StopTest
  <2>1. mpc = "stop" /\ UNCHANGED dl /\ dl' = [dl EXCEPT ![d] = c]
    BY <1>3, <1>4, <1>7 DEF StopTest
  <2>2. c.thread /\ Canceled => OnItsWay(c)
    BY <1>4, <1>5, <2>1 DEF Accounted
  <2>3. crash = "none" /\ ~c.thread => AtRest(c)
    BY <1>4 DEF Accounted
  <2> HIDE DEF c
  <2> QED BY <1>1, <1>2, <1>3, <1>4, <2>1, <2>2, <2>3, StopFrame DEF c
<1>8. CASE StopUrl
  <2> DEFINE r == [c EXCEPT !.curUrl = UrlsOf(c)]
  <2>1. mpc' = "stopCancel" /\ dl' = [dl EXCEPT ![d] = r]
    BY <1>3, <1>4, <1>8 DEF StopUrl
  <2>2. r \in Downloads /\ r.kind = c.kind /\ r.thread = c.thread
    BY <1>4 DEF Downloads
  <2>3. Counted(r) /\ FilesKept(r)
    BY <1>4, <1>6 DEF Counted, FilesKept, Fit, Downloads, UrlsOf
  <2>4. crash = "none" /\ ~r.thread => AtRest(r)
    BY <1>4 DEF Accounted, AtRest, Downloads
  <2> HIDE DEF r
  <2> QED BY <1>1, <1>2, <1>3, <2>1, <2>2, <2>3, <2>4, StopFrame
<1>9. CASE StopCancel
  <2> DEFINE r == [c EXCEPT !.cancelFlag = TRUE]
  <2>1. mpc' = "stopJoin" /\ dl' = [dl EXCEPT ![d] = r]
    BY <1>3, <1>4, <1>9 DEF StopCancel
  <2>2. r \in Downloads /\ r.kind = c.kind /\ r.thread = c.thread
    BY <1>4 DEF Downloads
  <2>3. Counted(r) /\ FilesKept(r)
    BY <1>4, <1>6 DEF Counted, FilesKept, Fit, Downloads, UrlsOf
  <2>4. crash = "none" /\ ~r.thread => AtRest(r)
    BY <1>4 DEF Accounted, AtRest, Downloads
  <2> HIDE DEF r
  <2> QED BY <1>1, <1>2, <1>3, <2>1, <2>2, <2>3, <2>4, StopFrame
<1>10. CASE StopJoin
  <2> DEFINE outcome == IF Canceled THEN "CANCELED" ELSE IF c.status = "SUCCESS" THEN c.status ELSE "FAILED"
             r == [c EXCEPT !.thread = FALSE, !.request = 0, !.cancelFlag = FALSE,
                            !.status = outcome, !.temp = NoFile]
  <2>1. dl' = [dl EXCEPT ![d] = r] /\ c.pc = "over"
    BY <1>3, <1>4, <1>10 DEF StopJoin, Joinable
  <2>2. outcome \in Statuses
    BY <1>6 DEF Statuses, Finished
  <2> HIDE DEF outcome
  <2>3. r \in Downloads /\ r.kind = c.kind /\ r.thread = FALSE
    BY <1>4, <2>2 DEF Downloads
  <2>4. Counted(r) /\ FilesKept(r)
    BY <1>4, <1>6, <2>1 DEF Counted, FilesKept, Fit, Downloads, UrlsOf
  <2>5. AtRest(r)
    BY <1>4, <2>1 DEF AtRest, Downloads
  <2> HIDE DEF r
  <2> QED BY <1>1, <1>2, <1>3, <2>1, <2>3, <2>4, <2>5, StopFrame
<1> QED
  BY <1>7, <1>8, <1>9, <1>10 DEF StopStep

\* What a destructor leaves of c.
LEMMA DestroyedIsKept ==
    ASSUME NEW c \in Downloads, Counted(c), FilesKept(c), UrlsOf(c) \in Nat \ {0}
    PROVE  LET r == Destroyed(c) IN
           /\ r \in Downloads /\ r.kind = c.kind /\ r.thread = FALSE
           /\ Counted(r) /\ FilesKept(r)
           /\ ~c.thread /\ AtRest(c) => AtRest(r)
<1> DEFINE r == Destroyed(c)
<1>1. /\ r.kind = c.kind /\ r.temp = c.temp /\ r.thread = FALSE /\ r.dest = NoFile
      /\ r.curUrl = 0 /\ r.next = 0 /\ r.request = 0
      /\ r.pc = IF c.thread THEN c.pc ELSE "none"
  BY DEF Destroyed, Unused
<1>2. r \in Downloads
  <2>1. Unused \in Downloads
    BY DEF Unused, Downloads, Statuses, Finished, WorkerLabels, NoId
  <2>2. /\ c.temp \in Contents \cup {NoFile} /\ c.pc \in WorkerLabels /\ "none" \in WorkerLabels
        /\ c.kind \in {"none", "mission", "pack", "request"}
    BY DEF Downloads, WorkerLabels
  <2>3. r = [Unused EXCEPT !.kind = c.kind, !.temp = c.temp, !.pc = IF c.thread THEN c.pc ELSE "none"]
    BY DEF Destroyed
  <2>4. (IF c.thread THEN c.pc ELSE "none") \in WorkerLabels
    BY <2>2
  <2> HIDE DEF r
  <2> QED BY <2>1, <2>2, <2>3, <2>4 DEF Downloads
<1>3. c.kind \in {"none", "mission", "pack", "request"} /\ UrlsOf(r) = UrlsOf(c)
  BY <1>1 DEF Downloads, UrlsOf
<1>4. Counted(r)
  <2> HIDE DEF r
  <2> QED BY <1>1, <1>3 DEF Counted
<1>5. FilesKept(r)
  <2> HIDE DEF r
  <2> QED BY <1>1 DEF FilesKept, Fit
<1>6. ~c.thread /\ AtRest(c) => AtRest(r)
  <2> HIDE DEF r
  <2> QED BY <1>1 DEF AtRest
<1> QED
  BY <1>1, <1>2, <1>4, <1>5, <1>6

\* The call is done with; a destructor that finds the thread joined is at peace.
LEMMA StoppedIInv ==
    ASSUME IInv, Stopped(after), after' = IF Len(todo) = 1 THEN "menu" ELSE after,
           UNCHANGED <<queue, nextId, allDone, selected, active, inProgress, pending>>, crash = "none"
    PROVE  IInv'
<1>1. mpc = "stopped" /\ mpc \in StopLabels
  BY DEF Stopped, StopLabels
<1>2. PICK d \in Ids : d = Current
  BY <1>1, CurrentCall
<1>3. /\ d < nextId /\ d \notin queue /\ todo \in Seq(Calls) /\ todo # <<>> /\ todo[1] \in Calls
      /\ todo[1].id = d
  BY <1>1, <1>2, CurrentCall DEF Current
<1>4. /\ todo' = Tail(todo) /\ mpc' = IF Len(todo) = 1 THEN after ELSE "stop"
  BY DEF Stopped
<1>5. /\ Tail(todo) \in Seq(Calls) /\ Len(Tail(todo)) = Len(todo) - 1 /\ Len(todo) \in Nat \ {0}
      /\ \A i \in 1 .. Len(todo) - 1 : Tail(todo)[i] = todo[i + 1] /\ i + 1 \in 1 .. Len(todo)
  BY <1>3, HeadTailProperties
<1>6. /\ dl' \in [Ids -> Downloads] /\ dl'[d] \in {dl[d], Destroyed(dl[d])}
      /\ \A e \in Ids \ {d} : dl'[e] = dl[e]
      /\ todo[1].op = "stop" => UNCHANGED <<dl, crash>>
      /\ todo[1].op # "stop" => /\ dl'[d] = Destroyed(dl[d])
                                /\ crash' = IF dl[d].thread THEN "terminate" ELSE "none"
  <2>1. dl \in [Ids -> Downloads] /\ Destroyed(dl[d]) \in Downloads
    BY <1>1, <1>2, CurrentCall, DestroyedIsKept DEF IInv, DownloadsKept
  <2> QED BY <1>2, <2>1 DEF Stopped, Canceled
<1>7. \A e \in Ids : /\ dl'[e].kind = dl[e].kind /\ FilesKept(dl'[e])
                     /\ e < nextId => Counted(dl'[e])
                     /\ e >= nextId => dl'[e] = dl[e]
  <2> TAKE e \in Ids
  <2>1. CASE e = d
    <3>1. e \in Int /\ nextId \in Int
      BY DownloadAssumption DEF IInv, MenuTypeOK, Ids
    <3>2. ~(e >= nextId)
      BY <1>3, <2>1, <3>1
    <3> QED BY <1>1, <1>2, <1>6, <2>1, <3>2, CurrentCall, DestroyedIsKept
  <2>2. CASE e # d
    BY <1>6, <2>2 DEF IInv, DownloadsKept
  <2> QED BY <2>1, <2>2
<1>8. DownloadsKept'
  BY <1>6, <1>7 DEF IInv, DownloadsKept
<1>9. MenuTypeOK'
  <2>1. /\ after' \in OwnerLabels \ StopLabels /\ mpc' \in OwnerLabels
        /\ mpc' \in StopLabels <=> todo' # <<>>
    <3>1. Len(todo) = 1 <=> todo' = <<>>
      <4> DEFINE q == Tail(todo)
                 n == Len(todo)
      <4>1. q \in Seq(Calls) /\ Len(q) = n - 1 /\ n \in Nat /\ todo' = q
        BY <1>4, <1>5
      <4> HIDE DEF q, n
      <4>2. n = 1 <=> q = <<>>
        BY <4>1
      <4> QED BY <4>1, <4>2 DEF n
    <3>2. after \in OwnerLabels \ StopLabels /\ "menu" \in OwnerLabels \ StopLabels /\ "stop" \in StopLabels
      BY DEF IInv, MenuTypeOK, OwnerLabels, StopLabels
    <3> QED BY <1>4, <3>1, <3>2 DEF OwnerLabels
  <2>2. crash' \in {"none", "null", "bounds", "terminate"}
    BY <1>6
  <2> QED BY <1>4, <1>5, <2>1, <2>2 DEF IInv, MenuTypeOK
<1>10. IdsKept'
  <2>1. \A e \in Ids \cup {NoId} : IsMissionId(e) => IsMissionId(e)'
    BY <1>7 DEF IsMissionId
  <2>2. \A i \in DOMAIN todo' : todo'[i].id < nextId' /\ todo'[i].id \notin queue'
    BY <1>4, <1>5 DEF IInv, IdsKept
  <2>3. pending # NoId => pending \in queue \/ mpc' = "over" \/ (mpc' \in StopLabels /\ after' = "over")
    BY <1>1, <1>4 DEF IInv, IdsKept, StopLabels
  <2> QED BY <1>7, <2>1, <2>2, <2>3 DEF IInv, IdsKept, MenuTypeOK
<1>11. ASSUME NEW e \in Ids
       PROVE  Accounted(e)'
  <2>1. Accounted(e)
    BY DEF IInv
  <2>2. ToBeDropped(e) /\ (e # d \/ todo[1].op = "stop") => ToBeDropped(e)'
    <3>1. SUFFICES ASSUME ToBeDropped(e), e # d \/ todo[1].op = "stop"
                   PROVE  \E i \in DOMAIN todo' : todo'[i] = [id |-> e, op |-> "drop"]
      BY DEF ToBeDropped
    <3>2. PICK i \in DOMAIN todo : todo[i] = [id |-> e, op |-> "drop"]
      BY <3>1 DEF ToBeDropped
    <3>3. i # 1 /\ i \in 1 .. Len(todo)
      BY <1>3, <3>1, <3>2
    <3>4. i - 1 \in 1 .. Len(todo) - 1 /\ (i - 1) + 1 = i
      BY <1>5, <3>3
    <3>5. i - 1 \in DOMAIN Tail(todo) /\ Tail(todo)[i - 1] = todo[i]
      BY <1>5, <3>4
    <3> QED BY <1>4, <3>2, <3>5
  <2>3. CASE e # d \/ todo[1].op = "stop"
    <3>1. dl'[e] = dl[e] /\ (crash' = "none" => crash = "none")
      BY <1>6, <2>3
    <3>2. Untouched(e)
      BY <1>1, <1>2, <2>3 DEF Untouched, Interrupted, Current, Canceled
    <3> QED BY <2>1, <2>2, <2>3, <3>1, <3>2 DEF Accounted, Status
  <2>4. CASE e = d /\ todo[1].op # "stop"
    <3>1. dl'[d] = Destroyed(dl[d]) /\ dl'[d].thread = FALSE /\ d \notin queue'
      <4>1. dl'[d] = Destroyed(dl[d]) /\ d \notin queue'
        BY <1>3, <1>6, <2>4
      <4>2. Destroyed(dl[d]).thread = FALSE
        BY DEF Destroyed, Unused
      <4> QED BY <4>1, <4>2
    <3>2. crash' = "none" => AtRest(dl'[d])
      BY <1>1, <1>2, <1>6, <2>1, <2>4, <3>1, CurrentCall, DestroyedIsKept DEF Accounted
    <3> QED BY <2>4, <3>1, <3>2 DEF Accounted, Status
  <2> QED BY <2>3, <2>4
<1> QED
  BY <1>8, <1>9, <1>10, <1>11 DEF IInv

-----------------------------------------------------------------------------
(* The owner's thread outside Stop.                                        *)

\* A step that makes no call of Stop and leaves queue and ids alone; the downloads it
\* changes are those it starts.
LEMMA MenuFrame ==
    ASSUME IInv, mpc \notin StopLabels, mpc' \in OwnerLabels \ StopLabels,
           mpc = "over" => mpc' = "over",
           UNCHANGED <<todo, queue, nextId, active, pending, after>>,
           allDone' \in BOOLEAN, inProgress' \in BOOLEAN, selected' \in Seq(Missions),
           crash' \in {"none", "null", "bounds", "terminate"}, crash' = "none" => crash = "none",
           dl' \in [Ids -> Downloads],
           \A d \in Ids :
               \/ dl'[d] = dl[d]
               \/ /\ d \in queue /\ dl'[d].kind = dl[d].kind /\ dl'[d].thread
                  /\ dl'[d].status # "NOT_STARTED_YET" /\ Counted(dl'[d]) /\ FilesKept(dl'[d])
                  /\ OnItsWay(dl'[d])
    PROVE  IInv'
<1>1. todo = <<>> /\ todo' = <<>> /\ nextId \in Int /\ \A d \in Ids : d \in Int
  BY DownloadAssumption DEF IInv, MenuTypeOK, Ids
<1>2. DownloadsKept'
  <2>1. \A d \in Ids : d >= nextId => dl'[d] = dl[d]
    BY <1>1 DEF IInv, MenuTypeOK
  <2> QED BY <2>1 DEF IInv, DownloadsKept
<1>3. MenuTypeOK'
  BY <1>1 DEF IInv, MenuTypeOK
<1>4. IdsKept'
  <2>1. \A d \in Ids : dl'[d].kind = dl[d].kind
    OBVIOUS
  <2>2. \A d \in Ids \cup {NoId} : IsMissionId(d) => IsMissionId(d)'
    BY <2>1 DEF IsMissionId
  <2> QED BY <1>1, <2>1, <2>2 DEF IInv, IdsKept, MenuTypeOK
<1>5. ASSUME NEW d \in Ids
      PROVE  Accounted(d)'
  <2>1. Accounted(d) /\ Untouched(d) /\ ~ToBeDropped(d)
    BY <1>1 DEF IInv, Untouched, Interrupted, ToBeDropped
  <2>2. CASE dl'[d] = dl[d]
    BY <2>1, <2>2 DEF Accounted, Status
  <2>3. CASE dl'[d] # dl[d]
    BY <1>1, <2>3 DEF Accounted, Status
  <2> QED BY <2>2, <2>3
<1> QED
  BY <1>2, <1>3, <1>4, <1>5 DEF IInv

\* A set of numbers has a least element, from the library's theorem on well-founded
\* relations; induction over numbers is drawn from it.
LEMMA LeastElement ==
    ASSUME NEW T \in SUBSET Nat, T # {}
    PROVE  \E n \in T : \A m \in T : n <= m
<1>1. PICK n \in T : \A m \in T : <<m, n>> \notin OpToRel(<, Nat)
  BY NatLessThanWellFounded, WFMin
<1>2. \A m \in T : ~(m < n)
  BY <1>1 DEF OpToRel
<1> QED
  BY <1>2

LEMMA InductionUpTo ==
    ASSUME NEW N \in Nat, NEW T, 1 \in T, \A n \in 1 .. N - 1 : n \in T => n + 1 \in T
    PROVE  1 .. N \subseteq T
<1> DEFINE Bad == {n \in 1 .. N : n \notin T}
<1> SUFFICES ASSUME Bad # {} PROVE FALSE
  OBVIOUS
<1>1. PICK n \in Bad : \A m \in Bad : n <= m
  <2>1. Bad \in SUBSET Nat
    OBVIOUS
  <2> HIDE DEF Bad
  <2> QED BY <2>1, LeastElement
<1>2. n # 1
  OBVIOUS
<1>3. n - 1 \in 1 .. N - 1 /\ n - 1 \notin Bad
  BY <1>1, <1>2
<1> QED
  BY <1>3

\* ProcessDownloads starts only what waits in the queue.
LEMMA StartsWaiting ==
    ASSUME IInv, mpc \notin StopLabels, ProcessDownloads
    PROVE  /\ allDone' \in BOOLEAN /\ dl' \in [Ids -> Downloads]
           /\ \A d \in Ids :
               \/ dl'[d] = dl[d]
               \/ /\ d \in queue /\ dl'[d].kind = dl[d].kind /\ dl'[d].thread
                  /\ dl'[d].status # "NOT_STARTED_YET" /\ Counted(dl'[d]) /\ FilesKept(dl'[d])
                  /\ OnItsWay(dl'[d])
<1>1. allDone \in BOOLEAN /\ dl \in [Ids -> Downloads] /\ queue \subseteq Ids /\ nextId \in Int
  BY DownloadAssumption DEF IInv, MenuTypeOK, DownloadsKept, Ids
<1>2. CASE UNCHANGED dl
  BY <1>1, <1>2 DEF ProcessDownloads
<1>3. CASE ~UNCHANGED dl
  <2>1. /\ \E d \in queue : Status(d) = "NOT_STARTED_YET"
        /\ dl' = [d \in Ids |-> IF d \in ToStart THEN Started(dl[d]) ELSE dl[d]]
        /\ UNCHANGED allDone
    BY <1>3 DEF ProcessDownloads
  <2>2. ToStart \subseteq queue
    <3> DEFINE W == {d \in queue : Status(d) = "NOT_STARTED_YET"}
    <3>1. W \in SUBSET Nat /\ W # {}
      <4>1. Ids \subseteq Nat
        BY DownloadAssumption DEF Ids
      <4> QED BY <1>1, <2>1, <4>1
    <3> HIDE DEF W
    <3>2. \E n \in W : \A m \in W : n <= m
      BY <3>1, LeastElement
    <3>3. \E d \in queue : /\ Status(d) = "NOT_STARTED_YET"
                           /\ \A e \in queue : Status(e) = "NOT_STARTED_YET" => d <= e
      BY <3>2 DEF W
    <3>4. FirstWaiting \in queue
      BY <3>3 DEF FirstWaiting
    <3> QED BY <3>4 DEF ToStart
  <2>3. ASSUME NEW d \in ToStart, dl[d].status = "NOT_STARTED_YET"
        PROVE  /\ Started(dl[d]) \in Downloads
               /\ d \in queue /\ Started(dl[d]).kind = dl[d].kind /\ Started(dl[d]).thread
               /\ Started(dl[d]).status # "NOT_STARTED_YET"
               /\ Counted(Started(dl[d])) /\ FilesKept(Started(dl[d])) /\ OnItsWay(Started(dl[d]))
    <3> DEFINE r == Started(dl[d])
    <3>1. d \in Ids /\ d \in queue /\ d < nextId
      BY <1>1, <2>2 DEF IInv, MenuTypeOK
    <3>2. dl[d] \in Downloads /\ dl[d].kind # "none" /\ Waiting(dl[d])
      BY <1>1, <2>3, <3>1 DEF IInv, DownloadsKept, Accounted, Status
    <3>3. dl[d].kind \in {"mission", "pack", "request"} /\ dl[d].related \in Ids \cup {NoId}
      BY <3>2 DEF Downloads
    <3>4. /\ r.kind = dl[d].kind /\ r.thread = TRUE /\ r.status = "IN_PROGRESS" /\ r.pc = "loop"
          /\ r.curUrl = 0 /\ r.next = 0 /\ r.request = 0 /\ r.dest = NoFile
      BY <2>3, <3>2 DEF Started, Waiting, Created, Unused
    <3>5. r \in Downloads
      <4>1. r = [dl[d] EXCEPT !.status = "IN_PROGRESS", !.thread = TRUE, !.pc = "loop"]
        BY <2>3 DEF Started
      <4> QED BY <3>2, <4>1 DEF Downloads, WorkerLabels, Statuses
    <3>6. UrlsOf(r) \in Nat \ {0}
      BY <3>3, <3>4, DownloadAssumption DEF UrlsOf
    <3>7. Counted(r) /\ FilesKept(r) /\ OnItsWay(r)
      <4> HIDE DEF r
      <4> QED BY <3>4, <3>6 DEF Counted, FilesKept, OnItsWay, Unfinished
    <3> QED BY <3>1, <3>4, <3>5, <3>7
  <2>4. \A d \in ToStart : dl[d].status # "NOT_STARTED_YET" => Started(dl[d]) = dl[d]
    BY DEF Started
  <2>5. \A d \in Ids : dl'[d] = dl[d] \/ (d \in ToStart /\ dl[d].status = "NOT_STARTED_YET"
                                         /\ dl'[d] = Started(dl[d]))
    BY <2>1, <2>4
  <2>6. dl' \in [Ids -> Downloads]
    <3>1. \A d \in Ids : dl'[d] \in Downloads
      BY <1>1, <2>3, <2>5
    <3>2. dl' = [d \in Ids |-> dl'[d]]
      BY <2>1
    <3> QED BY <3>1, <3>2
  <2> QED BY <1>1, <2>1, <2>3, <2>5, <2>6
<1> QED
  BY <1>2, <1>3

LEMMA UnselectType ==
    ASSUME selected \in Seq(Missions), NEW m, Unselect(m)
    PROVE  selected' \in Seq(Missions)
<1>1. PICK i \in DOMAIN selected :
          selected' = SubSeq(selected, 1, i - 1) \o SubSeq(selected, i + 1, Len(selected))
  BY DEF Unselect
<1>2. i \in 1 .. Len(selected) /\ Len(selected) \in Nat
  OBVIOUS
<1>3. \A j \in 1 .. Len(selected) : selected[j] \in Missions
  OBVIOUS
<1>4. SubSeq(selected, 1, i - 1) \in Seq(Missions)
  BY <1>2, <1>3, SubSeqProperties, i - 1 \in Int, \A j \in 1 .. i - 1 : j \in 1 .. Len(selected)
<1>5. SubSeq(selected, i + 1, Len(selected)) \in Seq(Missions)
  BY <1>2, <1>3, SubSeqProperties, i + 1 \in Int, \A j \in i + 1 .. Len(selected) : j \in 1 .. Len(selected)
<1> QED
  BY <1>1, <1>4, <1>5, ConcatProperties

\* Steps of the menu that begin nothing.
LEMMA QuietStepIInv ==
    ASSUME IInv, ~Over,
           \/ MenuProcesses \/ GameProcesses \/ NothingSelected
           \/ \E m \in Missions : Select(m) \/ Deselect(m) \/ CancelUnknown(m)
    PROVE  IInv'
<1>1. /\ dl \in [Ids -> Downloads] /\ allDone \in BOOLEAN /\ inProgress \in BOOLEAN
      /\ selected \in Seq(Missions) /\ mpc \in OwnerLabels /\ crash = "none"
  BY DEF IInv, DownloadsKept, MenuTypeOK, Over
<1>2. CASE MenuProcesses \/ GameProcesses
  <2>1. /\ mpc \notin StopLabels /\ mpc' \in OwnerLabels \ StopLabels /\ mpc # "over" /\ ProcessDownloads
        /\ UNCHANGED <<todo, crash, queue, nextId, selected, active, inProgress, pending, after>>
    BY <1>2 DEF MenuProcesses, GameProcesses, StopLabels, OwnerLabels
  <2> QED BY <1>1, <2>1, StartsWaiting, MenuFrame
<1>3. CASE NothingSelected
  <2>1. /\ mpc \notin StopLabels /\ mpc' \in OwnerLabels \ StopLabels /\ mpc # "over"
        /\ UNCHANGED <<dl, todo, crash, queue, nextId, allDone, selected, active, inProgress, pending, after>>
    BY <1>3 DEF NothingSelected, menuVars, StopLabels, OwnerLabels
  <2> QED BY <1>1, <2>1, MenuFrame
<1>4. ASSUME NEW m \in Missions, Select(m) \/ Deselect(m)
      PROVE  IInv'
  <2>1. /\ mpc \notin StopLabels /\ mpc' \in OwnerLabels \ StopLabels /\ mpc # "over"
        /\ UNCHANGED <<dl, todo, crash, queue, nextId, allDone, active, inProgress, pending, after>>
    BY <1>4 DEF Select, Deselect, StopLabels, OwnerLabels
  <2>2. selected' \in Seq(Missions)
    <3>1. CASE Select(m)
      BY <1>1, <3>1 DEF Select
    <3>2. CASE Deselect(m)
      BY <1>1, <3>2, UnselectType DEF Deselect
    <3> QED BY <1>4, <3>1, <3>2
  <2> QED BY <1>1, <2>1, <2>2, MenuFrame
<1>5. ASSUME NEW m \in Missions, CancelUnknown(m)
      PROVE  IInv'
  <2>1. /\ mpc \notin StopLabels /\ mpc' \in OwnerLabels \ StopLabels /\ mpc # "over" /\ crash' = "null"
        /\ UNCHANGED <<dl, todo, queue, nextId, allDone, selected, active, inProgress, pending, after>>
    BY <1>5 DEF CancelUnknown, menuVars, StopLabels, OwnerLabels
  <2> QED BY <1>1, <2>1, MenuFrame
<1> QED
  BY <1>2, <1>3, <1>4, <1>5

\* A step that begins calls: what they reach is no longer in the queue, and what they take
\* out of the queue they destroy.
LEMMA BeginIInv ==
    ASSUME IInv, ~Over, mpc \notin StopLabels, NEW calls \in Seq(Calls), NEW then \in OwnerLabels \ StopLabels,
           Begin(calls, then), UNCHANGED <<crash, nextId, allDone>>,
           inProgress' \in BOOLEAN, selected' \in Seq(Missions), active' \in {active, <<>>},
           \A i \in DOMAIN calls : calls[i].id < nextId,
           \A i \in DOMAIN calls : calls[i].id \in queue =>
               \E j \in DOMAIN calls : calls[j] = [id |-> calls[i].id, op |-> "drop"],
           \/ pending' = NoId
           \/ pending' = pending /\ (then = "over" \/ \A i \in DOMAIN calls : calls[i].id # pending),
           \/ UNCHANGED dl
           \/ \E d \in Ids : /\ calls = <<[id |-> d, op |-> "drop"]>>
                             /\ dl' = [dl EXCEPT ![d].dest = NoFile]
    PROVE  IInv'
<1>1. /\ todo = <<>> /\ crash = "none" /\ crash' = "none" /\ mpc # "over" /\ todo' = calls
      /\ dl \in [Ids -> Downloads] /\ queue' \subseteq queue
      /\ \A d \in queue : d \notin queue' <=> \E i \in DOMAIN calls : calls[i].id = d
      /\ \A d \in queue' : \A i \in DOMAIN calls : calls[i].id # d
  BY DEF IInv, MenuTypeOK, DownloadsKept, Over, Begin
<1>2. dl' \in [Ids -> Downloads]
  <2>1. ASSUME NEW d \in Ids, dl' = [dl EXCEPT ![d].dest = NoFile]
        PROVE  dl' \in [Ids -> Downloads]
    <3>1. [dl[d] EXCEPT !.dest = NoFile] \in Downloads
      BY <1>1 DEF Downloads
    <3>2. dl' = [dl EXCEPT ![d] = [dl[d] EXCEPT !.dest = NoFile]]
      BY <1>1, <2>1
    <3> QED BY <1>1, <3>1, <3>2
  <2> QED BY <1>1, <2>1
<1>3. \A e \in Ids :
          \/ dl'[e] = dl[e]
          \/ /\ dl'[e] = [dl[e] EXCEPT !.dest = NoFile]
             /\ calls = <<[id |-> e, op |-> "drop"]>>
  BY <1>1
<1>4. \A e \in Ids : /\ dl[e] \in Downloads
                     /\ dl'[e].kind = dl[e].kind /\ dl'[e].thread = dl[e].thread
                     /\ dl'[e].temp = dl[e].temp /\ dl'[e].pc = dl[e].pc
                     /\ Counted(dl[e]) => Counted(dl'[e])
                     /\ FilesKept(dl[e]) => FilesKept(dl'[e])
  <2> TAKE e \in Ids
  <2>1. dl[e] \in Downloads
    BY <1>1
  <2>2. CASE dl'[e] = dl[e]
    BY <2>1, <2>2
  <2>3. CASE dl'[e] = [dl[e] EXCEPT !.dest = NoFile]
    BY <2>1, <2>3 DEF Downloads, Counted, FilesKept, UrlsOf, Fit
  <2> QED BY <1>3, <2>2, <2>3
<1>5. ASSUME NEW e \in Ids, dl'[e] # dl[e]
      PROVE  e < nextId /\ ToBeDropped(e)' /\ ~Untouched(e)' /\ e \notin queue'
  <2>1. calls = <<[id |-> e, op |-> "drop"]>>
    BY <1>3, <1>5
  <2>2. 1 \in DOMAIN calls /\ calls[1].id = e /\ calls[1].op = "drop"
    BY <2>1
  <2>3. todo' # <<>> /\ todo'[1].id = e /\ todo'[1].op = "drop"
    BY <1>1, <2>1, <2>2
  <2> QED BY <1>1, <2>1, <2>2, <2>3 DEF ToBeDropped, Untouched, Interrupted, Current, Canceled
<1>6. DownloadsKept'
  <2>1. nextId \in Int /\ \A e \in Ids : e \in Int
    BY DownloadAssumption DEF IInv, MenuTypeOK, Ids
  <2>2. \A e \in Ids : e >= nextId => dl'[e] = dl[e]
    BY <1>5, <2>1
  <2> QED BY <1>2, <1>4, <2>2 DEF IInv, DownloadsKept
<1>7. MenuTypeOK'
  <2>1. mpc' \in OwnerLabels /\ after' \in OwnerLabels \ StopLabels /\ (mpc' \in StopLabels <=> todo' # <<>>)
    <3>1. "stop" \in OwnerLabels /\ "stop" \in StopLabels
      BY DEF OwnerLabels, StopLabels
    <3> QED BY <1>1, <3>1 DEF Begin, IInv, MenuTypeOK
  <2>2. /\ DOMAIN active' \subseteq Missions
        /\ active' \in [DOMAIN active' -> [mission : Ids \cup {NoId}, pack : Ids \cup {NoId}]]
    BY DEF IInv, MenuTypeOK
  <2>3. pending' \in Ids \cup {NoId}
    BY DEF IInv, MenuTypeOK
  <2>4. queue' \subseteq 1 .. nextId' - 1
    BY <1>1 DEF IInv, MenuTypeOK
  <2> QED BY <1>1, <2>1, <2>2, <2>3, <2>4 DEF IInv, MenuTypeOK
<1>8. IdsKept'
  <2>1. \A e \in Ids \cup {NoId} : IsMissionId(e) => IsMissionId(e)'
    BY <1>4 DEF IsMissionId
  <2>2. (\A m \in DOMAIN active : IsMissionId(active[m].mission) /\ IsMissionId(active[m].pack))'
    <3>1. CASE active' = <<>>
      BY <3>1
    <3>2. CASE active' = active
      BY <2>1, <3>2 DEF IInv, IdsKept, MenuTypeOK
    <3> QED BY <3>1, <3>2
  <2>3. pending' # NoId => /\ pending' < nextId' /\ dl'[pending'].kind = "request"
    BY <1>4 DEF IInv, IdsKept, MenuTypeOK
  <2>4. pending' # NoId => \/ pending' \in queue' \/ mpc' = "over"
                           \/ (mpc' \in StopLabels /\ after' = "over")
    <3> SUFFICES ASSUME pending' # NoId PROVE pending' \in queue' \/ mpc' = "over" \/ (mpc' \in StopLabels /\ after' = "over")
      OBVIOUS
    <3>1. pending' = pending /\ pending \in queue
      BY <1>1 DEF IInv, IdsKept
    <3>2. CASE then = "over"
      BY <3>2 DEF Begin, StopLabels
    <3>3. CASE \A i \in DOMAIN calls : calls[i].id # pending
      BY <1>1, <3>1, <3>3
    <3> QED BY <3>1, <3>2, <3>3
  <2>5. \A i \in DOMAIN todo' : todo'[i].id < nextId' /\ todo'[i].id \notin queue'
    BY <1>1 DEF Begin
  <2> QED BY <2>2, <2>3, <2>4, <2>5 DEF IdsKept
<1>9. ASSUME NEW e \in Ids
      PROVE  Accounted(e)'
  <2>1. Accounted(e) /\ Untouched(e) /\ ~ToBeDropped(e)
    BY <1>1 DEF IInv, Untouched, Interrupted, ToBeDropped
  <2>2. e \in queue' => dl'[e] = dl[e] /\ e \in queue
    BY <1>1, <1>5
  <2>3. Untouched(e)' => dl'[e] = dl[e]
    BY <1>5
  <2>4. e \notin queue' /\ ~ToBeDropped(e)' => e \notin queue
    <3> SUFFICES ASSUME e \notin queue', e \in queue PROVE ToBeDropped(e)'
      OBVIOUS
    <3>1. PICK i \in DOMAIN calls : calls[i].id = e
      BY <1>1
    <3>2. \E j \in DOMAIN calls : calls[j] = [id |-> e, op |-> "drop"]
      BY <3>1
    <3> QED BY <1>1, <3>2 DEF ToBeDropped
  <2>5. AtRest(dl[e]) => AtRest(dl'[e])
    BY <1>4 DEF AtRest
  <2> QED BY <1>1, <1>4, <2>1, <2>2, <2>3, <2>4, <2>5 DEF Accounted, Status
<1> QED
  BY <1>6, <1>7, <1>8, <1>9 DEF IInv

LEMMA PairConcat ==
    ASSUME NEW a, NEW b
    PROVE  <<a>> \o <<b>> = <<a, b>>
<1> DEFINE S == {a, b}
           s == <<a>>
           t == <<b>>
           st == s \o t
<1>1. s \in Seq(S) /\ t \in Seq(S) /\ Len(s) = 1 /\ Len(t) = 1 /\ <<a, b>> \in Seq(S) /\ Len(<<a, b>>) = 2
  OBVIOUS
<1>2. st \in Seq(S) /\ Len(st) = 2 /\ \A i \in 1 .. 2 : st[i] = IF i <= 1 THEN s[i] ELSE t[i - 1]
  <2> HIDE DEF S, s, t
  <2> QED BY <1>1, ConcatProperties
<1>3. st[1] = a /\ st[2] = b
  BY <1>2
<1>4. \A i \in 1 .. 2 : st[i] = <<a, b>>[i]
  BY <1>3
<1> HIDE DEF S, st
<1> QED
  BY <1>1, <1>2, <1>4, SeqEqual DEF st

LEMMA ConcatIndices ==
    ASSUME NEW S, NEW s \in Seq(S), NEW t \in Seq(S)
    PROVE  /\ s \o t \in Seq(S)
           /\ \A i \in DOMAIN (s \o t) : \/ i \in DOMAIN s /\ (s \o t)[i] = s[i]
                                         \/ \E j \in DOMAIN t : (s \o t)[i] = t[j]
           /\ \A i \in DOMAIN s : i \in DOMAIN (s \o t) /\ (s \o t)[i] = s[i]
           /\ \A j \in DOMAIN t : \E i \in DOMAIN (s \o t) : (s \o t)[i] = t[j]
<1> DEFINE st == s \o t
<1>1. /\ st \in Seq(S) /\ Len(st) = Len(s) + Len(t)
      /\ \A i \in 1 .. Len(s) + Len(t) : st[i] = IF i <= Len(s) THEN s[i] ELSE t[i - Len(s)]
  BY ConcatProperties
<1>2. DOMAIN s = 1 .. Len(s) /\ DOMAIN t = 1 .. Len(t) /\ Len(s) \in Nat /\ Len(t) \in Nat
  OBVIOUS
<1>3. DOMAIN st = 1 .. Len(s) + Len(t)
  BY <1>1
<1> HIDE DEF st
<1>4. \A i \in DOMAIN st : (i \in DOMAIN s /\ st[i] = s[i]) \/ \E j \in DOMAIN t : st[i] = t[j]
  <2> TAKE i \in DOMAIN st
  <2>1. CASE i <= Len(s)
    BY <1>1, <1>2, <1>3, <2>1
  <2>2. CASE ~(i <= Len(s))
    <3>1. i - Len(s) \in DOMAIN t /\ st[i] = t[i - Len(s)]
      BY <1>1, <1>2, <1>3, <2>2
    <3> QED BY <3>1
  <2> QED BY <2>1, <2>2
<1>5. \A i \in DOMAIN s : i \in DOMAIN st /\ st[i] = s[i]
  BY <1>1, <1>2, <1>3
<1>6. \A j \in DOMAIN t : \E i \in DOMAIN st : st[i] = t[j]
  <2> TAKE j \in DOMAIN t
  <2>1. j + Len(s) \in DOMAIN st /\ ~(j + Len(s) <= Len(s)) /\ (j + Len(s)) - Len(s) = j
    BY <1>2, <1>3
  <2> QED BY <1>1, <1>3, <2>1
<1> QED
  BY <1>1, <1>4, <1>5, <1>6 DEF st

\* The calls of StopAndDrop reach one download, and destroy what is in the queue.
LEMMA StopAndDropCalls ==
    ASSUME NEW d \in Ids \cup {NoId}, NoId \notin queue
    PROVE  /\ StopAndDrop(d) \in Seq(Calls) /\ Drop(d) \in Seq(Calls)
           /\ \A i \in DOMAIN StopAndDrop(d) : StopAndDrop(d)[i].id = d /\ d # NoId
           /\ d \in queue /\ d # NoId =>
                  \E j \in DOMAIN StopAndDrop(d) : StopAndDrop(d)[j] = [id |-> d, op |-> "drop"]
<1> DEFINE stop == [id |-> d, op |-> "stop"]
           drop == [id |-> d, op |-> "drop"]
<1>1. CASE d = NoId /\ d \notin queue
  BY <1>1 DEF StopAndDrop, Drop
<1>2. CASE d # NoId /\ d \in queue
  <2>1. StopAndDrop(d) = <<stop, drop>> /\ Drop(d) = <<drop>>
    <3>1. StopAndDrop(d) = <<stop>> \o <<drop>> /\ Drop(d) = <<drop>>
      BY <1>2 DEF StopAndDrop, Drop
    <3> HIDE DEF stop, drop
    <3>2. <<stop>> \o <<drop>> = <<stop, drop>>
      BY PairConcat
    <3> QED BY <3>1, <3>2
  <2>2. stop \in Calls /\ drop \in Calls
    BY <1>2 DEF Calls
  <2> QED BY <1>2, <2>1, <2>2
<1>3. CASE d # NoId /\ d \notin queue
  <2>1. StopAndDrop(d) = <<stop>> /\ Drop(d) = <<>>
    BY <1>3 DEF StopAndDrop, Drop
  <2>2. stop \in Calls
    BY <1>3 DEF Calls
  <2> QED BY <1>3, <2>1, <2>2
<1> QED
  BY <1>1, <1>2, <1>3

LEMMA CancelIInv ==
    ASSUME IInv, ~Over, NEW m \in Missions, Cancel(m)
    PROVE  IInv'
<1> DEFINE pack == IdsFor(m).pack
           mission == IdsFor(m).mission
           first == StopAndDrop(pack)
           last == StopAndDrop(mission)
           calls == first \o last
<1>1. /\ mpc = "menu" /\ mpc \notin StopLabels /\ "refresh" \in OwnerLabels \ StopLabels
      /\ Begin(calls, "refresh") /\ Unselect(m)
      /\ UNCHANGED <<dl, crash, nextId, allDone, active, inProgress, pending>>
  BY DEF Cancel, StopLabels, OwnerLabels
<1>2. NoId \notin queue /\ \A d \in Ids : d # NoId
  BY DownloadAssumption DEF IInv, MenuTypeOK, Ids, NoId
<1>3. /\ pack \in Ids \cup {NoId} /\ mission \in Ids \cup {NoId}
      /\ IsMissionId(pack) /\ IsMissionId(mission)
  BY DEF IdsFor, IInv, IdsKept, MenuTypeOK, IsMissionId
<1>4. /\ first \in Seq(Calls) /\ last \in Seq(Calls)
      /\ \A i \in DOMAIN first : first[i].id = pack /\ pack # NoId
      /\ \A i \in DOMAIN last : last[i].id = mission /\ mission # NoId
      /\ pack \in queue => \E j \in DOMAIN first : first[j] = [id |-> pack, op |-> "drop"]
      /\ mission \in queue => \E j \in DOMAIN last : last[j] = [id |-> mission, op |-> "drop"]
  BY <1>2, <1>3, StopAndDropCalls
<1> HIDE DEF first, last
<1>5. /\ calls \in Seq(Calls)
      /\ \A i \in DOMAIN calls : \/ i \in DOMAIN first /\ calls[i] = first[i]
                                 \/ \E j \in DOMAIN last : calls[i] = last[j]
      /\ \A i \in DOMAIN first : i \in DOMAIN calls /\ calls[i] = first[i]
      /\ \A j \in DOMAIN last : \E i \in DOMAIN calls : calls[i] = last[j]
  BY <1>4, ConcatIndices
<1>6. \A i \in DOMAIN calls : /\ calls[i].id \in {pack, mission} /\ calls[i].id # NoId
                              /\ IsMissionId(calls[i].id)
  BY <1>3, <1>4, <1>5
<1> HIDE DEF calls
<1>7. \A i \in DOMAIN calls : calls[i].id < nextId /\ calls[i].id # pending
  BY <1>6 DEF IsMissionId, IInv, IdsKept
<1>8. \A i \in DOMAIN calls : calls[i].id \in queue =>
          \E j \in DOMAIN calls : calls[j] = [id |-> calls[i].id, op |-> "drop"]
  <2>1. pack \in queue => \E j \in DOMAIN calls : calls[j] = [id |-> pack, op |-> "drop"]
    BY <1>4, <1>5
  <2>2. mission \in queue => \E j \in DOMAIN calls : calls[j] = [id |-> mission, op |-> "drop"]
    BY <1>4, <1>5
  <2> QED BY <1>6, <2>1, <2>2
<1>9. inProgress' \in BOOLEAN /\ selected' \in Seq(Missions)
  BY <1>1, UnselectType DEF IInv, MenuTypeOK
<1> QED
  BY <1>1, <1>5, <1>7, <1>8, <1>9, BeginIInv

LEMMA RemovalCalls ==
    ASSUME NEW ids \in SUBSET Ids, NEW calls \in Removals(ids)
    PROVE  /\ calls \in Seq(Calls)
           /\ \A i \in DOMAIN calls : calls[i].id \in ids /\ calls[i] = [id |-> calls[i].id, op |-> "drop"]
<1>1. Cardinality(ids) \in Nat
  <2>1. IsFiniteSet(Ids)
    BY DownloadAssumption, FS_Interval DEF Ids
  <2>2. IsFiniteSet(ids)
    BY <2>1, FS_Subset
  <2> QED BY <2>2, FS_CardinalityType
<1> DEFINE Drops == [id : ids, op : {"drop"}]
<1>2. calls \in [1 .. Cardinality(ids) -> Drops]
  BY DEF Removals
<1>3. \A r \in Drops : r.id \in ids /\ r = [id |-> r.id, op |-> "drop"] /\ r \in Calls
  BY DEF Calls
<1> HIDE DEF Drops
<1>4. calls \in Seq(Drops)
  BY <1>1, <1>2
<1>5. Seq(Drops) \subseteq Seq(Calls)
  BY <1>3, SeqMonotonic
<1> QED
  BY <1>3, <1>4, <1>5

LEMMA UpdateIInv ==
    ASSUME IInv, ~Over, UpdateDownloadProgress
    PROVE  IInv'
<1> DEFINE then == IF mpc = "update" THEN "requests" ELSE "menu"
<1>1. /\ mpc \notin StopLabels /\ then \in OwnerLabels \ StopLabels
      /\ UNCHANGED <<dl, crash, nextId, allDone, selected, pending>> /\ inProgress' \in BOOLEAN
  BY DEF UpdateDownloadProgress, Underway, StopLabels, OwnerLabels
<1>2. queue \subseteq Ids /\ \A d \in queue : d < nextId
  BY DownloadAssumption DEF IInv, MenuTypeOK, Ids
<1>3. CASE inProgress /\ ~Underway
  <2>1. active' = <<>>
    BY <1>3 DEF UpdateDownloadProgress
  <2>2. PICK calls \in Removals(Shown \cap queue) : Begin(calls, then)
    BY <1>3 DEF UpdateDownloadProgress
  <2>3. /\ calls \in Seq(Calls)
        /\ \A i \in DOMAIN calls : /\ calls[i].id \in Shown \cap queue
                                   /\ calls[i] = [id |-> calls[i].id, op |-> "drop"]
    BY <1>2, RemovalCalls
  <2>4. \A d \in Shown : d # NoId => dl[d].kind # "request"
    BY DEF Shown, IInv, IdsKept, IsMissionId
  <2>5. pending # NoId => \A i \in DOMAIN calls : calls[i].id # pending
    BY <2>3, <2>4 DEF IInv, IdsKept
  <2> HIDE DEF then
  <2> QED BY <1>1, <1>2, <2>1, <2>2, <2>3, <2>5, BeginIInv DEF IInv, MenuTypeOK
<1>4. CASE ~(inProgress /\ ~Underway)
  <2>1. mpc' = then /\ UNCHANGED <<todo, queue, active, after>> /\ mpc # "over"
    BY <1>4 DEF UpdateDownloadProgress, Over
  <2> HIDE DEF then
  <2> QED BY <1>1, <2>1, MenuFrame DEF IInv, MenuTypeOK, DownloadsKept
<1> QED
  BY <1>3, <1>4

LEMMA QuitIInv ==
    ASSUME IInv, ~Over, Quit
    PROVE  IInv'
<1>1. /\ mpc \notin StopLabels /\ "over" \in OwnerLabels \ StopLabels
      /\ UNCHANGED <<dl, crash, nextId, allDone, selected, active, inProgress, pending>>
  BY DEF Quit, StopLabels, OwnerLabels
<1>2. queue \subseteq Ids /\ \A d \in queue : d < nextId
  BY DownloadAssumption DEF IInv, MenuTypeOK, Ids
<1>3. PICK calls \in Removals(queue) : Begin(calls, "over")
  BY DEF Quit
<1>4. /\ calls \in Seq(Calls)
      /\ \A i \in DOMAIN calls : calls[i].id \in queue /\ calls[i] = [id |-> calls[i].id, op |-> "drop"]
  BY <1>2, RemovalCalls
<1> QED
  BY <1>1, <1>2, <1>3, <1>4, BeginIInv DEF IInv, MenuTypeOK

LEMMA ProcessRequestIInv ==
    ASSUME IInv, ~Over, ProcessRequest
    PROVE  IInv'
<1>1. /\ mpc \notin StopLabels /\ mpc # "over" /\ {"menu", "refresh"} \subseteq OwnerLabels \ StopLabels
      /\ UNCHANGED <<crash, nextId, allDone, selected, active, inProgress>>
      /\ allDone \in BOOLEAN /\ inProgress \in BOOLEAN /\ selected \in Seq(Missions)
      /\ crash \in {"none", "null", "bounds", "terminate"} /\ dl \in [Ids -> Downloads]
  BY DEF ProcessRequest, StopLabels, OwnerLabels, IInv, MenuTypeOK, DownloadsKept
<1>2. CASE pending # NoId /\ Status(pending) \in {"SUCCESS", "FAILED", "MALFORMED"}
  <2>1. pending \in Ids /\ pending \in queue /\ pending < nextId
    BY <1>1, <1>2 DEF IInv, IdsKept, MenuTypeOK
  <2>2. dl' = [dl EXCEPT ![pending].dest = NoFile] /\ pending' = NoId
    BY <1>2 DEF ProcessRequest
  <2>3. PICK then \in {"menu", "refresh"} : Begin(Drop(pending), then)
    BY <1>2 DEF ProcessRequest
  <2> DEFINE drop == [id |-> pending, op |-> "drop"]
             calls == <<drop>>
  <2>4. Drop(pending) = calls /\ drop \in Calls /\ drop.id = pending
    BY <2>1 DEF Drop, Calls
  <2>5. calls \in Seq(Calls) /\ \A i \in DOMAIN calls : calls[i] = drop
    BY <2>4
  <2>6. 1 \in DOMAIN calls
    OBVIOUS
  <2>7. \E d \in Ids : calls = <<[id |-> d, op |-> "drop"]>> /\ dl' = [dl EXCEPT ![d].dest = NoFile]
    BY <2>1, <2>2
  <2>8. /\ \A i \in DOMAIN calls : calls[i].id < nextId
        /\ \A i \in DOMAIN calls : calls[i].id \in queue =>
               \E j \in DOMAIN calls : calls[j] = [id |-> calls[i].id, op |-> "drop"]
    BY <2>1, <2>4, <2>5, <2>6
  <2> HIDE DEF calls
  <2>9. Begin(calls, then) /\ active' \in {active, <<>>}
    BY <1>1, <2>3, <2>4
  <2> QED BY <1>1, <2>2, <2>5, <2>7, <2>8, <2>9, BeginIInv
<1>3. CASE ~(pending # NoId /\ Status(pending) \in {"SUCCESS", "FAILED", "MALFORMED"})
  <2>1. mpc' = "menu" /\ UNCHANGED <<dl, todo, queue, after, pending>>
    BY <1>3 DEF ProcessRequest
  <2> QED BY <1>1, <2>1, MenuFrame
<1> QED
  BY <1>2, <1>3

LEMMA TeardownIInv ==
    ASSUME IInv, ~Over, Teardown
    PROVE  IInv'
<1>1. UNCHANGED <<queue, nextId, allDone, selected, active, inProgress, pending>> /\ crash = "none"
  BY DEF Teardown, Over
<1>2. CASE StopStep /\ UNCHANGED after
  BY <1>1, <1>2, StopStepIInv DEF menuVars
<1>3. CASE Stopped(after) /\ after' = IF Len(todo) = 1 THEN "menu" ELSE after
  BY <1>1, <1>3, StoppedIInv
<1> QED
  BY <1>2, <1>3 DEF Teardown

-----------------------------------------------------------------------------
(* New downloads.                                                          *)

\* A step that adds downloads, the ids of the first of them being the next id.
LEMMA AddIInv ==
    ASSUME IInv, ~Over, mpc \notin StopLabels, mpc' \in OwnerLabels \ StopLabels,
           NEW n \in nextId .. MaxDownloads + 1, nextId' = n, queue' = queue \cup nextId .. n - 1,
           allDone' \in BOOLEAN, selected' \in Seq(Missions), UNCHANGED <<todo, crash, inProgress, after>>,
           NEW new \in [Ids -> Downloads], dl' = new,
           \A d \in Ids : d < nextId \/ d >= n => new[d] = dl[d],
           \A d \in nextId .. n - 1 : /\ new[d].kind \in {"mission", "pack", "request"}
                                      /\ new[d] = Created(new[d].kind, new[d].related),
           pending' = pending \/ (pending' \in nextId .. n - 1 /\ new[pending'].kind = "request"),
           NEW shown, active' = shown,
           DOMAIN shown \subseteq Missions,
           shown \in [DOMAIN shown -> [mission : Ids \cup {NoId}, pack : Ids \cup {NoId}]],
           \A m \in DOMAIN shown : \A d \in {shown[m].mission, shown[m].pack} :
               d = NoId \/ (d < n /\ new[d].kind \in {"mission", "pack"})
    PROVE  IInv'
<1>1. /\ todo = <<>> /\ crash = "none" /\ mpc # "over" /\ nextId \in 1 .. MaxDownloads + 1 /\ n \in Int
      /\ MaxDownloads \in Nat /\ queue \subseteq 1 .. nextId - 1
  BY DownloadAssumption DEF IInv, MenuTypeOK, Over
<1>2. nextId <= n /\ Ids = 1 .. MaxDownloads
  BY <1>1 DEF Ids
<1>3. \A d \in Ids : \/ d \in nextId .. n - 1
                     \/ d < nextId /\ d \notin nextId .. n - 1 /\ new[d] = dl[d]
                     \/ d >= n /\ ~(d < n) /\ d \notin nextId .. n - 1 /\ new[d] = dl[d] /\ d >= nextId
  BY <1>1, <1>2
<1>4. \A d \in nextId .. n - 1 :
          /\ d \in Ids /\ new[d].kind \in {"mission", "pack", "request"} /\ Waiting(new[d])
          /\ new[d].thread = FALSE /\ AtRest(new[d]) /\ Counted(new[d]) /\ FilesKept(new[d])
  <2> TAKE d \in nextId .. n - 1
  <2> DEFINE c == new[d]
  <2>1. c.kind \in {"mission", "pack", "request"} /\ c = Created(c.kind, c.related) /\ d \in Ids
    BY <1>1, <1>2
  <2>2. /\ c.thread = FALSE /\ c.temp = NoFile /\ c.dest = NoFile /\ c.pc = "none"
        /\ c.curUrl = 0 /\ c.next = 0 /\ c.request = 0
    BY <2>1 DEF Created, Unused
  <2>3. UrlsOf(c) \in Nat
    BY <2>1, DownloadAssumption DEF UrlsOf
  <2> HIDE DEF c
  <2> QED BY <2>1, <2>2, <2>3 DEF Waiting, AtRest, Counted, FilesKept, Fit, c
<1>5. DownloadsKept'
  <2>1. \A d \in Ids : d < n => new[d].kind # "none" /\ Counted(new[d])
    BY <1>3, <1>4 DEF IInv, DownloadsKept
  <2>2. \A d \in Ids : d >= n => new[d] = Unused
    <3> TAKE d \in Ids
    <3> HAVE d >= n
    <3>1. d \in Int /\ nextId \in Int /\ d >= nextId
      BY <1>1, <1>2
    <3>2. new[d] = dl[d]
      OBVIOUS
    <3> QED BY <3>1, <3>2 DEF IInv, DownloadsKept
  <2>3. \A d \in Ids : FilesKept(new[d])
    BY <1>3, <1>4 DEF IInv, DownloadsKept
  <2> QED BY <2>1, <2>2, <2>3 DEF DownloadsKept
<1>6. MenuTypeOK'
  <2>1. nextId' \in 1 .. MaxDownloads + 1 /\ queue' \subseteq 1 .. nextId' - 1
    BY <1>1, <1>2
  <2>2. pending' \in Ids \cup {NoId}
    BY <1>4 DEF IInv, MenuTypeOK
  <2> QED BY <1>1, <2>1, <2>2 DEF IInv, MenuTypeOK
<1>7. IdsKept'
  <2>1. (\A m \in DOMAIN active : IsMissionId(active[m].mission) /\ IsMissionId(active[m].pack))'
    BY DEF IsMissionId
  <2>2. pending' # NoId => pending' < n /\ new[pending'].kind = "request" /\ pending' \in queue'
    <3>1. CASE pending' = pending
      <4>1. pending # NoId => /\ pending < nextId /\ dl[pending].kind = "request" /\ pending \in Ids
                              /\ pending \in queue
        BY <1>1, <3>1 DEF IInv, IdsKept, MenuTypeOK
      <4>2. pending # NoId => pending < n /\ new[pending] = dl[pending]
        BY <1>1, <1>2, <4>1
      <4> QED BY <3>1, <4>1, <4>2
    <3>2. CASE pending' \in nextId .. n - 1 /\ new[pending'].kind = "request"
      BY <1>1, <3>2
    <3> QED BY <3>1, <3>2
  <2>3. DOMAIN todo' = {}
    BY <1>1
  <2> QED BY <2>1, <2>2, <2>3 DEF IdsKept
<1>8. ASSUME NEW d \in Ids
      PROVE  Accounted(d)'
  <2>1. Accounted(d) /\ Untouched(d) /\ ~ToBeDropped(d)
    BY <1>1 DEF IInv, Untouched, Interrupted, ToBeDropped
  <2>2. CASE d \in nextId .. n - 1
    BY <1>4, <2>2 DEF Accounted
  <2>3. CASE d \notin nextId .. n - 1 /\ new[d] = dl[d]
    BY <1>1, <2>1, <2>3 DEF Accounted, Status
  <2> QED BY <1>3, <2>2, <2>3
<1> QED
  BY <1>5, <1>6, <1>7, <1>8 DEF IInv

LEMMA StartRequestIInv ==
    ASSUME IInv, ~Over, StartRequest
    PROVE  IInv'
<1> DEFINE id == nextId
           new == [dl EXCEPT ![nextId] = Created("request", NoId)]
           n == nextId + 1
<1>1. /\ dl \in [Ids -> Downloads] /\ nextId \in 1 .. MaxDownloads + 1 /\ MaxDownloads \in Nat
      /\ nextId <= MaxDownloads /\ mpc = "menu" /\ selected \in Seq(Missions)
      /\ UNCHANGED <<todo, crash, inProgress, after, active>>
  BY DownloadAssumption DEF IInv, MenuTypeOK, DownloadsKept, StartRequest
<1>2. nextId \in Ids /\ \A d \in nextId .. n - 1 : d = nextId
  BY <1>1 DEF Ids
<1>3. Created("request", NoId) \in Downloads /\ Created("request", NoId).kind = "request"
      /\ Created("request", NoId).related = NoId
  BY DEF Created, Unused, Downloads, Statuses, WorkerLabels, NoFile, NoId
<1>4. /\ new \in [Ids -> Downloads] /\ new[nextId] = Created("request", NoId)
      /\ \A d \in Ids : d # nextId => new[d] = dl[d]
  BY <1>1, <1>2, <1>3
<1>5. dl' = new /\ nextId' = n /\ pending' = nextId /\ allDone' \in BOOLEAN /\ queue' = queue \cup nextId .. n - 1
  <2>1. nextId .. n - 1 = {nextId}
    BY <1>1
  <2> QED BY <2>1 DEF StartRequest, DoneAfterAdd
<1>6. mpc \notin StopLabels /\ mpc' \in OwnerLabels \ StopLabels /\ selected' \in Seq(Missions)
  <2>1. {"menu", "refresh"} \subseteq OwnerLabels \ StopLabels
    BY DEF OwnerLabels, StopLabels
  <2>2. mpc' \in {"menu", "refresh"} /\ selected' \in {selected, <<>>}
    BY <1>1 DEF StartRequest
  <2>3. <<>> \in Seq(Missions)
    OBVIOUS
  <2>4. selected' \in Seq(Missions)
    BY <1>1, <2>2, <2>3
  <2> QED BY <1>1, <2>1, <2>2, <2>4
<1>7. n \in nextId .. MaxDownloads + 1 /\ nextId \in nextId .. n - 1
  BY <1>1
<1>8. \A d \in Ids : d < nextId \/ d >= n => new[d] = dl[d]
  BY <1>1, <1>2, <1>4 DEF Ids
<1>9. \A d \in nextId .. n - 1 : /\ new[d].kind \in {"mission", "pack", "request"}
                                 /\ new[d] = Created(new[d].kind, new[d].related)
  BY <1>2, <1>3, <1>4
<1>10. \A m \in DOMAIN active : \A d \in {active[m].mission, active[m].pack} :
           d = NoId \/ (d < n /\ new[d].kind \in {"mission", "pack"})
  <2> TAKE m \in DOMAIN active
  <2> TAKE d \in {active[m].mission, active[m].pack}
  <2>1. IsMissionId(d) /\ d \in Ids \cup {NoId}
    BY DEF IInv, IdsKept, MenuTypeOK
  <2>2. CASE d \in Ids /\ d < nextId /\ dl[d].kind \in {"mission", "pack"}
    <3>1. d # nextId /\ d < n
      BY <1>1, <2>2 DEF Ids
    <3> QED BY <1>4, <2>2, <3>1
  <2> QED BY <2>1, <2>2 DEF IsMissionId
<1>11. new[pending'].kind = "request" /\ pending' \in nextId .. n - 1
  BY <1>3, <1>4, <1>5, <1>7
<1>12. /\ DOMAIN active \subseteq Missions /\ active' = active
       /\ active \in [DOMAIN active -> [mission : Ids \cup {NoId}, pack : Ids \cup {NoId}]]
  BY <1>1 DEF IInv, MenuTypeOK
<1> HIDE DEF new, n
<1> QED
  BY <1>1, <1>4, <1>5, <1>6, <1>7, <1>8, <1>9, <1>10, <1>11, <1>12, AddIInv

\* The downloads a mission needs, none, one or a pair.
LEMMA NeededIs ==
    ASSUME NEW m
    PROVE  /\ Len(Needed(m)) \in 0 .. 2 /\ (Needed(m) = <<>> <=> Len(Needed(m)) = 0)
           /\ Needed(m) # <<>> => Head(Needed(m)) \in {"mission", "pack"}
<1>1. CASE m \in HasMission /\ m \in HasPack
  <2>1. Needed(m) = <<"mission", "pack">>
    BY <1>1, PairConcat DEF Needed
  <2> QED BY <2>1
<1>2. CASE m \in HasMission /\ m \notin HasPack
  <2>1. Needed(m) = <<"mission">>
    BY <1>2 DEF Needed
  <2> QED BY <2>1
<1>3. CASE m \notin HasMission /\ m \in HasPack
  <2>1. Needed(m) = <<"pack">>
    BY <1>3 DEF Needed
  <2> QED BY <2>1
<1>4. CASE m \notin HasMission /\ m \notin HasPack
  <2>1. Needed(m) = <<>>
    BY <1>4 DEF Needed
  <2> QED BY <2>1
<1> QED
  BY <1>1, <1>2, <1>3, <1>4

\* The recursive function FirstId satisfies its recursion equation.
LEMMA FirstIdIsDefined ==
    ASSUME selected \in Seq(Missions)
    PROVE  FirstId = [i \in 1 .. Len(selected) + 1 |->
                         IF i = 1 THEN nextId ELSE FirstId[i - 1] + Len(Needed(selected[i - 1]))]
<1> DEFINE Body(f, i) == IF i = 1 THEN nextId ELSE f[i - 1] + Len(Needed(selected[i - 1]))
<1> SUFFICES FirstId = [i \in 1 .. Len(selected) + 1 |-> Body(FirstId, i)]
  OBVIOUS
<1>0. PICK N : N = Len(selected) + 1
  OBVIOUS
<1> DEFINE Good == {n \in 1 .. N : \E f : f = [i \in 1 .. n |-> Body(f, i)]}
<1>1. N \in Nat /\ N >= 1
  BY <1>0
<1>2. 1 \in Good
  <2> DEFINE f == [i \in 1 .. 1 |-> nextId]
  <2>1. f = [i \in 1 .. 1 |-> Body(f, i)]
    OBVIOUS
  <2> HIDE DEF f, Body
  <2> QED BY <1>1, <2>1
<1>3. \A n \in 1 .. N - 1 : n \in Good => n + 1 \in Good
  <2> TAKE n \in 1 .. N - 1
  <2> HAVE n \in Good
  <2>1. PICK f : f = [i \in 1 .. n |-> Body(f, i)]
    OBVIOUS
  <2> DEFINE g == [i \in 1 .. n + 1 |-> IF i = n + 1 THEN Body(f, n + 1) ELSE f[i]]
  <2>2. \A i \in 1 .. n + 1 : i # 1 => i - 1 \in 1 .. n /\ i - 1 # n + 1
    BY <1>1
  <2>3. \A i \in 1 .. n + 1 : g[i] = Body(g, i)
    <3> TAKE i \in 1 .. n + 1
    <3>1. i # 1 => g[i - 1] = f[i - 1]
      BY <2>2
    <3>2. Body(g, i) = Body(f, i)
      BY <3>1
    <3>3. i # n + 1 => f[i] = Body(f, i)
      <4>1. i # n + 1 => i \in 1 .. n
        OBVIOUS
      <4> HIDE DEF Body
      <4> QED BY <2>1, <4>1
    <3> HIDE DEF Body
    <3> QED BY <3>2, <3>3
  <2>4. g = [i \in 1 .. n + 1 |-> Body(g, i)]
    <3> HIDE DEF Body
    <3> QED BY <2>3
  <2> QED
    <3> HIDE DEF g, Body
    <3> QED BY <2>4, <1>1
<1>4. N \in Good
  <2> HIDE DEF Good, Body
  <2>1. 1 .. N \subseteq Good
    BY <1>1, <1>2, <1>3, InductionUpTo
  <2> QED BY <2>1, <1>1
<1>5. \E f : f = [i \in 1 .. Len(selected) + 1 |-> Body(f, i)]
  BY <1>0, <1>4
<1> QED
  BY <1>5 DEF FirstId

\* The ids of the selected missions follow each other without a gap.
LEMMA IdsFollow ==
    ASSUME selected \in Seq(Missions), nextId \in Nat
    PROVE  /\ FirstId[1] = nextId
           /\ \A i \in 1 .. Len(selected) : FirstId[i + 1] = FirstId[i] + Len(Needed(selected[i]))
           /\ \A i \in 1 .. Len(selected) + 1 : FirstId[i] \in Nat
           /\ \A i \in 1 .. Len(selected) + 1 : nextId <= FirstId[i] /\ FirstId[i] <= FirstId[Len(selected) + 1]
           /\ \A d \in nextId .. FirstId[Len(selected) + 1] - 1 :
                  \E i \in 1 .. Len(selected) : FirstId[i] <= d /\ d < FirstId[i + 1]
<1>1. PICK N : N = Len(selected) + 1
  OBVIOUS
<1>2. N \in Nat /\ N >= 1 /\ Len(selected) = N - 1
  BY <1>1
<1>3. PICK F : F = FirstId
  OBVIOUS
<1>4. PICK L : L = [i \in 1 .. Len(selected) |-> Len(Needed(selected[i]))]
  OBVIOUS
<1>5. \A i \in 1 .. N - 1 : L[i] \in Nat
  BY <1>2, <1>4, NeededIs
<1>6. F[1] = nextId /\ \A i \in 1 .. N - 1 : F[i + 1] = F[i] + L[i]
  <2>1. F = [i \in 1 .. N |-> IF i = 1 THEN nextId ELSE F[i - 1] + Len(Needed(selected[i - 1]))]
    BY <1>1, <1>3, FirstIdIsDefined
  <2>2. F[1] = nextId
    BY <1>2, <2>1
  <2>3. ASSUME NEW i \in 1 .. N - 1
        PROVE  F[i + 1] = F[i] + L[i]
    <3>1. i + 1 \in 1 .. N /\ i + 1 # 1 /\ (i + 1) - 1 = i
      BY <1>2
    <3>2. F[i + 1] = F[i] + Len(Needed(selected[i]))
      BY <2>1, <3>1
    <3> QED BY <1>2, <1>4, <3>2
  <2> QED BY <2>2, <2>3
<1> DEFINE Good == {n \in 1 .. N :
                       /\ F[n] \in Nat /\ nextId <= F[n]
                       /\ \A i \in 1 .. n : F[i] \in Nat /\ F[i] <= F[n]
                       /\ \A d \in nextId .. F[n] - 1 : \E i \in 1 .. n - 1 : F[i] <= d /\ d < F[i + 1]}
<1>7. 1 \in Good
  BY <1>2, <1>6
<1>8. \A n \in 1 .. N - 1 : n \in Good => n + 1 \in Good
  <2> TAKE n \in 1 .. N - 1
  <2> HAVE n \in Good
  <2>1. F[n + 1] \in Nat /\ F[n] \in Nat /\ F[n] <= F[n + 1] /\ nextId <= F[n + 1] /\ n + 1 \in 1 .. N
    <3>1. F[n] \in Nat /\ nextId <= F[n]
      OBVIOUS
    <3>2. L[n] \in Nat /\ F[n + 1] = F[n] + L[n]
      BY <1>5, <1>6
    <3> HIDE DEF Good
    <3>3. n + 1 \in 1 .. N
      BY <1>2
    <3>4. \A a, b, c \in Nat : a + b \in Nat /\ a <= a + b /\ (c <= a => c <= a + b)
      OBVIOUS
    <3> QED BY <3>1, <3>2, <3>3, <3>4
  <2>2. \A i \in 1 .. n + 1 : F[i] \in Nat /\ F[i] <= F[n + 1]
    <3> TAKE i \in 1 .. n + 1
    <3>1. CASE i \in 1 .. n
      BY <2>1, <3>1
    <3>2. CASE i = n + 1
      BY <2>1, <3>2
    <3> QED BY <3>1, <3>2
  <2>3. \A d \in nextId .. F[n + 1] - 1 : \E i \in 1 .. (n + 1) - 1 : F[i] <= d /\ d < F[i + 1]
    <3> TAKE d \in nextId .. F[n + 1] - 1
    <3>1. CASE d < F[n]
      <4>1. d \in nextId .. F[n] - 1
        BY <2>1, <3>1
      <4>2. PICK i \in 1 .. n - 1 : F[i] <= d /\ d < F[i + 1]
        BY <4>1
      <4> QED BY <4>2
    <3>2. CASE ~(d < F[n])
      <4>1. n \in 1 .. (n + 1) - 1 /\ F[n] <= d /\ d < F[n + 1]
        BY <2>1, <3>2
      <4> QED BY <4>1
    <3> QED BY <3>1, <3>2
  <2> QED BY <2>1, <2>2, <2>3
<1>9. N \in Good
  <2> HIDE DEF Good
  <2>1. 1 .. N \subseteq Good
    BY <1>2, <1>7, <1>8, InductionUpTo
  <2> QED BY <2>1, <1>2
<1>10. \A i \in 1 .. N : F[i] \in Nat /\ nextId <= F[i] /\ F[i] <= F[N]
  <2> HIDE DEF Good
  <2>1. 1 .. N \subseteq Good
    BY <1>2, <1>7, <1>8, InductionUpTo
  <2> QED BY <1>9, <2>1 DEF Good
<1>11. \A d \in nextId .. F[N] - 1 : \E i \in 1 .. N - 1 : F[i] <= d /\ d < F[i + 1]
  BY <1>9
<1>12. \A i \in 1 .. N - 1 : L[i] = Len(Needed(selected[i]))
  BY <1>2, <1>4
<1> HIDE DEF Good
<1> QED
  BY <1>1, <1>2, <1>3, <1>6, <1>10, <1>11, <1>12

LEMMA StartDownloadIInv ==
    ASSUME IInv, ~Over, StartDownload
    PROVE  IInv'
<1>1. /\ dl \in [Ids -> Downloads] /\ nextId \in 1 .. MaxDownloads + 1 /\ MaxDownloads \in Nat
      /\ selected \in Seq(Missions) /\ mpc \notin StopLabels /\ allDone \in BOOLEAN
      /\ UNCHANGED <<todo, crash, selected, inProgress, pending, after>>
      /\ mpc' \in OwnerLabels \ StopLabels
  BY DownloadAssumption
  DEF IInv, MenuTypeOK, DownloadsKept, StartDownload, OwnerLabels, StopLabels
<1>2. PICK N \in Nat : N = Len(selected)
  BY <1>1
<1>3. PICK n : n = FirstId[Len(selected) + 1]
  OBVIOUS
<1>4. /\ FirstId[1] = nextId /\ n = FirstId[N + 1] /\ n \in Nat /\ nextId <= n /\ n <= MaxDownloads + 1
      /\ \A i \in 1 .. N : FirstId[i + 1] = FirstId[i] + Len(Needed(selected[i]))
      /\ \A i \in 1 .. N + 1 : FirstId[i] \in Nat /\ nextId <= FirstId[i] /\ FirstId[i] <= n
      /\ \A d \in nextId .. n - 1 : \E i \in 1 .. N : FirstId[i] <= d /\ d < FirstId[i + 1]
  <2>1. nextId \in Nat /\ N + 1 \in 1 .. N + 1
    BY <1>1
  <2> QED BY <1>1, <1>2, <1>3, <2>1, IdsFollow DEF StartDownload
<1>5. DOMAIN selected = 1 .. N /\ n \in nextId .. MaxDownloads + 1 /\ Ids = 1 .. MaxDownloads
  BY <1>1, <1>2, <1>4 DEF Ids
\* Each of these missions has its ids among the new ones, or none.
<1>6. ASSUME NEW i \in 1 .. N
      PROVE  /\ IdsOf(i).mission = NoId \/ (IdsOf(i).mission \in nextId .. n - 1 /\ Needed(selected[i]) # <<>>)
             /\ IdsOf(i).pack \in (nextId .. n - 1) \cup {NoId}
             /\ \A d \in Int : FirstId[i] <= d /\ d < FirstId[i + 1] => d \in {IdsOf(i).mission, IdsOf(i).pack}
  <2>1. Len(Needed(selected[i])) \in 0 .. 2 /\ (Needed(selected[i]) = <<>> <=> Len(Needed(selected[i])) = 0)
    BY NeededIs
  <2>2. /\ FirstId[i + 1] = FirstId[i] + Len(Needed(selected[i])) /\ FirstId[i] \in Nat
        /\ nextId <= FirstId[i] /\ FirstId[i + 1] <= n
    BY <1>4, i + 1 \in 1 .. N + 1
  <2>3. /\ IdsOf(i).mission = IF Len(Needed(selected[i])) = 0 THEN NoId ELSE FirstId[i]
        /\ IdsOf(i).pack = IF Len(Needed(selected[i])) = 2 THEN FirstId[i] + 1 ELSE NoId
    BY <2>1 DEF IdsOf
  <2> DEFINE l == Len(Needed(selected[i]))
             f == FirstId[i]
  <2>4. /\ l \in 0 .. 2 /\ f \in Nat /\ FirstId[i + 1] = f + l /\ nextId <= f /\ f + l <= n
        /\ IdsOf(i).mission = IF l = 0 THEN NoId ELSE f
        /\ IdsOf(i).pack = IF l = 2 THEN f + 1 ELSE NoId
        /\ Needed(selected[i]) = <<>> <=> l = 0
    BY <2>1, <2>2, <2>3
  <2> HIDE DEF l, f
  <2>5. /\ l # 0 => f \in nextId .. n - 1
        /\ l = 2 => f + 1 \in nextId .. n - 1
        /\ \A d \in Int : f <= d /\ d < f + l => (d = f /\ l # 0) \/ (d = f + 1 /\ l = 2)
    <3>1. nextId \in Int /\ n \in Int /\ f \in Int /\ nextId <= f /\ f + l <= n
      BY <1>1, <1>4, <2>4
    <3>2. l \in {0, 1, 2}
      BY <2>4
    <3> QED BY <3>1, <3>2
  <2>6. FirstId[i] = f
    BY DEF f
  <2> QED BY <2>4, <2>5, <2>6
<1>7. \A d \in nextId .. n - 1 : d \in Ids /\ d # NoId
  BY <1>1, <1>4, <1>5 DEF NoId
<1> DEFINE new == [d \in Ids |->
                 IF \E i \in DOMAIN selected : d = IdsOf(i).mission
                 THEN LET i == CHOOSE j \in DOMAIN selected : d = IdsOf(j).mission
                      IN  Created(Head(Needed(selected[i])), IdsOf(i).pack)
                 ELSE IF \E i \in DOMAIN selected : d = IdsOf(i).pack
                 THEN Created("pack", NoId)
                 ELSE dl[d]]
<1>8. ASSUME NEW kind \in {"mission", "pack"}, NEW related \in Ids \cup {NoId}
      PROVE  /\ Created(kind, related) \in Downloads /\ Created(kind, related).kind = kind
             /\ Created(kind, related).related = related
  BY <1>8 DEF Created, Unused, Downloads, Statuses, WorkerLabels, NoFile
<1>9. ASSUME NEW d \in Ids
      PROVE  \/ d \in nextId .. n - 1 /\ \E kind \in {"mission", "pack"} : \E related \in Ids \cup {NoId} :
                    new[d] = Created(kind, related)
             \/ d \notin nextId .. n - 1 /\ new[d] = dl[d]
  <2>1. CASE \E i \in DOMAIN selected : d = IdsOf(i).mission
    <3> DEFINE i == CHOOSE j \in DOMAIN selected : d = IdsOf(j).mission
    <3>1. i \in 1 .. N /\ d = IdsOf(i).mission
      BY <1>5, <2>1
    <3>2. new[d] = Created(Head(Needed(selected[i])), IdsOf(i).pack)
      BY <2>1
    <3> HIDE DEF i
    <3>3. d # NoId
      BY <1>5 DEF NoId
    <3>4. d \in nextId .. n - 1 /\ Needed(selected[i]) # <<>> /\ IdsOf(i).pack \in Ids \cup {NoId}
      BY <1>6, <1>7, <3>1, <3>3
    <3>5. Head(Needed(selected[i])) \in {"mission", "pack"}
      BY <3>4, NeededIs
    <3> HIDE DEF new
    <3> QED BY <3>2, <3>4, <3>5
  <2>2. CASE /\ ~\E i \in DOMAIN selected : d = IdsOf(i).mission
             /\ \E i \in DOMAIN selected : d = IdsOf(i).pack
    <3>1. new[d] = Created("pack", NoId)
      BY <2>2
    <3>2. d \in nextId .. n - 1
      <4>1. d # NoId
        BY <1>5 DEF NoId
      <4> QED BY <1>5, <1>6, <2>2, <4>1
    <3> HIDE DEF new
    <3> QED BY <3>1, <3>2
  <2>3. CASE /\ ~\E i \in DOMAIN selected : d = IdsOf(i).mission
             /\ ~\E i \in DOMAIN selected : d = IdsOf(i).pack
    <3>1. new[d] = dl[d]
      BY <2>3
    <3>2. d \notin nextId .. n - 1
      <4> SUFFICES ASSUME d \in nextId .. n - 1 PROVE FALSE
        OBVIOUS
      <4>1. PICK i \in 1 .. N : FirstId[i] <= d /\ d < FirstId[i + 1]
        BY <1>4
      <4>2. d \in {IdsOf(i).mission, IdsOf(i).pack}
        BY <1>6, <4>1
      <4> QED BY <1>5, <2>3, <4>2
    <3> HIDE DEF new
    <3> QED BY <3>1, <3>2
  <2> QED BY <2>1, <2>2, <2>3
<1>10. dl' = new /\ nextId' = n /\ allDone' \in BOOLEAN /\ queue' = queue \cup nextId .. n - 1
  <2>1. dl' = new
    BY DEF StartDownload
  <2> HIDE DEF new
  <2> QED BY <1>1, <1>3, <2>1 DEF StartDownload, DoneAfterAdd
<1>11. new \in [Ids -> Downloads] /\ \A d \in nextId .. n - 1 :
           /\ new[d].kind \in {"mission", "pack"}
           /\ new[d] = Created(new[d].kind, new[d].related)
  <2>1. new = [d \in Ids |-> new[d]]
    OBVIOUS
  <2> HIDE DEF new
  <2>2. \A d \in Ids : new[d] \in Downloads
    BY <1>1, <1>8, <1>9
  <2>3. \A d \in nextId .. n - 1 : /\ new[d].kind \in {"mission", "pack"}
                                   /\ new[d] = Created(new[d].kind, new[d].related)
    BY <1>7, <1>8, <1>9
  <2> QED BY <2>1, <2>2, <2>3
<1>12. \A d \in Ids : d < nextId \/ d >= n => new[d] = dl[d]
  <2> HIDE DEF new
  <2> TAKE d \in Ids
  <2>1. d < nextId \/ d >= n => d \notin nextId .. n - 1
    BY <1>1, <1>4, <1>5
  <2> QED BY <1>9, <2>1
<1> HIDE DEF new
<1> DEFINE fresh(m) == IdsOf(CHOOSE i \in DOMAIN selected : selected[i] = m)
           shown == [m \in Selected \cup DOMAIN active |-> IF m \in Selected THEN fresh(m) ELSE active[m]]
<1>13. /\ DOMAIN shown = Selected \cup DOMAIN active
       /\ \A m \in DOMAIN shown : shown[m] = IF m \in Selected THEN fresh(m) ELSE active[m]
       /\ shown = [m \in DOMAIN shown |-> shown[m]]
  <2> HIDE DEF fresh
  <2> QED OBVIOUS
<1>14. \A m \in Selected : \E i \in 1 .. N : fresh(m) = IdsOf(i) /\ selected[i] = m
  BY <1>5 DEF Selected
<1>15. active' = shown
  BY DEF StartDownload
<1>16. Selected \subseteq Missions
  BY <1>1 DEF Selected
<1> HIDE DEF shown, fresh
<1>17. \A m \in DOMAIN shown :
           /\ shown[m] \in [mission : Ids \cup {NoId}, pack : Ids \cup {NoId}]
           /\ \A d \in {shown[m].mission, shown[m].pack} :
                  d = NoId \/ (d < n /\ new[d].kind \in {"mission", "pack"})
  <2> TAKE m \in DOMAIN shown
  <2>1. CASE m \in Selected
    <3>1. PICK i \in 1 .. N : shown[m] = IdsOf(i)
      BY <1>13, <1>14, <2>1
    <3>2. /\ IdsOf(i).mission \in (nextId .. n - 1) \cup {NoId}
          /\ IdsOf(i).pack \in (nextId .. n - 1) \cup {NoId}
      BY <1>6
    <3>3. IdsOf(i) = [mission |-> IdsOf(i).mission, pack |-> IdsOf(i).pack]
      BY DEF IdsOf
    <3>4. \A d \in nextId .. n - 1 : d < n /\ new[d].kind \in {"mission", "pack"}
      BY <1>1, <1>4, <1>11
    <3> QED BY <1>7, <3>1, <3>2, <3>3, <3>4
  <2>2. CASE m \notin Selected
    <3>1. m \in DOMAIN active /\ shown[m] = active[m]
      BY <1>13, <2>2
    <3>2. /\ active[m] \in [mission : Ids \cup {NoId}, pack : Ids \cup {NoId}]
          /\ IsMissionId(active[m].mission) /\ IsMissionId(active[m].pack)
      BY <3>1 DEF IInv, MenuTypeOK, IdsKept
    <3>3. \A d \in Ids \cup {NoId} : IsMissionId(d) =>
              d = NoId \/ (d < n /\ new[d].kind \in {"mission", "pack"})
      <4> TAKE d \in Ids \cup {NoId}
      <4>1. CASE d \in Ids /\ d < nextId /\ dl[d].kind \in {"mission", "pack"}
        <5>1. d < n
          BY <1>1, <1>4, <1>5, <4>1
        <5> QED BY <1>12, <4>1, <5>1
      <4> QED BY <4>1 DEF IsMissionId
    <3> QED BY <3>1, <3>2, <3>3
  <2> QED BY <2>1, <2>2
<1>18. /\ DOMAIN shown \subseteq Missions
       /\ shown \in [DOMAIN shown -> [mission : Ids \cup {NoId}, pack : Ids \cup {NoId}]]
  BY <1>13, <1>16, <1>17 DEF IInv, MenuTypeOK
<1> QED
  BY <1>1, <1>5, <1>10, <1>11, <1>12, <1>15, <1>17, <1>18, AddIInv

-----------------------------------------------------------------------------
(* The theorems.                                                           *)

LEMMA StepIInv == IInv /\ [Next]_vars => IInv'
<1> SUFFICES ASSUME IInv, [Next]_vars PROVE IInv'
  OBVIOUS
<1>1. CASE MenuStep
  BY <1>1, QuietStepIInv, UpdateIInv, ProcessRequestIInv, TeardownIInv DEF MenuStep
<1>2. CASE Player
  <2>1. ~Over
    BY <1>2 DEF Player
  <2>2. CASE GameProcesses \/ StartDownload \/ StartRequest \/ Quit
    BY <2>1, <2>2, QuietStepIInv, StartDownloadIInv, StartRequestIInv, QuitIInv
  <2>3. ASSUME NEW m \in Missions, Select(m) \/ Deselect(m) \/ Cancel(m) \/ CancelUnknown(m)
        PROVE  IInv'
    BY <2>1, <2>3, QuietStepIInv, CancelIInv
  <2> QED BY <1>2, <2>2, <2>3 DEF Player
<1>3. CASE \E d \in Ids : WorkerRuns(d)
  BY <1>3, WorkerStepIInv
<1>4. CASE UNCHANGED vars
  BY <1>4 DEF vars, downloadVars, menuVars, IInv, DownloadsKept, MenuTypeOK, IdsKept, IsMissionId,
              Accounted, Status, Untouched, Interrupted, Canceled, Current, ToBeDropped
<1> QED
  BY <1>1, <1>2, <1>3, <1>4 DEF Next, Terminated

LEMMA Invariance == Spec => []IInv
<1>1. Init => IInv
  BY InitIInv
<1>2. IInv /\ [Next]_vars => IInv'
  BY StepIInv
<1> QED
  BY <1>1, <1>2, PTL DEF Spec

\* The type invariant of module DownloadMenu, which includes that no download makes more
\* requests than it has URLs, though Stop writes the index the worker counts with.
THEOREM TypeCorrect == Spec => []TypeOK
<1>1. IInv => TypeOK
  <2> SUFFICES ASSUME IInv PROVE TypeOK
    OBVIOUS
  <2>1. \A d \in queue : /\ dl[d].kind # "none"
                         /\ dl[d].request <= Urls(d) /\ dl[d].curUrl <= Urls(d) + 1
    <3> TAKE d \in queue
    <3>1. d \in Ids /\ d < nextId
      BY DownloadAssumption DEF IInv, MenuTypeOK, Ids
    <3> QED BY <3>1 DEF IInv, DownloadsKept, Counted, UrlsOf, Urls
  <2>2. \A m \in DOMAIN active : active[m] \in [mission : Ids \cup {NoId}, pack : Ids \cup {NoId}]
    BY DEF IInv, MenuTypeOK
  <2> QED BY <2>1, <2>2 DEF IInv, DownloadsKept, MenuTypeOK, TypeOK
<1> QED
  BY <1>1, Invariance, PTL

\* CDownload::Perform: whatever the owner's thread does to other downloads, and however
\* the checks and the move turn out, a worker that was not interrupted ends with a final
\* status, which is SUCCESS if and only if it has put a file in place.
THEOREM ResultsTrue == Spec => []ResultIsTrue
<1>1. IInv => ResultIsTrue
  <2> SUFFICES ASSUME IInv, NEW d \in Ids, dl[d].pc = "over", dl[d].thread, ~Interrupted(d)
               PROVE  Final(dl[d])
    BY DEF ResultIsTrue, Final, Status
  <2>1. OnItsWay(dl[d])
    BY DEF IInv, Accounted, Untouched
  <2> QED BY <2>1 DEF OnItsWay
<1> QED
  BY <1>1, Invariance, PTL

\* CDownload::Perform with CheckValidPK4 and the checksum: no mission or pack is put in
\* place unless it is an archive, and, where a checksum is known, the right one.
THEOREM InstalledChecked == Spec => []InstalledIsChecked
<1>1. IInv => InstalledIsChecked
  BY DownloadAssumption
  DEF IInv, DownloadsKept, FilesKept, Fit, InstalledIsChecked, PK4Checked, Verified, NoFile
<1> QED
  BY <1>1, Invariance, PTL

\* ~CDownload: a download that was destroyed has no worker left and no temporary file,
\* wherever the worker was when Stop was called.
THEOREM NothingLeft == Spec => []DestroyedLeavesNothing
<1>1. IInv => DestroyedLeavesNothing
  <2> SUFFICES ASSUME IInv, NEW d \in 1 .. nextId - 1,
                      d \notin queue, \A i \in DOMAIN todo : todo[i].id # d, ~Over
               PROVE  AtRest(dl[d])
    BY DEF DestroyedLeavesNothing, AtRest
  <2>1. d \in Ids
    BY DownloadAssumption DEF IInv, MenuTypeOK, Ids
  <2>2. ~ToBeDropped(d) /\ crash = "none"
    BY DEF ToBeDropped, Over
  <2> QED BY <2>1, <2>2 DEF IInv, Accounted
<1> QED
  BY <1>1, Invariance, PTL
=============================================================================
