------------------------------- MODULE Updater -------------------------------
(***************************************************************************)
(* The updater (tdm_installer): it brings the zips of an installation to a  *)
(* target version, taking every file from where it is, in a zip on disk or  *)
(* on a server (zipsync/ZipSync.cpp), and behind the pages of the installer *)
(* it cleans up after an error or a crash (zipsync/CommandLine.cpp).        *)
(*                                                                         *)
(* A zip is the sequence of its files, <<>> when there is none (there are   *)
(* no empty zips), or Torn when it cannot be opened.  A file is its name    *)
(* and its compressed hash, which stands for its bytes.  The code goes over *)
(* zips in the order of their paths; here the order is any.                 *)
(***************************************************************************)
EXTENDS Naturals, FiniteSets, SequencesExt, TLC

CONSTANTS
    Zips,           \* zips of the installation, old and new
    Foreign,        \* local zips that provide files but are not the updater's, as the
                    \* command line and the fuzzer allow them
    Urls,           \* zips on servers
    Names,          \* names of files
    Hashes,         \* compressed hashes
    contentsOf,     \* the uncompressed contents of a compressed hash
    levelOf,        \* its compression method and flags
    Remote,         \* the files of each zip on a server
    relOf,          \* its path relative to the root of its server, a zip of ours
    Targets,        \* versions: the files of each zip
    Starts,         \* installations to begin with
    Torn,           \* a zip cut short, or still without its central directory
    MaxTroubles     \* bound: errors and crashes

File == [name : Names, hash : Hashes]
Local == Zips \cup Foreign
Places == Local \cup Urls

ASSUME UpdaterAssumption ==
    /\ Zips \cap Foreign = {} /\ Local \cap Urls = {}
    /\ relOf \in [Urls -> Zips]
    \* Else, after a failed attempt, one url could be given the path of another's lost
    \* download.  Within an attempt each has a file of its own in the code too.
    /\ \A u, v \in Urls : relOf[u] = relOf[v] => u = v
    /\ \A t \in Targets, z \in Zips : \A i, j \in DOMAIN t[z] :
           t[z][i].name = t[z][j].name => i = j
    \* The servers provide all of every version.
    /\ \A t \in Targets, z \in Zips : \A f \in Range(t[z]) :
           \E u \in Urls : \E g \in Range(Remote[u]) : g.hash = f.hash
    /\ IsFiniteSet(Places)
    /\ Targets \subseteq [Zips -> Seq(File)] /\ Starts \subseteq [Local -> Seq(File)]
    /\ Remote \in [Urls -> Seq(File)]
    /\ Torn \notin Seq(File)
    /\ MaxTroubles \in Nat

VARIABLES
    zip, zipRepacked, zipReduced,   \* on disk: a zip, its __repacked__ and its
                    \* __reduced__; that of a url is its __download__
    pc,             \* the page, or how far the work has come
    at,             \* the zip being written or removed
    after,          \* what follows the cleaning
    target, exact,  \* _targetMani, and _updateType = SameCompressed
    localManifest,  \* what the last scan found
    provided,       \* _providedMani, without what is Nowhere
    managed,        \* _managedZips
    match,          \* _matches: where each target file is taken from
    packed,         \* target files whose match is in _repackedMani
    reducedMani, usedCnt, hashProvidedCnt, isRepacked, isReduced,   \* Repacker
    troubles,       \* spent bound
    made, had, complete     \* history: whether the plan was made for what is on disk
                    \* ("current"), or was until an attempt failed ("retried"), or not
                    \* ("outdated"); the hashes it found; whether its renames have begun

disk == <<zip, zipRepacked, zipReduced>>
plan == <<target, exact, localManifest, provided, managed, match>>
repacker == <<packed, reducedMani, usedCnt, hashProvidedCnt, isRepacked, isReduced>>
history == <<made, had, complete>>
vars == <<disk, pc, at, after, plan, repacker, troubles, history>>

\* The files of a version, each by its zip and position.
WantedBy(version) == UNION {{z} \X DOMAIN version[z] : z \in Zips}
Wanted == WantedBy(target)
WantedIn(z) == {w \in Wanted : w[1] = z}
Want(w) == target[w[1]][w[2]]

\* The manifest of a set of zips; from is where they are.
FilesOf(zips, places, location) ==
    UNION {{[place |-> p, pos |-> i, name |-> zips[p][i].name, hash |-> zips[p][i].hash,
             location |-> location] : i \in DOMAIN zips[p]} : p \in places}

\* The positions in ascending order: one sequence, if they are finitely many.
InOrder(positions) ==
    {order \in [1 .. Cardinality(positions) -> positions] :
        \A i, j \in DOMAIN order : i < j => order[i] < order[j]}

Absent == [p \in Places |-> <<>>]

Init ==
    /\ \E start \in Starts : zip = [p \in Places |-> IF p \in Urls THEN <<>> ELSE start[p]]
    /\ zipRepacked = Absent /\ zipReduced = Absent
    /\ pc = "settings" /\ at = Torn /\ after = "settings"
    /\ target = [z \in Zips |-> <<>>] /\ exact \in BOOLEAN
    /\ localManifest = {} /\ provided = {} /\ managed = {} /\ match = <<>>
    /\ packed = {} /\ reducedMani = {} /\ isRepacked = {} /\ isReduced = {}
    /\ usedCnt = <<>> /\ hashProvidedCnt = <<>>
    /\ troubles = 0 /\ made = "outdated" /\ had = {} /\ complete = FALSE

-----------------------------------------------------------------------------
(* The pages: settings, version, confirm, install.                         *)

\* cb_Settings_ButtonNext: DoClean, then the scan.
SettingsNext ==
    /\ pc = "settings"
    /\ pc' = "clean" /\ after' = "scan"
    /\ UNCHANGED <<disk, at, plan, repacker, troubles, history>>

\* ScanInstallDirectoryIfNecessary analyses the zips, or reads the manifest of the
\* last scan of just these.  A zip that cannot be opened is an error.
Scan ==
    /\ pc = "scan"
    /\ IF \E z \in Zips : zip[z] = Torn
       THEN pc' = "settings" /\ localManifest' = {}
       ELSE pc' = "version" /\ localManifest' = FilesOf(zip, Local, "Local")
    /\ UNCHANGED <<disk, at, after, target, exact, provided, managed, match, repacker,
                   troubles, history>>

\* DevelopPlan: local files at their place come first, then other local ones, then
\* what is on a server; the same position, the same zip and name decide ties.
Rank == [Inplace |-> 0, Local |-> 1, Remote |-> 2]
Score(file, w, want) ==
    10 * Rank[file.location] + 3
        - (IF file.pos = w[2] THEN 2 ELSE 0)
        - (IF /\ file.name = want.name
              /\ w[1] = (IF file.place \in Urls THEN relOf[file.place] ELSE file.place)
           THEN 1 ELSE 0)

Matches(file, want) ==
    IF exact THEN file.hash = want.hash
             ELSE contentsOf[file.hash] = contentsOf[want.hash]

Best(files, w, want) ==
    {f \in files : /\ Matches(f, want)
                   /\ \A g \in files : Matches(g, want) => Score(f, w, want) <= Score(g, w, want)}

\* RefreshVersionInfo: a new UpdateProcess for a version.  From the confirm page the
\* user comes back for another version without a scan.
Refresh(version) ==
    LET inplace(f) == \E i \in DOMAIN version[f.place] : version[f.place][i].name = f.name
        found == {[f EXCEPT !.location = IF f.place \in Zips /\ inplace(f)
                                         THEN "Inplace" ELSE "Local"] : f \in localManifest}
        files == found \cup FilesOf(Remote, Urls, "Remote")
        wanted == WantedBy(version)
        best == [w \in wanted |-> Best(files, w, version[w[1]][w[2]])]
    IN  /\ pc \in {"version", "confirm"}
        /\ pc' = "confirm"
        /\ target' = version
        /\ provided' = files
        /\ managed' = {z \in Zips : version[z] # <<>> \/ zip[z] # <<>>}
        /\ match' \in {m \in [wanted -> UNION Range(best)] : \A w \in wanted : m[w] \in best[w]}
        /\ packed' = {}
        /\ made' = IF (\A z \in Zips : zip[z] # Torn) /\ localManifest = FilesOf(zip, Local, "Local")
                   THEN "current" ELSE "outdated"
        /\ had' = {f.hash : f \in localManifest}
        /\ complete' = FALSE
        /\ UNCHANGED <<disk, at, after, exact, localManifest, reducedMani, usedCnt,
                       hashProvidedCnt, isRepacked, isReduced, troubles>>

\* cb_Confirm_ButtonBack.
Back ==
    /\ pc = "confirm"
    /\ pc' = "settings"
    /\ UNCHANGED <<disk, at, after, plan, repacker, troubles, history>>

\* The zips on servers that a match still refers to.
Needed == {match[w].place : w \in {v \in DOMAIN match : match[v].location = "Remote"}}

\* cb_Confirm_ButtonStart works with the UpdateProcess there is.  If an earlier
\* attempt has switched matches to its _repackedMani, they dangle: that ends in an
\* error or, as in Crash, at once.  Once RewriteProvidedManifest has cleared them,
\* CheckPreconditions throws.
Start ==
    /\ pc = "confirm"
    /\ IF packed # {} \/ DOMAIN match = {}
       THEN pc' = "clean" /\ after' = "confirm"
       ELSE pc' = (IF Needed = {} THEN "begin" ELSE "download") /\ UNCHANGED after
    /\ UNCHANGED <<disk, at, plan, repacker, troubles, history>>

-----------------------------------------------------------------------------
(* DownloadRemoteFiles.                                                    *)

\* All that is wanted of one url comes into one file, in the order it has there.
Fetch(u) ==
    /\ pc = "download" /\ u \in Needed /\ zip[u] = <<>>
    /\ zip' = [zip EXCEPT ![u] = Torn]
    /\ pc' = IF \A v \in Needed : zip'[v] = Torn THEN "verify" ELSE pc
    /\ UNCHANGED <<zipRepacked, zipReduced, at, after, plan, repacker, troubles, history>>

\* The central directory is added, every hash is verified, and the matches go over
\* to the new file, which belongs to the updater.
Verify(u) ==
    LET remote == {match[w] : w \in {v \in DOMAIN match : match[v].location = "Remote"
                                                          /\ match[v].place = u}}
    IN  /\ pc = "verify" /\ u \in Needed /\ zip[u] = Torn
        /\ \E order \in InOrder({f.pos : f \in remote}) :
            LET local(f) == [f EXCEPT !.pos = CHOOSE i \in DOMAIN order : order[i] = f.pos,
                                      !.location = "Local"]
            IN  /\ zip' = [zip EXCEPT ![u] = [i \in DOMAIN order |-> Remote[u][order[i]]]]
                /\ provided' = provided \cup {local(f) : f \in remote}
                /\ match' = [w \in DOMAIN match |-> IF match[w] \in remote THEN local(match[w])
                                                                          ELSE match[w]]
        /\ managed' = managed \cup {u}
        /\ pc' = IF Needed = {u} THEN "begin" ELSE pc
        /\ UNCHANGED <<zipRepacked, zipReduced, at, after, target, exact, localManifest,
                       repacker, troubles, history>>

-----------------------------------------------------------------------------
(* RepackZips.                                                             *)

LocalFiles == {f \in provided : f.location # "Remote"}
ProvidedIn(p) == {f \in LocalFiles : f.place = p}
UsedIn(p) == {w \in Wanted : match[w].place = p}

\* CheckPreconditions, ClassifyMatchesByTargetZip.
Begin ==
    /\ pc = "begin"
    /\ Range(match) \subseteq LocalFiles
    /\ pc' = "nopack"
    /\ usedCnt' = [p \in Places |-> Cardinality(UsedIn(p))]
    /\ hashProvidedCnt' = [h \in Hashes |-> Cardinality({f \in LocalFiles : f.hash = h})]
    /\ isRepacked' = {} /\ isReduced' = {} /\ packed' = {} /\ reducedMani' = {}
    /\ UNCHANGED <<disk, at, after, plan, troubles, history>>

\* The file a match promises can be read from its zip.
Readable(file) == zip[file.place] # Torn /\ file.pos \in DOMAIN zip[file.place]
OnDisk(file) == zip[file.place][file.pos]

\* A zip of the updater all of whose files make up just the zip dst, every one used
\* once, is not repacked but renamed.
Candidate(dst, src) ==
    /\ dst \notin isRepacked
    /\ WantedIn(dst) # {} /\ src \in managed
    /\ {match[w] : w \in WantedIn(dst)} = ProvidedIn(src)
    /\ Cardinality(ProvidedIn(src)) = Cardinality(WantedIn(dst))
    /\ usedCnt[src] = Cardinality(WantedIn(dst))

\* Mutant of SameHeaders: the names are not compared.
SameHeadersUnnamed(dst) ==
    \A w \in WantedIn(dst) : levelOf[OnDisk(match[w]).hash] = levelOf[Want(w).hash]

\* Names and headers are compared with those in the zip.
SameHeaders(dst) ==
    \A w \in WantedIn(dst) :
        LET file == OnDisk(match[w]) IN
        /\ file.name = Want(w).name
        /\ levelOf[file.hash] = levelOf[Want(w).hash]
        /\ contentsOf[file.hash] = contentsOf[Want(w).hash]

RenameUnpacked(dst, src) ==
    /\ pc = "nopack" /\ Candidate(dst, src)
    /\ \A f \in ProvidedIn(src) : Readable(f)
    /\ SameHeaders(dst)
    /\ zipRepacked' = [zipRepacked EXCEPT ![dst] = zip[src]]
    /\ zip' = [zip EXCEPT ![src] = <<>>]
    /\ isRepacked' = isRepacked \cup {dst} /\ isReduced' = isReduced \cup {src}
    /\ usedCnt' = [usedCnt EXCEPT ![src] = 0]
    /\ provided' = provided \ ProvidedIn(src)
    /\ match' = [w \in Wanted |-> IF w \in WantedIn(dst)
                                  THEN [match[w] EXCEPT !.location = "Repacked"] ELSE match[w]]
    /\ packed' = packed \cup WantedIn(dst)
    /\ UNCHANGED <<zipReduced, pc, at, after, target, exact, localManifest, managed,
                   reducedMani, hashProvidedCnt, troubles, history>>

Unpackable(dst, src) ==
    Candidate(dst, src) /\ (\A f \in ProvidedIn(src) : Readable(f)) /\ SameHeaders(dst)

ProcessedWithoutRepacking ==
    /\ pc = "nopack"
    /\ \A dst \in Zips, src \in Places : ~Unpackable(dst, src)
    /\ pc' = "reduce"
    /\ UNCHANGED <<disk, at, after, plan, repacker, troubles, history>>

\* Mutant of Reducible: files still to be copied do not count.
ReducibleAtOnce == managed \ isReduced

\* ReduceOldZips.  Of the files that no other zip provides one copy is kept in the
\* reduced zip; files the manifest does not know are dropped.
Reducible == {p \in managed \ isReduced : usedCnt[p] = 0}

Found(p) == {i \in DOMAIN zip[p] : \E f \in ProvidedIn(p) : f.pos = i}
HashAt(p, i) == (CHOOSE f \in ProvidedIn(p) : f.pos = i).hash
SameHash(p, i) == {j \in Found(p) : HashAt(p, j) = HashAt(p, i)}

\* Mutant of Kept: copies in the zip itself are taken for copies elsewhere.
KeptIfOnly(p) == {i \in Found(p) : hashProvidedCnt[HashAt(p, i)] = 1}

\* Going over the zip, copies are dropped until one is left.
Kept(p) ==
    {i \in Found(p) : Cardinality({j \in SameHash(p, i) : j <= i}) >= hashProvidedCnt[HashAt(p, i)]}

WriteReduced(p) ==
    LET dropped(h) == Cardinality({i \in Found(p) \ Kept(p) : HashAt(p, i) = h})
    IN  /\ pc = "reduce" /\ p \in Reducible
        /\ zip[p] \notin {<<>>, Torn}
        /\ hashProvidedCnt' = [h \in Hashes |-> hashProvidedCnt[h] - dropped(h)]
        /\ \E kept \in InOrder(Kept(p)) :
            /\ zipReduced' = [zipReduced EXCEPT ![p] = [i \in DOMAIN kept |-> zip[p][kept[i]]]]
            /\ reducedMani' = reducedMani \cup
                  {[place |-> p, pos |-> i, name |-> zip[p][kept[i]].name,
                    hash |-> HashAt(p, kept[i]), location |-> "Reduced"] : i \in DOMAIN kept}
        /\ pc' = "remove" /\ at' = p
        /\ UNCHANGED <<zip, zipRepacked, after, plan, packed, usedCnt, isRepacked, isReduced,
                       troubles, history>>

RemoveOld ==
    /\ pc = "remove"
    /\ zip' = [zip EXCEPT ![at] = <<>>]
    /\ provided' = provided \ ProvidedIn(at)
    /\ isReduced' = isReduced \cup {at}
    /\ pc' = "reduce" /\ at' = Torn
    /\ UNCHANGED <<zipRepacked, zipReduced, after, target, exact, localManifest, managed,
                   match, packed, reducedMani, usedCnt, hashProvidedCnt, isRepacked,
                   troubles, history>>

\* What is left to reduce does not exist.
Reduced ==
    /\ pc = "reduce"
    /\ \A p \in Reducible : zip[p] = <<>>
    /\ isReduced' = isReduced \cup Reducible
    /\ pc' = "pack"
    /\ UNCHANGED <<disk, at, after, plan, packed, reducedMani, usedCnt, hashProvidedCnt,
                   isRepacked, troubles, history>>

\* RepackZip creates the new zip; it is torn until it is closed.
ToRepack == {z \in Zips \ isRepacked : WantedIn(z) # {}}

OpenRepacked(z) ==
    /\ pc = "pack" /\ z \in ToRepack
    /\ zipRepacked' = [zipRepacked EXCEPT ![z] = Torn]
    /\ pc' = "packing" /\ at' = z
    /\ UNCHANGED <<zip, zipReduced, after, plan, repacker, troubles, history>>

\* minizipCopyFile: raw, or compressed again with the settings of the target.
Raw(w) ==
    \/ match[w].hash = Want(w).hash
    \/ ~exact /\ levelOf[OnDisk(match[w]).hash] = levelOf[Want(w).hash]

Copied(w) ==
    LET hash == OnDisk(match[w]).hash IN
    IF Raw(w) THEN {hash}
    ELSE {h \in Hashes : contentsOf[h] = contentsOf[hash] /\ levelOf[h] = levelOf[Want(w).hash]}

Sound(w) ==
    Readable(match[w]) /\ contentsOf[OnDisk(match[w]).hash] = contentsOf[Want(w).hash]

\* The files copied so far, up to the n-th.
Contents(n) ==
    {[i \in 1 .. n |-> [name |-> target[at][i].name, hash |-> out[i]]] :
        out \in {o \in [1 .. n -> Hashes] : \A i \in 1 .. n : o[i] \in Copied(<<at, i>>)}}

\* RepackZip closes the zip and AnalyzeRepackedZip validates what is in it.
Repack ==
    /\ pc = "packing"
    /\ \A w \in WantedIn(at) : Sound(w)
    /\ \E content \in Contents(Len(target[at])) :
        \* the compressed hash is computed only if it may have changed
        LET hash == [i \in DOMAIN content |-> IF Raw(<<at, i>>) THEN match[<<at, i>>].hash
                                                               ELSE content[i].hash]
        IN  /\ zipRepacked' = [zipRepacked EXCEPT ![at] = content]
            /\ match' = [w \in Wanted |->
                   IF w[1] # at THEN match[w]
                   ELSE [place |-> at, pos |-> w[2], name |-> Want(w).name,
                         hash |-> hash[w[2]], location |-> "Repacked"]]
            /\ hashProvidedCnt' = [h \in Hashes |-> hashProvidedCnt[h] +
                   Cardinality({i \in DOMAIN hash : hash[i] = h})]
    /\ usedCnt' = [p \in Places |-> usedCnt[p] - Cardinality(UsedIn(p) \cap WantedIn(at))]
    /\ packed' = packed \cup WantedIn(at)
    /\ isRepacked' = isRepacked \cup {at}
    /\ pc' = "reduce" /\ at' = Torn
    /\ UNCHANGED <<zip, zipReduced, after, target, exact, localManifest, provided, managed,
                   reducedMani, isReduced, troubles, history>>

Repacked ==
    /\ pc = "pack" /\ ToRepack = {}
    /\ pc' = "renames"
    /\ complete' = (made # "outdated")
    /\ UNCHANGED <<disk, at, after, plan, repacker, troubles, made, had>>

\* RenameRepackedZips.
ToRename == {z \in isRepacked \cap isReduced : zipRepacked[z] # <<>>}

Rename(z) ==
    /\ pc = "renames" /\ z \in ToRename
    /\ zip[z] = <<>>
    /\ zip' = [zip EXCEPT ![z] = zipRepacked[z]]
    /\ zipRepacked' = [zipRepacked EXCEPT ![z] = <<>>]
    /\ match' = [w \in Wanted |-> IF w \in WantedIn(z)
                     THEN [match[w] EXCEPT !.place = z, !.location = "Inplace"] ELSE match[w]]
    /\ UNCHANGED <<zipReduced, pc, at, after, target, exact, localManifest, provided,
                   managed, repacker, troubles, history>>

RewriteProvidedManifest ==
    /\ pc = "renames" /\ ToRename = {}
    /\ provided' = {match[w] : w \in packed} \cup reducedMani \cup provided
    /\ match' = <<>> /\ packed' = {} /\ reducedMani' = {}
    /\ usedCnt' = <<>> /\ hashProvidedCnt' = <<>> /\ isRepacked' = {} /\ isReduced' = {}
    /\ pc' = "finalize"
    /\ UNCHANGED <<disk, at, after, target, exact, localManifest, managed, troubles, history>>

\* PerformInstallFinalize saves the manifest of what is in place, cleans, and goes on
\* with what is not modelled.
Finalize ==
    /\ pc = "finalize"
    /\ pc' = "clean" /\ after' = "done"
    /\ UNCHANGED <<disk, at, plan, repacker, troubles, history>>

-----------------------------------------------------------------------------
(* DoClean goes over the files by their prefixes; one is renamed back if there *)
(* is no zip of its name.                                                   *)

Temporary == {p \in Places : zipReduced[p] # <<>> \/ zipRepacked[p] # <<>>
                             \/ (p \in Urls /\ zip[p] # <<>>)}

\* Mutant of CleanRepacked: it is deleted like a reduced zip.
CleanRepackedAway(p) ==
    /\ pc = "clean" /\ zipRepacked[p] # <<>>
    /\ zipRepacked' = [zipRepacked EXCEPT ![p] = <<>>]
    /\ UNCHANGED <<zip, zipReduced, pc, at, after, plan, repacker, troubles, history>>

CleanRepacked(p) ==
    /\ pc = "clean" /\ zipRepacked[p] # <<>>
    /\ zipRepacked' = [zipRepacked EXCEPT ![p] = <<>>]
    /\ zip' = IF zip[p] = <<>> THEN [zip EXCEPT ![p] = zipRepacked[p]] ELSE zip
    /\ UNCHANGED <<zipReduced, pc, at, after, plan, repacker, troubles, history>>

CleanReduced(p) ==
    /\ pc = "clean" /\ zipReduced[p] # <<>>
    /\ zipReduced' = [zipReduced EXCEPT ![p] = <<>>]
    /\ UNCHANGED <<zip, zipRepacked, pc, at, after, plan, repacker, troubles, history>>

CleanDownload(u) ==
    /\ pc = "clean" /\ zip[u] # <<>>
    /\ zip' = [zip EXCEPT ![u] = <<>>]
    /\ UNCHANGED <<zipRepacked, zipReduced, pc, at, after, plan, repacker, troubles, history>>

Cleaned ==
    /\ pc = "clean" /\ Temporary = {}
    /\ pc' = after
    /\ UNCHANGED <<disk, at, after, plan, repacker, troubles, history>>

-----------------------------------------------------------------------------
(* Errors and crashes.                                                     *)

Working == {"download", "verify", "begin", "nopack", "reduce", "remove", "pack", "packing",
            "renames", "finalize"}

\* The code itself finds that it cannot go on.
Throwing ==
    \/ /\ pc = "nopack"
       /\ \E dst \in Zips, src \in Places :
              Candidate(dst, src) /\ ~(\A f \in ProvidedIn(src) : Readable(f))
    \/ pc = "reduce" /\ \E p \in Reducible : zip[p] = Torn
    \/ /\ pc = "packing"
       /\ \E w \in WantedIn(at) : ~Sound(w)
    \/ pc = "renames" /\ \E z \in ToRename : zip[z] # <<>>

\* Closed by its destructor, the zip being packed holds what was copied so far.
HalfPacked ==
    {Torn} \cup UNION {Contents(n) : n \in {k \in 1 .. Len(target[at]) :
                                                \A i \in 1 .. k : Readable(match[<<at, i>>])}}

\* Install_MetaPerformInstall catches the exception, cleans, and shows the confirm
\* page with the UpdateProcess as it was left.
Unwind ==
    /\ IF pc = "packing"
       THEN \E content \in HalfPacked : zipRepacked' = [zipRepacked EXCEPT ![at] = content]
       ELSE UNCHANGED zipRepacked
    /\ pc' = "clean" /\ after' = "confirm" /\ at' = Torn
    /\ reducedMani' = {} /\ isRepacked' = {} /\ isReduced' = {}
    /\ usedCnt' = <<>> /\ hashProvidedCnt' = <<>>
    /\ made' = IF made = "current" THEN "retried" ELSE made
    /\ UNCHANGED <<zip, zipReduced, plan, packed, had, complete>>

Throw == Throwing /\ Unwind /\ UNCHANGED troubles

\* The disk is full, the server does not answer, a hash is wrong, the user cancels.
Error ==
    /\ pc \in Working \/ (pc = "clean" /\ after = "done")
    /\ troubles < MaxTroubles
    /\ troubles' = troubles + 1
    /\ Unwind

\* The process ends where it is; what is being packed stays torn.
Crash ==
    /\ pc \notin {"settings", "done"} /\ troubles < MaxTroubles
    /\ troubles' = troubles + 1
    /\ pc' = "settings" /\ after' = "settings" /\ at' = Torn
    /\ localManifest' = {} /\ provided' = {} /\ managed' = {} /\ match' = <<>>
    /\ packed' = {} /\ reducedMani' = {} /\ isRepacked' = {} /\ isReduced' = {}
    /\ usedCnt' = <<>> /\ hashProvidedCnt' = <<>>
    /\ made' = "outdated"
    /\ UNCHANGED <<disk, target, exact, had, complete>>

Done == pc = "done" /\ UNCHANGED vars

Next ==
    \/ SettingsNext \/ Scan \/ Back \/ Start
    \/ \E version \in Targets : Refresh(version)
    \/ \E u \in Urls : Fetch(u) \/ Verify(u) \/ CleanDownload(u)
    \/ Begin \/ ProcessedWithoutRepacking
    \/ \E dst \in Zips, src \in Places : RenameUnpacked(dst, src)
    \/ \E p \in Places : WriteReduced(p) \/ CleanReduced(p)
    \/ RemoveOld \/ Reduced
    \/ \E z \in Zips : OpenRepacked(z) \/ Rename(z) \/ CleanRepacked(z)
    \/ Repack \/ Repacked \/ RewriteProvidedManifest \/ Finalize
    \/ Cleaned \/ Throw \/ Error \/ Crash \/ Done

Spec == Init /\ [][Next]_vars

-----------------------------------------------------------------------------
(* What it promises.                                                       *)

TypeOK ==
    /\ \A p \in Places : /\ zip[p] = Torn \/ zip[p] \in Seq(File)
                         /\ zipRepacked[p] = Torn \/ zipRepacked[p] \in Seq(File)
                         /\ zipReduced[p] \in Seq(File)
    /\ pc \in Working \cup {"settings", "scan", "version", "confirm", "clean", "done"}
    /\ at \in Places \cup {Torn}

Same(files, want) ==
    /\ files # Torn
    /\ DOMAIN files = DOMAIN want
    /\ \A g \in Range(want) : \E f \in Range(files) :
           /\ f.name = g.name
           /\ IF exact THEN f.hash = g.hash
              ELSE contentsOf[f.hash] = contentsOf[g.hash] /\ levelOf[f.hash] = levelOf[g.hash]

Installed == \A z \in Zips : Same(zip[z], target[z])

\* As long as nothing fails from outside, a plan made for what is on disk can be
\* carried out: no file is removed or renamed while it is still to be copied, and no
\* repacked zip is left behind at the end (ZipSync.cpp, 177: "number of provided files
\* in this zip still needed in future").
PlanHolds ==
    made = "current" =>
        /\ ~Throwing
        /\ pc = "renames" => packed = Wanted /\ managed \subseteq isReduced

\* Updating loses nothing: what was there before it is in some zip at any time, if one
\* counts the reduced ones (Fuzzer.cpp, 222: "all files previously available are still
\* available, if we take reduced zips into account").
Available ==
    LET whole(zips) == {p \in Places : zips[p] # Torn}
        hashes(zips) == UNION {{f.hash : f \in Range(zips[p])} : p \in whole(zips)}
    IN  hashes(zip) \cup hashes(zipRepacked) \cup hashes(zipReduced)

NothingLost ==
    made = "current" /\ pc \in Working => had \subseteq Available

\* In the end the zips are those of the target, also when the plan is retried after a
\* failed attempt, and without one the manifest describes exactly what there is
\* (Fuzzer.cpp, 205 and 216).
OutputIsRight ==
    pc = "finalize" =>
        /\ made # "outdated" => Installed
        /\ made = "current" =>
               {[f EXCEPT !.location = "Local"] : f \in LocalFiles} =
                   FilesOf(zip, Places, "Local") \cup FilesOf(zipReduced, Places, "Local")

\* Once everything is repacked and the old zips are gone, neither an error nor a crash
\* can undo the update: cleaning finishes the renames.
CrashRecovered ==
    complete /\ pc \in {"settings", "scan", "version", "confirm"} /\ Temporary = {} => Installed
=============================================================================
