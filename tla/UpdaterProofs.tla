----------------------------- MODULE UpdaterProofs -----------------------------
(***************************************************************************)
(* Proofs about Updater, for any zips, servers, versions and installations   *)
(* and any number of errors and crashes.  Two inductive invariants: Inv, on   *)
(* what the lists and counters of the update process say of the disk, and    *)
(* CopyInv on top of it, the number of copies of each file.  There is one     *)
(* lemma for each action, and under it one step for each part of Inv.        *)
(***************************************************************************)
EXTENDS Updater, FiniteSetTheorems, SequenceTheorems, TLAPS

-----------------------------------------------------------------------------
(* The inductive invariants.                                               *)

Locations == {"Inplace", "Local", "Remote", "Repacked", "Reduced"}
FileInfo == [place : Places, pos : Nat, name : Names, hash : Hashes, location : Locations]
Contentful == Seq(File) \cup {Torn}

\* How far the work has come: RepackZips, before its renames, and all until then.
Repacking == {"nopack", "reduce", "remove", "pack", "packing", "renames"}
Sorting == Repacking \ {"renames"}
Early == {"download", "verify", "begin"} \cup Sorting
Planned == DOMAIN match # {}

\* A list of files that says of a zip what is in it, every file once.
Lists(files, content) ==
    /\ content \in Seq(File)
    /\ \A f \in files : /\ f.pos \in DOMAIN content
                        /\ content[f.pos].name = f.name /\ content[f.pos].hash = f.hash
    /\ \A i \in DOMAIN content : \E f \in files : f.pos = i
    /\ \A f, g \in files : f.pos = g.pos => f = g

\* The types, and what belongs to which page.
Types ==
    /\ zip \in [Places -> Contentful] /\ zipRepacked \in [Places -> Contentful]
    /\ zipReduced \in [Places -> Seq(File)] /\ \A p \in Foreign : zip[p] \in Seq(File)
    /\ pc \in Working \cup {"settings", "scan", "version", "confirm", "clean", "done"}
    /\ after \in {"settings", "scan", "confirm", "done"}
    /\ at \in Places \cup {Torn}
    /\ target \in [Zips -> Seq(File)] /\ exact \in BOOLEAN
    /\ localManifest \subseteq FileInfo /\ provided \subseteq FileInfo
    /\ managed \subseteq Zips \cup Urls /\ packed \subseteq Wanted
    /\ isRepacked \subseteq Zips /\ isReduced \subseteq managed
    /\ pc \notin Repacking => isReduced = {}
    /\ reducedMani \subseteq FileInfo
    /\ \A f \in reducedMani : f.location = "Reduced"
    /\ made \in {"current", "retried", "outdated"} /\ complete \in BOOLEAN /\ had \subseteq Hashes
    /\ Planned => match \in [Wanted -> FileInfo]
    /\ pc \in Early \cup {"renames"} => Planned
    /\ \A f \in localManifest : f.location = "Local" /\ f.place \in Local

\* What a plan is worth, whatever becomes of the zips.
PlanFits ==
    Planned =>
        /\ \A w \in Wanted : /\ exact => match[w].hash = Want(w).hash
                             /\ contentsOf[match[w].hash] = contentsOf[Want(w).hash]
        /\ \A w \in Wanted : match[w].location = "Remote" =>
              /\ match[w].place \in Urls /\ match[w].pos \in DOMAIN Remote[match[w].place]
              /\ Remote[match[w].place][match[w].pos].name = match[w].name
              /\ Remote[match[w].place][match[w].pos].hash = match[w].hash
              /\ ProvidedIn(match[w].place) = {}
        /\ \A z \in Zips : target[z] # <<>> => z \in managed

\* The counters of the Repacker: what is packed, and what is still to be copied.
Counted ==
    /\ pc \in {"download", "verify", "begin"} => packed = {}
    /\ pc \in Repacking =>
        /\ packed = {w \in Wanted : w[1] \in isRepacked}
        /\ \A z \in isRepacked : WantedIn(z) # {}
        /\ \A w \in Wanted \ packed : match[w] \in LocalFiles
        /\ usedCnt \in [Places -> Nat]
        /\ \A p \in Places : usedCnt[p] = Cardinality(UsedIn(p) \ packed)
    /\ pc = "remove" => at \in Reducible
    /\ pc = "pack" => Reducible = {}
    /\ pc = "packing" => at \in ToRepack
    /\ pc = "renames" => packed = Wanted /\ managed \subseteq isReduced

\* Removed zips are gone; temporary zips are where they should be.
Tidy ==
    /\ pc \in Sorting => \A p \in isReduced : zip[p] = <<>>
    /\ pc = "renames" => \A p \in isReduced : zip[p] = <<>> \/ (p \in isRepacked /\ zipRepacked[p] = <<>>)
    /\ \A u \in Urls : zipRepacked[u] = <<>>
    /\ pc \in {"download", "verify", "begin"} => zipRepacked = Absent /\ zipReduced = Absent
    /\ pc \in {"scan", "version", "confirm", "done"} => Temporary = {}
    /\ made = "current" /\ Planned /\ pc \notin Working => Temporary = {}
    /\ pc \in Repacking => \A z \in Zips \ isRepacked :
           zipRepacked[z] = <<>> \/ (pc = "packing" /\ at = z)

\* The plan of an attempt that can still be made, or is under way.
Usable == made # "outdated" /\ Planned /\ (pc \in Early \/ packed = {})

\* The list of provided files of a zip is that of what is in it, or nothing is left of it.
Mirror ==
    Usable =>
        /\ \A z \in Zips : zip[z] # <<>> \/ zipRepacked[z] # <<>> => z \in managed
        /\ \A p \in Places : \/ ProvidedIn(p) = {}
                             \/ p \in Urls /\ zip[p] = <<>>
                             \/ Lists(ProvidedIn(p), zip[p])

\* As long as nothing has failed, nothing is missing from the lists.
TrueMirror ==
    Usable /\ made = "current" =>
        \A p \in Places : \/ Lists(ProvidedIn(p), zip[p])
                          \/ /\ pc \in {"download", "verify"} /\ p \in Needed
                             /\ zip[p] = Torn /\ ProvidedIn(p) = {}

\* Same, of either kind of update.
SameIf(exactly, files, want) ==
    /\ files # Torn
    /\ DOMAIN files = DOMAIN want
    /\ \A g \in Range(want) : \E f \in Range(files) :
           /\ f.name = g.name
           /\ IF exactly THEN f.hash = g.hash
              ELSE contentsOf[f.hash] = contentsOf[g.hash] /\ levelOf[f.hash] = levelOf[g.hash]

\* The zip, under its name or its temporary one.
NowIn(z) == IF zip[z] = <<>> THEN zipRepacked[z] ELSE zip[z]

\* What is repacked is what was wanted.
RepackedRight ==
    pc \in Sorting /\ made # "outdated" => \A z \in isRepacked : SameIf(exact, zipRepacked[z], target[z])

\* From the last repacked zip on, the target is on disk and stays there.
Finished ==
    /\ complete =>
        /\ \A z \in Zips : /\ zip[z] = <<>> \/ zipRepacked[z] = <<>>
                           /\ SameIf(exact, NowIn(z), target[z])
        /\ pc \notin Early
        /\ pc # "renames" => packed # {} \/ ~Planned
    /\ pc \in {"renames", "finalize"} => complete = (made # "outdated")
    /\ pc = "finalize" => ~Planned
    /\ complete /\ pc = "finalize" => \A z \in Zips : SameIf(exact, zip[z], target[z])

\* At the end: what the lists say.
Listed ==
    pc \in Repacking /\ made = "current" =>
        /\ \A p \in Places : IF p \in isReduced THEN ProvidedIn(p) = {}
                                                ELSE Lists(ProvidedIn(p), zip[p])
        /\ \A p \in Places : Lists({f \in reducedMani : f.place = p}, zipReduced[p])
        /\ \A p \in Places \ isReduced : zipReduced[p] = <<>> \/ (pc = "remove" /\ at = p)
        /\ \A z \in isRepacked : Lists({match[w] : w \in WantedIn(z)},
                                       IF pc = "renames" THEN NowIn(z) ELSE zipRepacked[z])

\* What the properties need of a state to hold after the next step.
Inv ==
    /\ Types /\ PlanFits /\ Counted /\ Tidy /\ Mirror /\ TrueMirror
    /\ RepackedRight /\ Finished /\ Listed

\* Where the lists say that it is.
Placed ==
    /\ pc \in Repacking /\ made = "current" =>
        /\ \A w \in packed : match[w].location \in {"Repacked", "Inplace"}
        /\ pc = "renames" => \A w \in packed : zipRepacked[w[1]] = <<>> => match[w].place = w[1]
    /\ pc = "finalize" /\ made = "current" =>
        {[f EXCEPT !.location = "Local"] : f \in LocalFiles} =
            FilesOf(zip, Places, "Local") \cup FilesOf(zipReduced, Places, "Local")

\* The copies of a hash: in the zips, except one that is about to go, in the repacked
\* zips and in the reduced ones.
ZipCopies(h) == {f \in LocalFiles : f.hash = h /\ ~(pc = "remove" /\ f.place = at)}
PackedCopies(h) == {w \in packed : match[w].hash = h}
ReducedCopies(h) == {f \in reducedMani : f.hash = h}

Finite == IsFiniteSet(localManifest) /\ IsFiniteSet(provided) /\ IsFiniteSet(reducedMani)

\* Of everything there was there is a copy.
CopyLeft ==
    made = "current" =>
        /\ Planned /\ pc \notin Repacking => \A h \in had : \E f \in LocalFiles : f.hash = h
        /\ pc \in Repacking =>
              /\ \A h \in Hashes : hashProvidedCnt[h] =
                    Cardinality(ZipCopies(h)) + Cardinality(PackedCopies(h)) + Cardinality(ReducedCopies(h))
              /\ \A h \in had : hashProvidedCnt[h] > 0
        /\ pc = "finalize" => had \subseteq Available

\* What NothingLost needs besides.
CopyInv == Finite /\ Placed /\ CopyLeft
-----------------------------------------------------------------------------
(* The files of a version, and lists of files.                             *)

LEMMA WantedFacts ==
    ASSUME target \in [Zips -> Seq(File)]
    PROVE  /\ \A z \in Zips : \A i \in DOMAIN target[z] : <<z, i>> \in Wanted
           /\ \A w \in Wanted : /\ w[1] \in Zips /\ w[2] \in DOMAIN target[w[1]]
                                /\ w = <<w[1], w[2]>> /\ Want(w) \in File
           /\ \A z \in Zips : WantedIn(z) = {<<z, i>> : i \in DOMAIN target[z]}
           /\ \A z \in Zips : WantedIn(z) = {} <=> target[z] = <<>>
           /\ IsFiniteSet(Wanted)
<1>1. \A z \in Zips : \A i \in DOMAIN target[z] : <<z, i>> \in Wanted
    BY DEF Wanted, WantedBy
<1>2. ASSUME NEW w \in Wanted
      PROVE  w[1] \in Zips /\ w[2] \in DOMAIN target[w[1]] /\ w = <<w[1], w[2]>> /\ Want(w) \in File
    <2>1. PICK z \in Zips : w \in {z} \X DOMAIN target[z]
        BY DEF Wanted, WantedBy
    <2>2. target[z] \in Seq(File)
        OBVIOUS
    <2> QED BY <2>1, <2>2 DEF Want
<1>3. ASSUME NEW z \in Zips
      PROVE  /\ WantedIn(z) = {<<z, i>> : i \in DOMAIN target[z]}
             /\ WantedIn(z) = {} <=> target[z] = <<>>
    <2>1. WantedIn(z) = {<<z, i>> : i \in DOMAIN target[z]}
        BY <1>1, <1>2 DEF WantedIn
    <2>2. target[z] \in Seq(File)
        OBVIOUS
    <2>3. \A content \in Seq(File) : content = <<>> <=> DOMAIN content = {}
        OBVIOUS
    <2>4. target[z] = <<>> <=> DOMAIN target[z] = {}
        BY <2>2, <2>3
    <2> QED BY <2>1, <2>4
<1>4. IsFiniteSet(Wanted)
    <2> DEFINE part == [z \in Zips |-> {z} \X DOMAIN target[z]]
               parts == {{z} \X DOMAIN target[z] : z \in Zips}
    <2>1. IsFiniteSet(Zips)
        BY UpdaterAssumption, FS_Subset, Zips \in SUBSET Places DEF Places, Local
    <2>2. part \in Surjection(Zips, parts)
        BY DEF Surjection
    <2>3. IsFiniteSet(parts)
        BY <2>1, <2>2, FS_Surjection
    <2>4. ASSUME NEW s \in parts PROVE IsFiniteSet(s)
        <3>1. PICK z \in Zips : s = {z} \X DOMAIN target[z]
            OBVIOUS
        <3>2. target[z] \in Seq(File) /\ DOMAIN target[z] = 1 .. Len(target[z]) /\ Len(target[z]) \in Int
            OBVIOUS
        <3>3. IsFiniteSet(DOMAIN target[z])
            BY <3>2, FS_Interval
        <3> QED BY <3>1, <3>3, FS_Singleton, FS_Product
    <2> QED BY <2>3, <2>4, FS_UNION DEF Wanted, WantedBy
<1> QED BY <1>1, <1>2, <1>3, <1>4

LEMMA PlacesFacts ==
    /\ Zips \subseteq Places /\ Urls \subseteq Places /\ Local \subseteq Places
    /\ Zips \cap Urls = {} /\ Places = Local \cup Urls /\ Zips \subseteq Local
BY UpdaterAssumption DEF Places, Local

LEMMA ListsEmpty ==
    /\ Lists({}, <<>>)
    /\ \A content : Lists({}, content) => content = <<>>
    /\ \A files : Lists(files, <<>>) => files = {}
<1>1. \A content \in Seq(File) : content = <<>> <=> DOMAIN content = {}
    OBVIOUS
<1>2. <<>> \in Seq(File) /\ DOMAIN <<>> = {}
    OBVIOUS
<1>3. Lists({}, <<>>)
    BY <1>2 DEF Lists
<1>4. ASSUME NEW content, Lists({}, content) PROVE content = <<>>
    <2>1. content \in Seq(File) /\ DOMAIN content = {}
        BY <1>4 DEF Lists
    <2> QED BY <1>1, <2>1
<1>5. ASSUME NEW files, Lists(files, <<>>) PROVE files = {}
    <2>1. \A f \in files : f.pos \in DOMAIN <<>>
        BY <1>5, Zenon DEF Lists
    <2> QED BY <1>2, <2>1
<1> QED BY <1>3, <1>4, <1>5

LEMMA TornFacts ==
    /\ Torn # <<>> /\ Torn \notin Seq(File) /\ <<>> \in Seq(File)
    /\ \A files : ~Lists(files, Torn)
    /\ \A content \in Contentful : content # Torn => content \in Seq(File)
<1>1. <<>> \in Seq(File)
    OBVIOUS
<1> QED BY <1>1, UpdaterAssumption DEF Lists, Contentful

LEMMA SameFacts ==
    /\ \A files, want : Same(files, want) <=> SameIf(exact, files, want)
    /\ \A e : SameIf(e, <<>>, <<>>)
    /\ \A e : \A want \in Seq(File) : SameIf(e, <<>>, want) => want = <<>>
    /\ \A e, want : ~SameIf(e, Torn, want)
<1>1. \A want \in Seq(File) : DOMAIN want = {} => want = <<>>
    OBVIOUS
<1> QED BY <1>1, TornFacts DEF Same, SameIf, Range

-----------------------------------------------------------------------------
LEMMA InitInv == Init => Inv
<1> SUFFICES ASSUME Init PROVE Inv
    OBVIOUS
<1>1. zip \in [Places -> Seq(File)] /\ \A u \in Urls : zip[u] = <<>>
    <2>1. PICK start \in Starts : zip = [p \in Places |-> IF p \in Urls THEN <<>> ELSE start[p]]
        BY DEF Init
    <2>2. start \in [Local -> Seq(File)]
        BY UpdaterAssumption
    <2> QED BY <2>1, <2>2, PlacesFacts, TornFacts
<1>0. Foreign \subseteq Places
    BY DEF Places, Local
<1>2. target \in [Zips -> Seq(File)] /\ Absent \in [Places -> Seq(File)] /\ \A p \in Places : Absent[p] = <<>>
    BY TornFacts DEF Init, Absent
<1>3. ~Planned /\ pc = "settings" /\ made = "outdated" /\ complete = FALSE
    BY DEF Init, Planned
<1>4. Types
    BY <1>0, <1>1, <1>2, <1>3 DEF Init, Types, Contentful, Early, Sorting, Repacking
<1>5. PlanFits /\ Mirror /\ TrueMirror /\ RepackedRight /\ Finished /\ Listed
    BY <1>3 DEF PlanFits, Mirror, TrueMirror, Usable, RepackedRight, Finished, Listed, Sorting, Repacking
<1>6. Counted /\ Tidy
    BY <1>2, <1>3, PlacesFacts DEF Init, Counted, Tidy, Sorting, Repacking, Working
<1> QED BY <1>4, <1>5, <1>6 DEF Inv

-----------------------------------------------------------------------------
(* The pages.                                                              *)

\* The parts of the invariant that do not speak of pc.
LEMMA PageStep ==
    ASSUME Inv,
           UNCHANGED <<disk, target, exact, provided, managed, match, repacker, history>>,
           Types', pc \notin Working, pc' \notin Working \ {"download", "begin"},
           pc' \in {"download", "begin"} => pc = "confirm" /\ packed = {} /\ Planned,
           pc' \in {"scan", "version", "confirm", "done"} => Temporary = {}
    PROVE  Inv'
<1> USE DEF disk, repacker, history
<1>1. Planned' = Planned /\ Wanted' = Wanted /\ (\A p : ProvidedIn(p)' = ProvidedIn(p))
      /\ Temporary' = Temporary /\ (\A w : Want(w)' = Want(w)) /\ (\A z : NowIn(z)' = NowIn(z))
    BY DEF Planned, Wanted, ProvidedIn, LocalFiles, Temporary, Want, NowIn
<1>2. PlanFits'
    BY <1>1 DEF Inv, PlanFits
<1>3. Counted'
    BY DEF Inv, Counted, Repacking, Working
<1>4. Tidy'
    <2>1. pc' \in {"download", "begin"} => zipRepacked' = Absent /\ zipReduced' = Absent
        <3>1. pc' \in {"download", "begin"} =>
                 \A p \in Places : zipRepacked[p] = <<>> /\ zipReduced[p] = <<>>
            BY DEF Inv, Tidy, Temporary
        <3> QED BY <3>1 DEF Inv, Types, Absent
    <2> QED BY <1>1, <2>1 DEF Inv, Tidy, Sorting, Repacking, Working
<1>5. Usable' => Usable
    BY <1>1 DEF Usable, Early, Sorting, Repacking, Working
<1>6. Mirror'
    BY <1>1, <1>5 DEF Inv, Mirror
<1>7. TrueMirror'
    BY <1>1, <1>5 DEF Inv, TrueMirror, Working
<1>8. RepackedRight' /\ Listed'
    BY DEF RepackedRight, Listed, Sorting, Repacking, Working
<1>9. Finished'
    BY <1>1 DEF Inv, Finished, Early, Sorting, Repacking, Working
<1> QED BY <1>2, <1>3, <1>4, <1>6, <1>7, <1>8, <1>9 DEF Inv

LEMMA PagesTurn ==
    ASSUME Inv, SettingsNext \/ Back \/ Start \/ Cleaned \/ Done
    PROVE  Inv'
<1> USE DEF Working
<1>1. CASE SettingsNext
    <2>1. Types'
        BY <1>1 DEF SettingsNext, Inv, Types, disk, plan, repacker, history, Wanted, Planned, Early, Sorting, Repacking
    <2> QED BY <1>1, <2>1, PageStep DEF SettingsNext, plan
<1>2. CASE Back
    <2>1. Types'
        BY <1>2 DEF Back, Inv, Types, disk, plan, repacker, history, Wanted, Planned, Early, Sorting, Repacking
    <2> QED BY <1>2, <2>1, PageStep DEF Back, plan
<1>3. CASE Start
    <2>1. pc' = "clean" \/ (pc' \in {"begin", "download"} /\ packed = {} /\ Planned)
        BY <1>3 DEF Start, Planned
    <2>2. Types'
        BY <1>3, <2>1 DEF Start, Inv, Types, disk, plan, repacker, history, Wanted, Planned, Early, Sorting, Repacking
    <2> QED BY <1>3, <2>1, <2>2, PageStep DEF Start, plan
<1>4. CASE Cleaned
    <2>1. Types' /\ pc' \in {"settings", "scan", "confirm", "done"}
        BY <1>4 DEF Cleaned, Inv, Types, disk, plan, repacker, history, Wanted, Planned, Early, Sorting, Repacking
    <2> QED BY <1>4, <2>1, PageStep DEF Cleaned, plan
<1>5. CASE Done
    <2>1. Types'
        BY <1>5 DEF Done, Inv, Types, disk, plan, repacker, history, Wanted, Planned, vars
    <2>2. pc = "done" /\ Temporary = {}
        BY <1>5 DEF Done, Inv, Tidy
    <2> QED BY <1>5, <2>1, <2>2, PageStep DEF Done, vars, plan
<1> QED BY <1>1, <1>2, <1>3, <1>4, <1>5

\* A manifest that lists the files of the zips.
Describes(files, zips, places, location) ==
    /\ files \subseteq FileInfo
    /\ \A f \in files :
          /\ f.place \in places /\ f.location = location /\ f.pos \in DOMAIN zips[f.place]
          /\ zips[f.place][f.pos].name = f.name /\ zips[f.place][f.pos].hash = f.hash
    /\ \A p \in places : \A i \in DOMAIN zips[p] : \E f \in files : f.place = p /\ f.pos = i

LEMMA FilesOfFacts ==
    ASSUME NEW zips, NEW places \in SUBSET Places, \A p \in places : zips[p] \in Seq(File),
           NEW location \in Locations
    PROVE  Describes(FilesOf(zips, places, location), zips, places, location)
<1>1. ASSUME NEW p \in places, NEW i \in DOMAIN zips[p]
      PROVE  zips[p][i] \in File /\ i \in Nat
    <2>1. zips[p] \in Seq(File)
        OBVIOUS
    <2>2. zips[p][i] \in File /\ i \in Nat
        BY <2>1
    <2> QED BY <2>2
<1>2. ASSUME NEW f \in FilesOf(zips, places, location)
      PROVE  \E p \in places : \E i \in DOMAIN zips[p] :
                f = [place |-> p, pos |-> i, name |-> zips[p][i].name, hash |-> zips[p][i].hash,
                     location |-> location]
    BY DEF FilesOf
<1>3. ASSUME NEW p \in places, NEW i \in DOMAIN zips[p]
      PROVE  [place |-> p, pos |-> i, name |-> zips[p][i].name, hash |-> zips[p][i].hash,
              location |-> location] \in FilesOf(zips, places, location)
    BY DEF FilesOf
<1>4. ASSUME NEW f \in FilesOf(zips, places, location)
      PROVE  /\ f \in FileInfo
             /\ f.place \in places /\ f.location = location /\ f.pos \in DOMAIN zips[f.place]
             /\ zips[f.place][f.pos].name = f.name /\ zips[f.place][f.pos].hash = f.hash
    <2>1. PICK p \in places : \E i \in DOMAIN zips[p] :
                f = [place |-> p, pos |-> i, name |-> zips[p][i].name, hash |-> zips[p][i].hash,
                     location |-> location]
        BY <1>2
    <2>2. PICK i \in DOMAIN zips[p] :
                f = [place |-> p, pos |-> i, name |-> zips[p][i].name, hash |-> zips[p][i].hash,
                     location |-> location]
        BY <2>1
    <2>3. zips[p][i] \in File /\ i \in Nat
        BY <1>1
    <2> QED BY <1>1, <2>2, <2>3 DEF FileInfo, File
<1>5. ASSUME NEW p \in places, NEW i \in DOMAIN zips[p]
      PROVE  \E f \in FilesOf(zips, places, location) : f.place = p /\ f.pos = i
    BY <1>3
<1> QED BY <1>4, <1>5 DEF Describes

LEMMA LocalManifest ==
    ASSUME \A p \in Local : zip[p] \in Seq(File)
    PROVE  Describes(FilesOf(zip, Local, "Local"), zip, Local, "Local")
<1>1. Local \in SUBSET Places /\ "Local" \in Locations
    BY PlacesFacts DEF Locations
<1> QED BY <1>1, FilesOfFacts, Zenon

LEMMA RemoteManifest == Describes(FilesOf(Remote, Urls, "Remote"), Remote, Urls, "Remote")
<1>1. Urls \in SUBSET Places /\ (\A u \in Urls : Remote[u] \in Seq(File)) /\ "Remote" \in Locations
    BY PlacesFacts, UpdaterAssumption DEF Locations
<1> QED BY <1>1, FilesOfFacts, Zenon

LEMMA ScanStep == ASSUME Inv, Scan PROVE Inv'
<1>2. localManifest' \subseteq FileInfo /\ \A f \in localManifest' : f.location = "Local" /\ f.place \in Local
    <2>1. CASE \E z \in Zips : zip[z] = Torn
        BY <2>1 DEF Scan
    <2>2. CASE ~ \E z \in Zips : zip[z] = Torn
        <3>1. \A p \in Local : zip[p] \in Seq(File)
            BY <2>2, PlacesFacts DEF Inv, Types, Contentful, Local
        <3>2. localManifest' = FilesOf(zip, Local, "Local")
            BY <2>2 DEF Scan
        <3>3. /\ FilesOf(zip, Local, "Local") \subseteq FileInfo
              /\ \A f \in FilesOf(zip, Local, "Local") : f.location = "Local" /\ f.place \in Local
            BY <3>1, LocalManifest DEF Describes
        <3> QED BY <3>2, <3>3
    <2> QED BY <2>1, <2>2
<1>3. Types' /\ pc' \in {"settings", "version"} /\ pc = "scan"
    BY <1>2 DEF Scan, Inv, Types, disk, repacker, history, Wanted, Planned, Early, Sorting, Repacking, Working
<1>4. Temporary = {}
    BY <1>3 DEF Inv, Tidy
<1> QED BY <1>3, <1>4, PageStep DEF Scan, Working

-----------------------------------------------------------------------------
(* The plan.                                                               *)

\* The best matches are matches.
LEMMA BestFacts ==
    ASSUME NEW files, NEW w, NEW want
    PROVE  \A f \in Best(files, w, want) : f \in files /\ Matches(f, want)
BY DEF Best

LEMMA RefreshStep == ASSUME Inv, NEW version \in Targets, Refresh(version) PROVE Inv'
<1> DEFINE inplace(f) == \E i \in DOMAIN version[f.place] : version[f.place][i].name = f.name
           found == {[f EXCEPT !.location = IF f.place \in Zips /\ inplace(f)
                                            THEN "Inplace" ELSE "Local"] : f \in localManifest}
           files == found \cup FilesOf(Remote, Urls, "Remote")
           wanted == WantedBy(version)
           best == [w \in wanted |-> Best(files, w, version[w[1]][w[2]])]
<1>1. /\ pc \in {"version", "confirm"} /\ pc' = "confirm" /\ target' = version
      /\ provided' = files /\ managed' = {z \in Zips : version[z] # <<>> \/ zip[z] # <<>>}
      /\ match' \in {m \in [wanted -> UNION Range(best)] : \A w \in wanted : m[w] \in best[w]}
      /\ packed' = {}
      /\ made' = IF (\A z \in Zips : zip[z] # Torn) /\ localManifest = FilesOf(zip, Local, "Local")
                 THEN "current" ELSE "outdated"
      /\ complete' = FALSE
      /\ UNCHANGED <<disk, at, after, exact, localManifest, reducedMani, usedCnt,
                     hashProvidedCnt, isRepacked, isReduced, troubles>>
    BY DEF Refresh
<1>2. Temporary = {}
    BY <1>1 DEF Inv, Tidy
<1>3. target' \in [Zips -> Seq(File)] /\ Wanted' = wanted /\ \A w : Want(w)' = version[w[1]][w[2]]
    BY <1>1, UpdaterAssumption DEF Wanted, Want
<1>4. /\ FilesOf(Remote, Urls, "Remote") \subseteq FileInfo
      /\ \A f \in FilesOf(Remote, Urls, "Remote") :
            /\ f.place \in Urls /\ f.location = "Remote" /\ f.pos \in DOMAIN Remote[f.place]
            /\ Remote[f.place][f.pos].name = f.name /\ Remote[f.place][f.pos].hash = f.hash
    BY RemoteManifest DEF Describes
<1>5. \A g \in found : g \in FileInfo /\ g.place \in Local /\ g.location \in {"Local", "Inplace"}
    <2>1. localManifest \subseteq FileInfo /\ \A f \in localManifest : f.place \in Local
        BY DEF Inv, Types
    <2> HIDE DEF inplace
    <2> QED BY <2>1 DEF FileInfo, Locations
<1>6. \A g \in found : \E f \in localManifest :
          f.place = g.place /\ f.pos = g.pos /\ f.name = g.name /\ f.hash = g.hash
    <2> HIDE DEF inplace
    <2>1. localManifest \subseteq FileInfo
        BY DEF Inv, Types
    <2> QED BY <2>1 DEF FileInfo
<1>7. \A f \in localManifest : \E g \in found :
          f.place = g.place /\ f.pos = g.pos /\ f.name = g.name /\ f.hash = g.hash
    <2> HIDE DEF inplace
    <2>1. localManifest \subseteq FileInfo
        BY DEF Inv, Types
    <2> SUFFICES ASSUME NEW f \in localManifest
                 PROVE  \E g \in found :
                           f.place = g.place /\ f.pos = g.pos /\ f.name = g.name /\ f.hash = g.hash
        OBVIOUS
    <2> DEFINE g == [f EXCEPT !.location = IF f.place \in Zips /\ inplace(f) THEN "Inplace" ELSE "Local"]
    <2>2. g \in found
        OBVIOUS
    <2>3. f.place = g.place /\ f.pos = g.pos /\ f.name = g.name /\ f.hash = g.hash
        BY <2>1 DEF FileInfo
    <2> QED BY <2>2, <2>3
<1>8. \A f, g \in found : f.place = g.place /\ f.pos = g.pos /\ f.name = g.name /\ f.hash = g.hash => f = g
    <2>1. localManifest \subseteq FileInfo /\ \A f \in localManifest : f.location = "Local"
        BY DEF Inv, Types
    <2> SUFFICES ASSUME NEW f \in found, NEW g \in found,
                        f.place = g.place, f.pos = g.pos, f.name = g.name, f.hash = g.hash
                 PROVE  f = g
        OBVIOUS
    <2>2. PICK a \in localManifest :
              f = [a EXCEPT !.location = IF a.place \in Zips /\ inplace(a) THEN "Inplace" ELSE "Local"]
        OBVIOUS
    <2>3. PICK b \in localManifest :
              g = [b EXCEPT !.location = IF b.place \in Zips /\ inplace(b) THEN "Inplace" ELSE "Local"]
        OBVIOUS
    <2> HIDE DEF inplace
    <2>4. a = b
        BY <2>1, <2>2, <2>3 DEF FileInfo
    <2> QED BY <2>2, <2>3, <2>4
<1> HIDE DEF inplace, found
<1>9. match' \in [wanted -> FileInfo] /\ \A w \in wanted : match'[w] \in files /\ Matches(match'[w], Want(w)')
    <2>1. \A w \in wanted : match'[w] \in Best(files, w, version[w[1]][w[2]])
        BY <1>1
    <2>2. \A w \in wanted : match'[w] \in files /\ Matches(match'[w], version[w[1]][w[2]])
        BY <2>1, BestFacts
    <2>3. files \subseteq FileInfo
        BY <1>4, <1>5
    <2> HIDE DEF files, wanted, best
    <2>4. DOMAIN match' = wanted /\ match' = [w \in wanted |-> match'[w]]
        BY <1>1
    <2> QED BY <1>3, <2>2, <2>3, <2>4
<1>10. Types'
    <2>1. files \subseteq FileInfo
        BY <1>4, <1>5
    <2> HIDE DEF files, wanted, best
    <2>2. /\ zip' \in [Places -> Contentful] /\ zipRepacked' \in [Places -> Contentful]
          /\ zipReduced' \in [Places -> Seq(File)] /\ (\A p \in Foreign : zip'[p] \in Seq(File))
          /\ after' \in {"settings", "scan", "confirm", "done"} /\ at' \in Places \cup {Torn}
          /\ exact' \in BOOLEAN /\ localManifest' \subseteq FileInfo /\ reducedMani' \subseteq FileInfo
          /\ isRepacked' \subseteq Zips
          /\ \A f \in localManifest' : f.location = "Local" /\ f.place \in Local
          /\ \A f \in reducedMani' : f.location = "Reduced"
        BY <1>1 DEF Inv, Types, disk
    <2>3. pc' = "confirm" /\ made' \in {"current", "retried", "outdated"} /\ complete' \in BOOLEAN
          /\ packed' \subseteq Wanted' /\ provided' \subseteq FileInfo
        BY <1>1, <2>1
    <2>4. managed' \subseteq Zips \cup Urls
        BY <1>1
    <2>6. had' \subseteq Hashes
        BY DEF Refresh, Inv, Types, FileInfo
    <2>5. isReduced' = {}
        BY <1>1 DEF Inv, Types, Repacking
    <2> QED BY <1>3, <1>9, <2>2, <2>3, <2>4, <2>5, <2>6 DEF Types, Early, Sorting, Repacking
<1>11. \A p : ProvidedIn(p)' = {g \in found : g.place = p}
    <2>1. \A f \in files : f.location # "Remote" <=> f \in found
        BY <1>4, <1>5
    <2> HIDE DEF wanted, best
    <2> QED BY <1>1, <2>1 DEF ProvidedIn, LocalFiles
<1> HIDE DEF best
<1>12. PlanFits'
    <2>1. \A w \in wanted : /\ exact => match'[w].hash = Want(w)'.hash
                            /\ contentsOf[match'[w].hash] = contentsOf[Want(w)'.hash]
        BY <1>9, Zenon DEF Matches
    <2>2. \A w \in wanted : match'[w].location = "Remote" => match'[w] \in FilesOf(Remote, Urls, "Remote")
        BY <1>5, <1>9
    <2>3. \A u \in Urls : ProvidedIn(u)' = {}
        <3>1. \A u \in Urls : \A g \in found : g.place # u
            BY <1>5, UpdaterAssumption
        <3> QED BY <1>11, <3>1
    <2>4. exact' = exact /\ \A z \in Zips : target'[z] # <<>> => z \in managed'
        BY <1>1
    <2> HIDE DEF files, wanted
    <2> QED BY <1>3, <1>4, <2>1, <2>2, <2>3, <2>4 DEF PlanFits
<1>13. Counted' /\ Tidy' /\ RepackedRight' /\ Finished' /\ Listed'
    <2>1. Temporary' = {}
        BY <1>1, <1>2 DEF Temporary, disk
    <2>2. \A u \in Urls : zipRepacked'[u] = <<>>
        BY <1>1 DEF Inv, Tidy, disk
    <2> HIDE DEF files, wanted
    <2> QED BY <1>1, <2>1, <2>2 DEF Counted, Tidy, RepackedRight, Finished, Listed, Early, Sorting, Repacking, Working
<1>14. Usable' => \A p \in Places : Lists(ProvidedIn(p)', zip[p])
    <2> SUFFICES ASSUME Usable', NEW p \in Places PROVE Lists(ProvidedIn(p)', zip[p])
        OBVIOUS
    <2>1. (\A z \in Zips : zip[z] # Torn) /\ localManifest = FilesOf(zip, Local, "Local")
        BY <1>1 DEF Usable
    <2>2. CASE p \in Local
        <3>1. Local \in SUBSET Places /\ (\A q \in Local : zip[q] \in Seq(File)) /\ "Local" \in Locations
            BY <2>1, PlacesFacts DEF Inv, Types, Contentful, Local, Locations
        <3>2. /\ \A f \in localManifest : f.pos \in DOMAIN zip[f.place]
                        /\ zip[f.place][f.pos].name = f.name /\ zip[f.place][f.pos].hash = f.hash
              /\ \A i \in DOMAIN zip[p] : \E f \in localManifest : f.place = p /\ f.pos = i
            BY <2>1, <2>2, <3>1, LocalManifest DEF Describes
        <3>3. \A g \in found : g.pos \in DOMAIN zip[g.place]
                        /\ zip[g.place][g.pos].name = g.name /\ zip[g.place][g.pos].hash = g.hash
            BY <1>6, <3>2
        <3>4. \A i \in DOMAIN zip[p] : \E g \in found : g.place = p /\ g.pos = i
            BY <1>7, <3>2
        <3>5. \A f, g \in found : f.place = p /\ g.place = p /\ f.pos = g.pos => f = g
            <4> SUFFICES ASSUME NEW f \in found, NEW g \in found,
                                f.place = p, g.place = p, f.pos = g.pos PROVE f = g
                OBVIOUS
            <4>1. f.name = g.name /\ f.hash = g.hash
                BY <3>3
            <4> QED BY <1>8, <4>1
        <3>6. zip[p] \in Seq(File)
            BY <2>2, <3>1
        <3> QED BY <1>11, <3>3, <3>4, <3>5, <3>6 DEF Lists
    <2>3. CASE p \in Urls
        <3>1. zip[p] = <<>>
            BY <1>2, <2>3, PlacesFacts DEF Temporary
        <3>2. ProvidedIn(p)' = {}
            <4>1. \A g \in found : g.place # p
                BY <1>5, <2>3, UpdaterAssumption
            <4> QED BY <1>11, <4>1
        <3> QED BY <3>1, <3>2, ListsEmpty
    <2> QED BY <2>2, <2>3, PlacesFacts
<1>15. Mirror'
    <2>1. \A z \in Zips : zipRepacked[z] = <<>>
        BY <1>2, PlacesFacts DEF Temporary
    <2> HIDE DEF files, wanted
    <2> QED BY <1>1, <1>14, <2>1 DEF Mirror, disk
<1>16. TrueMirror'
    BY <1>1, <1>14 DEF TrueMirror, disk
<1> QED BY <1>10, <1>12, <1>13, <1>15, <1>16 DEF Inv

-----------------------------------------------------------------------------
(* The download.                                                           *)

LEMMA NeededFacts ==
    ASSUME Inv, NEW u \in Needed
    PROVE  u \in Urls /\ u \in Places /\ u \notin Zips /\ u \notin Foreign /\ ProvidedIn(u) = {} /\ Planned
<1>1. PICK w \in DOMAIN match : match[w].location = "Remote" /\ match[w].place = u
    BY DEF Needed
<1>2. Planned /\ w \in Wanted
    BY <1>1 DEF Planned, Inv, Types
<1>3. u \in Urls /\ ProvidedIn(u) = {}
    BY <1>1, <1>2 DEF Inv, PlanFits
<1> QED BY <1>2, <1>3, UpdaterAssumption DEF Places, Local

LEMMA FetchStep == ASSUME Inv, NEW u \in Urls, Fetch(u) PROVE Inv'
<1>1. /\ pc = "download" /\ u \in Needed /\ zip[u] = <<>>
      /\ zip' = [zip EXCEPT ![u] = Torn] /\ pc' \in {"download", "verify"}
      /\ UNCHANGED <<zipRepacked, zipReduced, at, after, plan, repacker, troubles, history>>
    BY DEF Fetch
<1>2. u \in Places /\ u \notin Zips /\ u \notin Foreign /\ ProvidedIn(u) = {}
    BY <1>1, NeededFacts
<1> USE DEF plan, repacker, history
<1>3. Planned' = Planned /\ Wanted' = Wanted /\ (\A p : ProvidedIn(p)' = ProvidedIn(p)) /\ Needed' = Needed
      /\ (\A w : Want(w)' = Want(w)) /\ zip \in [Places -> Contentful] /\ zip'[u] = Torn
      /\ (\A p \in Places : p # u => zip'[p] = zip[p])
    BY <1>1, <1>2 DEF Planned, Wanted, ProvidedIn, LocalFiles, Want, Needed, Inv, Types
<1>4. Types'
    <2>1. zip' \in [Places -> Contentful] /\ \A p \in Foreign : zip'[p] \in Seq(File)
        BY <1>1, <1>2 DEF Inv, Types, Contentful
    <2> QED BY <1>1, <1>3, <2>1 DEF Inv, Types, Working, Early, Sorting, Repacking
<1>5. PlanFits'
    BY <1>1, <1>3 DEF Inv, PlanFits
<1>6. Counted' /\ RepackedRight' /\ Listed'
    BY <1>1 DEF Inv, Counted, RepackedRight, Listed, Repacking, Sorting
<1>7. Tidy'
    BY <1>1 DEF Inv, Tidy, Sorting, Repacking, Working
<1>8. Usable' => Usable
    BY <1>1, <1>3 DEF Usable, Early
<1>9. Mirror'
    <2>1. \A z \in Zips : zip'[z] = zip[z]
        BY <1>2, <1>3, PlacesFacts
    <2> QED BY <1>1, <1>2, <1>3, <1>8, <2>1 DEF Inv, Mirror
<1>10. TrueMirror'
    BY <1>1, <1>2, <1>3, <1>8 DEF Inv, TrueMirror
<1>11. Finished'
    BY <1>1 DEF Inv, Finished, Early
<1> QED BY <1>4, <1>5, <1>6, <1>7, <1>9, <1>10, <1>11 DEF Inv

\* Positions in ascending order: each has its place.
LEMMA InOrderFacts ==
    ASSUME NEW positions \in SUBSET Nat, IsFiniteSet(positions), NEW order \in InOrder(positions)
    PROVE  /\ Cardinality(positions) \in Nat /\ DOMAIN order = 1 .. Cardinality(positions)
           /\ \A i \in DOMAIN order : order[i] \in positions
           /\ \A i, j \in DOMAIN order : order[i] = order[j] => i = j
           /\ \A k \in positions : \E i \in DOMAIN order : order[i] = k
<1> DEFINE n == Cardinality(positions)
<1>1. n \in Nat
    BY FS_CardinalityType
<1>2. order \in [1 .. n -> positions] /\ \A i, j \in DOMAIN order : i < j => order[i] < order[j]
    BY DEF InOrder
<1>3. ASSUME NEW i \in 1 .. n, NEW j \in 1 .. n, order[i] = order[j] PROVE i = j
    <2>0. order[i] \in positions /\ order[j] \in positions
        BY <1>2
    <2>1. order[i] \in Nat /\ order[j] \in Nat
        BY <2>0
    <2>4. i \in Nat /\ j \in Nat
        BY <1>1
    <2>2. ~(order[i] < order[j]) /\ ~(order[j] < order[i])
        BY <1>3, <2>1
    <2>3. ~(i < j) /\ ~(j < i)
        BY <1>2, <2>2
    <2> QED BY <2>3, <2>4
<1>4. order \in Injection(1 .. n, positions)
    BY <1>2, <1>3 DEF Injection, IsInjective
<1>5. Cardinality(1 .. n) = n
    BY <1>1, FS_Interval
<1>6. order \in Surjection(1 .. n, positions)
    BY <1>4, <1>5, FS_Injection
<1>7. \A k \in positions : \E i \in 1 .. n : order[i] = k
    BY <1>6 DEF Surjection
<1> QED BY <1>1, <1>2, <1>3, <1>7

\* What is verified is listed as it is in its file, and matched there.
LEMMA VerifyStep == ASSUME Inv, NEW u \in Urls, Verify(u) PROVE Inv'
<1> DEFINE remote == {match[w] : w \in {v \in DOMAIN match : match[v].location = "Remote"
                                                             /\ match[v].place = u}}
           positions == {f.pos : f \in remote}
<1>1. /\ pc = "verify" /\ u \in Needed /\ zip[u] = Torn
      /\ pc' = (IF Needed = {u} THEN "begin" ELSE pc)
      /\ managed' = managed \cup {u}
      /\ UNCHANGED <<zipRepacked, zipReduced, at, after, target, exact, localManifest,
                     repacker, troubles, history>>
    BY DEF Verify
<1>2. PICK order \in InOrder(positions) :
          LET local(f) == [f EXCEPT !.pos = CHOOSE i \in DOMAIN order : order[i] = f.pos,
                                    !.location = "Local"]
          IN  /\ zip' = [zip EXCEPT ![u] = [i \in DOMAIN order |-> Remote[u][order[i]]]]
              /\ provided' = provided \cup {local(f) : f \in remote}
              /\ match' = [w \in DOMAIN match |-> IF match[w] \in remote THEN local(match[w])
                                                                         ELSE match[w]]
    BY DEF Verify
<1> DEFINE place(f) == CHOOSE i \in DOMAIN order : order[i] = f.pos
           local(f) == [f EXCEPT !.pos = place(f), !.location = "Local"]
           content == [i \in DOMAIN order |-> Remote[u][order[i]]]
<1>3. u \in Places /\ u \notin Zips /\ u \notin Foreign /\ ProvidedIn(u) = {} /\ Planned
    BY <1>1, NeededFacts
<1>4. match \in [Wanted -> FileInfo] /\ DOMAIN match = Wanted
    BY <1>3 DEF Inv, Types
<1>5. \A f \in remote : /\ f \in FileInfo /\ f.place = u /\ f.location = "Remote"
                        /\ f.pos \in DOMAIN Remote[u] /\ Remote[u][f.pos].name = f.name
                        /\ Remote[u][f.pos].hash = f.hash
    BY <1>3, <1>4 DEF Inv, PlanFits
<1>6. Remote[u] \in Seq(File)
    BY UpdaterAssumption
<1>7. positions \in SUBSET Nat /\ positions \subseteq DOMAIN Remote[u] /\ IsFiniteSet(positions)
    <2>1. positions \subseteq DOMAIN Remote[u]
        BY <1>5
    <2>2. DOMAIN Remote[u] = 1 .. Len(Remote[u]) /\ Len(Remote[u]) \in Int
        BY <1>6
    <2> HIDE DEF positions
    <2>3. IsFiniteSet(DOMAIN Remote[u])
        BY <2>2, FS_Interval
    <2>4. IsFiniteSet(positions)
        BY <2>1, <2>3, FS_Subset
    <2> QED BY <2>1, <2>2, <2>4
<1> HIDE DEF positions
<1>8. /\ Cardinality(positions) \in Nat /\ DOMAIN order = 1 .. Cardinality(positions)
      /\ \A i \in DOMAIN order : order[i] \in positions
      /\ \A i, j \in DOMAIN order : order[i] = order[j] => i = j
      /\ \A k \in positions : \E i \in DOMAIN order : order[i] = k
    BY <1>2, <1>7, InOrderFacts
<1>9. \A f \in remote : place(f) \in DOMAIN order /\ order[place(f)] = f.pos
    BY <1>8 DEF positions
<1> HIDE DEF place
<1>10. content \in Seq(File)
    <2>1. \A i \in DOMAIN order : Remote[u][order[i]] \in File
        BY <1>6, <1>7, <1>8
    <2> QED BY <1>8, <2>1
<1>11. \A f \in remote : /\ local(f) \in FileInfo /\ local(f).place = u /\ local(f).pos = place(f)
                         /\ local(f).name = f.name /\ local(f).hash = f.hash
                         /\ local(f).location = "Local"
    <2> SUFFICES ASSUME NEW f \in remote
                 PROVE  /\ local(f) \in FileInfo /\ local(f).place = u /\ local(f).pos = place(f)
                        /\ local(f).name = f.name /\ local(f).hash = f.hash
                        /\ local(f).location = "Local"
        OBVIOUS
    <2>1. f \in FileInfo /\ f.place = u /\ place(f) \in Nat /\ "Local" \in Locations
        BY <1>5, <1>8, <1>9 DEF Locations
    <2> HIDE DEF remote
    <2>2. ASSUME NEW k \in Nat
          PROVE  LET g == [f EXCEPT !.pos = k, !.location = "Local"]
                 IN  /\ g \in FileInfo /\ g.place = f.place /\ g.pos = k
                     /\ g.name = f.name /\ g.hash = f.hash /\ g.location = "Local"
        BY <2>1 DEF FileInfo, Locations
    <2> QED BY <2>1, <2>2
<1>12. /\ zip' = [zip EXCEPT ![u] = content]
       /\ provided' = provided \cup {local(f) : f \in remote}
       /\ match' = [w \in Wanted |-> IF match[w] \in remote THEN local(match[w]) ELSE match[w]]
    BY <1>2, <1>4 DEF place
<1>13. \A f, g \in remote : f.pos = g.pos => f = g
    BY <1>5 DEF FileInfo
<1> DEFINE locals == {local(f) : f \in remote}
<1>14. Lists(locals, content)
    <2>1. \A g \in locals : /\ g.pos \in DOMAIN content
                            /\ content[g.pos].name = g.name /\ content[g.pos].hash = g.hash
        <3> SUFFICES ASSUME NEW f \in remote
                     PROVE  /\ local(f).pos \in DOMAIN content
                            /\ content[local(f).pos].name = local(f).name
                            /\ content[local(f).pos].hash = local(f).hash
            OBVIOUS
        <3>1. local(f).pos = place(f) /\ local(f).name = f.name /\ local(f).hash = f.hash
            BY <1>11
        <3>2. content[place(f)] = Remote[u][f.pos] /\ place(f) \in DOMAIN content
            BY <1>9
        <3> HIDE DEF local, content, remote
        <3> QED BY <1>5, <3>1, <3>2
    <2>2. \A i \in DOMAIN content : \E g \in locals : g.pos = i
        <3> SUFFICES ASSUME NEW i \in DOMAIN content PROVE \E g \in locals : g.pos = i
            OBVIOUS
        <3>1. PICK f \in remote : f.pos = order[i]
            BY <1>8 DEF positions
        <3>2. place(f) = i
            BY <1>8, <1>9, <3>1
        <3> QED BY <1>11, <3>2
    <2>3. \A f, g \in remote : local(f).pos = local(g).pos => f = g
        <3> SUFFICES ASSUME NEW f \in remote, NEW g \in remote, local(f).pos = local(g).pos PROVE f = g
            OBVIOUS
        <3>1. place(f) = place(g)
            BY <1>11
        <3>2. f.pos = g.pos
            BY <1>9, <3>1
        <3> QED BY <1>13, <3>2
    <2>4. \A f, g \in locals : f.pos = g.pos => f = g
        BY <2>3
    <2> HIDE DEF locals, content
    <2> QED BY <1>10, <2>1, <2>2, <2>4 DEF Lists
<1>15. \A g \in locals : g \in FileInfo /\ g.place = u /\ g.location = "Local"
    BY <1>11
<1>16. \A w \in Wanted : IF match[w] \in remote THEN match'[w] \in locals /\ match'[w].hash = match[w].hash
                                                ELSE match'[w] = match[w]
    BY <1>11, <1>12
<1>17. \A w \in Wanted : match[w] \in remote <=> match[w].location = "Remote" /\ match[w].place = u
    BY <1>4
<1> HIDE DEF local, content, locals, remote
<1>18. Planned' /\ Wanted' = Wanted /\ (\A w : Want(w)' = Want(w)) /\ match' \in [Wanted -> FileInfo]
    <2>1. Wanted' = Wanted /\ \A w : Want(w)' = Want(w)
        BY <1>1 DEF Wanted, Want
    <2>2. \A w \in Wanted : match'[w] \in FileInfo
        BY <1>4, <1>15, <1>16
    <2>3. DOMAIN match' = Wanted /\ match' = [w \in Wanted |-> match'[w]]
        BY <1>12
    <2> QED BY <1>3, <1>4, <2>1, <2>2, <2>3 DEF Planned
<1>19. provided' = provided \cup locals
    BY <1>12 DEF locals
<1>20. ProvidedIn(u)' = locals /\ \A p \in Places : p # u => ProvidedIn(p)' = ProvidedIn(p)
    BY <1>3, <1>15, <1>19 DEF ProvidedIn, LocalFiles
<1>21. zip'[u] = content /\ \A p \in Places : p # u => zip'[p] = zip[p]
    BY <1>3, <1>12 DEF Inv, Types
<1>22. Types'
    <2>1. zip' \in [Places -> Contentful] /\ \A p \in Foreign : zip'[p] \in Seq(File)
        BY <1>3, <1>10, <1>12 DEF Inv, Types, Contentful
    <2>2. provided' \subseteq FileInfo /\ managed' \subseteq Zips \cup Urls
        BY <1>1, <1>15, <1>19 DEF Inv, Types
    <2> QED BY <1>1, <1>18, <2>1, <2>2 DEF Inv, Types, Working, Early, Sorting, Repacking, repacker, history
<1>23. PlanFits'
    <2>1. \A w \in Wanted : /\ exact => match'[w].hash = Want(w).hash
                            /\ contentsOf[match'[w].hash] = contentsOf[Want(w).hash]
        BY <1>3, <1>16 DEF Inv, PlanFits
    <2>2. ASSUME NEW w \in Wanted, match'[w].location = "Remote"
          PROVE  /\ match'[w].place \in Urls /\ match'[w].pos \in DOMAIN Remote[match'[w].place]
                 /\ Remote[match'[w].place][match'[w].pos].name = match'[w].name
                 /\ Remote[match'[w].place][match'[w].pos].hash = match'[w].hash
                 /\ \A p : p = match'[w].place => ProvidedIn(p)' = {}
        <3>1. match'[w] = match[w] /\ match[w].place # u
            BY <1>15, <1>16, <1>17, <2>2
        <3>2. /\ match[w].place \in Urls /\ match[w].pos \in DOMAIN Remote[match[w].place]
              /\ Remote[match[w].place][match[w].pos].name = match[w].name
              /\ Remote[match[w].place][match[w].pos].hash = match[w].hash
              /\ ProvidedIn(match[w].place) = {}
            BY <1>3, <2>2, <3>1 DEF Inv, PlanFits
        <3> QED BY <1>20, <3>1, <3>2, PlacesFacts
    <2>3. \A z \in Zips : target'[z] # <<>> => z \in managed'
        BY <1>1, <1>3 DEF Inv, PlanFits
    <2>4. exact' = exact
        BY <1>1
    <2> QED BY <1>18, <2>1, <2>2, <2>3, <2>4 DEF PlanFits
<1>24. Counted' /\ RepackedRight' /\ Listed'
    BY <1>1 DEF Inv, Counted, RepackedRight, Listed, Repacking, Sorting, repacker
<1>25. Tidy'
    BY <1>1 DEF Inv, Tidy, Sorting, Repacking, Working
<1>26. Usable' => Usable
    BY <1>1, <1>3 DEF Usable, Early, history
<1>27. Mirror'
    <2>1. \A z \in Zips : zip'[z] = zip[z]
        BY <1>3, <1>21, PlacesFacts
    <2>2. Usable' => \A z \in Zips : zip'[z] # <<>> \/ zipRepacked'[z] # <<>> => z \in managed'
        BY <1>1, <1>26, <2>1 DEF Inv, Mirror
    <2>3. Usable' => \A p \in Places : \/ ProvidedIn(p)' = {}
                                       \/ p \in Urls /\ zip'[p] = <<>>
                                       \/ Lists(ProvidedIn(p)', zip'[p])
        BY <1>14, <1>20, <1>21, <1>26 DEF Inv, Mirror
    <2> QED BY <2>2, <2>3 DEF Mirror
<1>28. TrueMirror'
    <2>1. \A p \in Needed : p # u => p \in Needed' /\ pc' = pc
        <3> SUFFICES ASSUME NEW p \in Needed, p # u PROVE p \in Needed' /\ pc' = pc
            OBVIOUS
        <3>1. PICK w \in Wanted : match[w].location = "Remote" /\ match[w].place = p
            BY <1>4 DEF Needed
        <3>2. match'[w] = match[w]
            BY <1>16, <1>17, <3>1
        <3>3. DOMAIN match' = Wanted
            BY <1>12
        <3>4. p \in Needed'
            BY <3>1, <3>2, <3>3 DEF Needed
        <3> QED BY <1>1, <3>4
    <2> SUFFICES ASSUME Usable', made' = "current", NEW p \in Places
                 PROVE  \/ Lists(ProvidedIn(p)', zip'[p])
                        \/ /\ pc' \in {"download", "verify"} /\ p \in Needed'
                           /\ zip'[p] = Torn /\ ProvidedIn(p)' = {}
        BY DEF TrueMirror
    <2>2. CASE p = u
        BY <1>14, <1>20, <1>21, <2>2
    <2>3. CASE p # u
        <3>1. \/ Lists(ProvidedIn(p), zip[p])
              \/ p \in Needed /\ zip[p] = Torn /\ ProvidedIn(p) = {}
            BY <1>1, <1>26 DEF Inv, TrueMirror, history
        <3> QED BY <1>1, <1>20, <1>21, <2>1, <2>3, <3>1
    <2> QED BY <2>2, <2>3
<1>29. Finished'
    BY <1>1 DEF Inv, Finished, Early, history
<1> QED BY <1>22, <1>23, <1>24, <1>25, <1>27, <1>28, <1>29 DEF Inv

-----------------------------------------------------------------------------
(* Repacking.                                                              *)

LEMMA UsedFacts ==
    ASSUME Types
    PROVE  /\ IsFiniteSet(Wanted)
           /\ \A p : UsedIn(p) \subseteq Wanted /\ IsFiniteSet(UsedIn(p))
           /\ \A p : IsFiniteSet(UsedIn(p) \ packed)
           /\ \A z \in Zips : WantedIn(z) \subseteq Wanted /\ IsFiniteSet(WantedIn(z))
<1>1. IsFiniteSet(Wanted)
    BY WantedFacts DEF Types
<1>2. \A s \in SUBSET Wanted : IsFiniteSet(s)
    BY <1>1, FS_Subset
<1>3. \A p : UsedIn(p) \in SUBSET Wanted /\ UsedIn(p) \ packed \in SUBSET Wanted /\ WantedIn(p) \in SUBSET Wanted
    BY DEF UsedIn, WantedIn
<1> QED BY <1>1, <1>2, <1>3

LEMMA BeginStep == ASSUME Inv, Begin PROVE Inv'
<1>1. /\ pc = "begin" /\ pc' = "nopack" /\ Range(match) \subseteq LocalFiles
      /\ usedCnt' = [p \in Places |-> Cardinality(UsedIn(p))]
      /\ isRepacked' = {} /\ isReduced' = {} /\ packed' = {} /\ reducedMani' = {}
      /\ UNCHANGED <<disk, at, after, plan, history>>
    BY DEF Begin
<1>2. Planned /\ packed = {}
    BY <1>1 DEF Inv, Types, Counted, Early
<1> USE DEF plan, history, disk
<1>3. Planned' = Planned /\ Wanted' = Wanted /\ (\A p : ProvidedIn(p)' = ProvidedIn(p))
      /\ LocalFiles' = LocalFiles /\ (\A p : UsedIn(p)' = UsedIn(p)) /\ (\A w : Want(w)' = Want(w))
      /\ (\A z : WantedIn(z)' = WantedIn(z))
    BY <1>1 DEF Planned, Wanted, ProvidedIn, LocalFiles, Want, UsedIn, WantedIn
<1>4. zipRepacked = Absent /\ zipReduced = Absent
    BY <1>1 DEF Inv, Tidy
<1>5. Types'
    BY <1>1, <1>3 DEF Inv, Types, Working, Early, Sorting, Repacking
<1>6. PlanFits'
    BY <1>1, <1>3 DEF Inv, PlanFits
<1>7. Counted'
    <2>1. \A w \in Wanted : match[w] \in LocalFiles
        BY <1>1, <1>2 DEF Inv, Types, Range
    <2>2. \A p : UsedIn(p) \ {} = UsedIn(p) /\ Cardinality(UsedIn(p)) \in Nat
        BY UsedFacts, FS_CardinalityType DEF Inv
    <2>3. usedCnt' \in [Places -> Nat] /\ \A p \in Places : usedCnt'[p] = Cardinality(UsedIn(p)' \ packed')
        BY <1>1, <1>3, <2>2
    <2>4. \A w \in Wanted : match'[w] \in LocalFiles'
        BY <1>1, <1>3, <2>1
    <2> QED BY <1>1, <1>3, <2>3, <2>4 DEF Counted, Repacking
<1>8. Tidy'
    BY <1>1, <1>4, PlacesFacts DEF Inv, Tidy, Absent, Sorting, Repacking, Working
<1>9. Usable' => Usable
    BY <1>1, <1>3 DEF Usable, Early
<1>10. Mirror'
    BY <1>1, <1>3, <1>9 DEF Inv, Mirror
<1>11. made = "current" => \A p \in Places : Lists(ProvidedIn(p), zip[p])
    BY <1>1, <1>2 DEF Inv, TrueMirror, Usable, Early
<1>12. TrueMirror'
    BY <1>1, <1>3, <1>11 DEF TrueMirror
<1>13. RepackedRight' /\ Finished'
    BY <1>1 DEF Inv, RepackedRight, Finished, Early
<1>14. Listed'
    BY <1>1, <1>3, <1>4, <1>11, ListsEmpty DEF Listed, Absent
<1> QED BY <1>5, <1>6, <1>7, <1>8, <1>10, <1>12, <1>13, <1>14 DEF Inv

LEMMA ProcessedStep == ASSUME Inv, ProcessedWithoutRepacking PROVE Inv'
<1>1. /\ pc = "nopack" /\ pc' = "reduce"
      /\ UNCHANGED <<disk, at, after, plan, repacker, troubles, history>>
    BY DEF ProcessedWithoutRepacking
<1> USE DEF plan, history, disk, repacker
<1>2. Planned' = Planned /\ Wanted' = Wanted /\ (\A p : ProvidedIn(p)' = ProvidedIn(p))
      /\ LocalFiles' = LocalFiles /\ (\A p : UsedIn(p)' = UsedIn(p)) /\ (\A w : Want(w)' = Want(w))
      /\ (\A z : WantedIn(z)' = WantedIn(z))
    BY <1>1 DEF Planned, Wanted, ProvidedIn, LocalFiles, Want, UsedIn, WantedIn
<1>3. Types'
    BY <1>1, <1>2 DEF Inv, Types, Working, Early, Sorting, Repacking
<1>4. PlanFits'
    BY <1>1, <1>2 DEF Inv, PlanFits
<1>5. Counted'
    BY <1>1, <1>2 DEF Inv, Counted, Repacking
<1>6. Tidy'
    BY <1>1 DEF Inv, Tidy, Sorting, Repacking, Working
<1>7. Mirror' /\ TrueMirror'
    BY <1>1, <1>2 DEF Inv, Mirror, TrueMirror, Usable, Early, Sorting, Repacking
<1>8. RepackedRight' /\ Finished'
    BY <1>1 DEF Inv, RepackedRight, Finished, Sorting, Repacking, Early
<1>9. Listed'
    BY <1>1, <1>2 DEF Inv, Listed, Repacking
<1> QED BY <1>3, <1>4, <1>5, <1>6, <1>7, <1>8, <1>9 DEF Inv

\* A list is as long as the zip it describes, and a zip as long as what is wanted of it.
LEMMA ListsCount ==
    ASSUME NEW files, NEW content, Lists(files, content)
    PROVE  /\ IsFiniteSet(files) /\ Cardinality(files) = Len(content)
           /\ content \in Seq(File) /\ Len(content) \in Nat /\ DOMAIN content = 1 .. Len(content)
<1>1. content \in Seq(File) /\ Len(content) \in Nat /\ DOMAIN content = 1 .. Len(content)
    BY DEF Lists
<1> DEFINE dom == 1 .. Len(content)
           fileAt(i) == CHOOSE f \in files : f.pos = i
           list == [i \in dom |-> fileAt(i)]
<1>2. IsFiniteSet(dom) /\ Cardinality(dom) = Len(content)
    BY <1>1, FS_Interval
<1>3. \A i \in dom : fileAt(i) \in files /\ fileAt(i).pos = i
    BY <1>1 DEF Lists
<1>4. \A f \in files : f.pos \in dom /\ fileAt(f.pos) = f
    BY <1>1, <1>3 DEF Lists
<1> HIDE DEF fileAt, dom
<1>5. list \in Bijection(dom, files)
    <2>1. list \in [dom -> files]
        BY <1>3
    <2>2. \A i, j \in dom : list[i] = list[j] => i = j
        BY <1>3
    <2>3. \A f \in files : \E i \in dom : list[i] = f
        BY <1>4
    <2> HIDE DEF list
    <2> QED BY <2>1, <2>2, <2>3 DEF Bijection, Injection, Surjection, IsInjective
<1>6. ExistsBijection(dom, files)
    BY <1>5 DEF ExistsBijection
<1> QED BY <1>1, <1>2, <1>6, FS_Bijection

LEMMA WantedCount ==
    ASSUME target \in [Zips -> Seq(File)], NEW z \in Zips
    PROVE  /\ Len(target[z]) \in Nat /\ DOMAIN target[z] = 1 .. Len(target[z])
           /\ Cardinality(WantedIn(z)) = Len(target[z])
<1> DEFINE dom == 1 .. Len(target[z])
           list == [i \in dom |-> <<z, i>>]
<1>1. Len(target[z]) \in Nat /\ DOMAIN target[z] = dom
    <2>1. target[z] \in Seq(File)
        OBVIOUS
    <2> QED BY <2>1
<1>2. IsFiniteSet(dom) /\ Cardinality(dom) = Len(target[z])
    <2>1. \A n \in Nat : IsFiniteSet(1 .. n) /\ Cardinality(1 .. n) = n
        BY FS_Interval
    <2> QED BY <1>1, <2>1
<1>3. WantedIn(z) = {<<z, i>> : i \in dom}
    BY <1>1, WantedFacts
<1> HIDE DEF dom
<1>4. list \in Bijection(dom, WantedIn(z))
    BY <1>3 DEF Bijection, Injection, Surjection, IsInjective
<1>5. ExistsBijection(dom, WantedIn(z))
    BY <1>4 DEF ExistsBijection
<1> QED BY <1>1, <1>2, <1>5, FS_Bijection DEF dom

\* What is left to copy from the zip that is renamed is what the new zip wants.
LEMMA CandidateFacts ==
    ASSUME Inv, pc = "nopack", NEW dst \in Zips, NEW src \in Places, Candidate(dst, src)
    PROVE  /\ WantedIn(dst) \cap packed = {} /\ UsedIn(src) \ packed = WantedIn(dst)
           /\ \A w \in WantedIn(dst) : w \in Wanted /\ match[w] \in ProvidedIn(src) /\ match[w].place = src
           /\ \A v, w \in WantedIn(dst) : match[v] = match[w] => v = w
           /\ \A f \in ProvidedIn(src) : \E w \in WantedIn(dst) : match[w] = f
<1>1. /\ dst \notin isRepacked /\ WantedIn(dst) # {} /\ src \in managed
      /\ {match[w] : w \in WantedIn(dst)} = ProvidedIn(src)
      /\ Cardinality(ProvidedIn(src)) = Cardinality(WantedIn(dst))
      /\ usedCnt[src] = Cardinality(WantedIn(dst))
    BY DEF Candidate
<1>2. /\ packed = {w \in Wanted : w[1] \in isRepacked}
      /\ usedCnt[src] = Cardinality(UsedIn(src) \ packed)
    BY DEF Inv, Counted, Repacking
<1>3. WantedIn(dst) \cap packed = {}
    BY <1>1, <1>2 DEF WantedIn
<1>4. \A w \in WantedIn(dst) : w \in Wanted /\ match[w] \in ProvidedIn(src) /\ match[w].place = src
    BY <1>1 DEF WantedIn, ProvidedIn
<1>5. WantedIn(dst) \in SUBSET (UsedIn(src) \ packed)
    BY <1>3, <1>4 DEF UsedIn
<1>6. IsFiniteSet(UsedIn(src) \ packed) /\ IsFiniteSet(WantedIn(dst))
    BY UsedFacts DEF Inv
<1>7. UsedIn(src) \ packed = WantedIn(dst)
    BY <1>1, <1>2, <1>5, <1>6, FS_Subset
<1> DEFINE from == [w \in WantedIn(dst) |-> match[w]]
<1>8. from \in Surjection(WantedIn(dst), ProvidedIn(src))
    BY <1>1 DEF Surjection
<1>9. from \in Injection(WantedIn(dst), ProvidedIn(src))
    BY <1>1, <1>6, <1>8, FS_SurjSameCardinalityImpliesInj
<1>10. \A v, w \in WantedIn(dst) : match[v] = match[w] => v = w
    BY <1>9 DEF Injection, IsInjective
<1> QED BY <1>1, <1>3, <1>4, <1>7, <1>10

\* The zip that is renamed is what the new one is to be.
LEMMA RenamedIsRight ==
    ASSUME Inv, pc = "nopack", NEW dst \in Zips, NEW src \in Places, Candidate(dst, src),
           \A f \in ProvidedIn(src) : Readable(f), SameHeaders(dst), made # "outdated"
    PROVE  SameIf(exact, zip[src], target[dst]) /\ Lists(ProvidedIn(src), zip[src])
<1>1. Usable /\ Planned
    BY DEF Inv, Types, Usable, Early, Sorting, Repacking
<1>2. PICK w \in WantedIn(dst) : w \in Wanted
    BY CandidateFacts DEF Candidate
<1>3. match[w] \in ProvidedIn(src) /\ match[w].place = src /\ match[w].pos \in DOMAIN zip[src]
    BY <1>2, CandidateFacts DEF Readable
<1>4. Lists(ProvidedIn(src), zip[src])
    <2>1. zip[src] # <<>>
        BY <1>3
    <2> QED BY <1>1, <1>3, <2>1 DEF Inv, Mirror
<1>5. DOMAIN zip[src] = DOMAIN target[dst]
    <2>1. Cardinality(ProvidedIn(src)) = Cardinality(WantedIn(dst))
        BY DEF Candidate
    <2>2. Cardinality(WantedIn(dst)) = Len(target[dst]) /\ DOMAIN target[dst] = 1 .. Len(target[dst])
        BY WantedCount DEF Inv, Types
    <2> QED BY <1>4, <2>1, <2>2, ListsCount
<1>6. ASSUME NEW i \in DOMAIN target[dst]
      PROVE  \E f \in Range(zip[src]) :
                /\ f.name = target[dst][i].name
                /\ IF exact THEN f.hash = target[dst][i].hash
                   ELSE /\ contentsOf[f.hash] = contentsOf[target[dst][i].hash]
                        /\ levelOf[f.hash] = levelOf[target[dst][i].hash]
    <2> DEFINE v == <<dst, i>>
    <2>1. v \in Wanted /\ v \in WantedIn(dst) /\ Want(v) = target[dst][i]
        BY WantedFacts DEF Inv, Types, Want, WantedIn
    <2>2. match[v] \in ProvidedIn(src) /\ match[v].place = src
        BY <2>1, CandidateFacts
    <2>3. match[v].pos \in DOMAIN zip[src] /\ zip[src][match[v].pos].hash = match[v].hash
        BY <1>4, <2>2 DEF Lists
    <2>4. OnDisk(match[v]) = zip[src][match[v].pos] /\ OnDisk(match[v]) \in Range(zip[src])
        BY <2>2, <2>3 DEF OnDisk, Range
    <2>5. /\ OnDisk(match[v]).name = Want(v).name
          /\ levelOf[OnDisk(match[v]).hash] = levelOf[Want(v).hash]
          /\ contentsOf[OnDisk(match[v]).hash] = contentsOf[Want(v).hash]
        BY <2>1 DEF SameHeaders
    <2>6. exact => match[v].hash = Want(v).hash
        BY <1>1, <2>1 DEF Inv, PlanFits
    <2> HIDE DEF v
    <2> QED BY <2>1, <2>3, <2>4, <2>5, <2>6
<1>7. zip[src] # Torn
    BY <1>4, TornFacts
<1>8. \A g \in Range(target[dst]) : \E i \in DOMAIN target[dst] : g = target[dst][i]
    BY DEF Range
<1> QED BY <1>4, <1>5, <1>6, <1>7, <1>8 DEF SameIf

LEMMA RenameUnpackedStep ==
    ASSUME Inv, NEW dst \in Zips, NEW src \in Places, RenameUnpacked(dst, src)
    PROVE  Inv'
<1>1. /\ pc = "nopack" /\ Candidate(dst, src)
      /\ \A f \in ProvidedIn(src) : Readable(f)
      /\ SameHeaders(dst)
      /\ zipRepacked' = [zipRepacked EXCEPT ![dst] = zip[src]]
      /\ zip' = [zip EXCEPT ![src] = <<>>]
      /\ isRepacked' = isRepacked \cup {dst} /\ isReduced' = isReduced \cup {src}
      /\ usedCnt' = [usedCnt EXCEPT ![src] = 0]
      /\ provided' = provided \ ProvidedIn(src)
      /\ match' = [w \in Wanted |-> IF w \in WantedIn(dst)
                                    THEN [match[w] EXCEPT !.location = "Repacked"] ELSE match[w]]
      /\ packed' = packed \cup WantedIn(dst)
      /\ UNCHANGED <<zipReduced, pc, at, after, target, exact, localManifest, managed,
                     reducedMani, hashProvidedCnt, troubles, history>>
    BY DEF RenameUnpacked
<1> USE DEF history
<1>2. /\ WantedIn(dst) \cap packed = {} /\ UsedIn(src) \ packed = WantedIn(dst)
      /\ \A w \in WantedIn(dst) : w \in Wanted /\ match[w] \in ProvidedIn(src) /\ match[w].place = src
      /\ \A v, w \in WantedIn(dst) : match[v] = match[w] => v = w
      /\ \A f \in ProvidedIn(src) : \E w \in WantedIn(dst) : match[w] = f
    BY <1>1, CandidateFacts
<1>3. Planned /\ match \in [Wanted -> FileInfo] /\ DOMAIN match = Wanted
    BY <1>1 DEF Inv, Types, Early, Sorting, Repacking
<1>4. dst \notin isRepacked /\ src \in managed /\ WantedIn(dst) # {}
    BY <1>1 DEF Candidate
<1>5. /\ \A w \in WantedIn(dst) :
            /\ match'[w] \in FileInfo /\ match'[w].location = "Repacked"
            /\ match'[w].place = match[w].place /\ match'[w].pos = match[w].pos
            /\ match'[w].name = match[w].name /\ match'[w].hash = match[w].hash
      /\ \A w \in Wanted : w \notin WantedIn(dst) => match'[w] = match[w]
    <2>1. \A w \in WantedIn(dst) : w \in Wanted /\ match[w] \in FileInfo
        BY <1>2, <1>3
    <2>2. \A f \in FileInfo : LET g == [f EXCEPT !.location = "Repacked"]
                              IN  /\ g \in FileInfo /\ g.place = f.place /\ g.pos = f.pos
                                  /\ g.name = f.name /\ g.hash = f.hash /\ g.location = "Repacked"
        BY DEF FileInfo, Locations
    <2>3. \A w \in WantedIn(dst) : match'[w] = [match[w] EXCEPT !.location = "Repacked"]
        BY <1>1, <2>1
    <2> QED BY <1>1, <2>1, <2>2, <2>3
<1>6. /\ Planned' /\ Wanted' = Wanted /\ (\A w : Want(w)' = Want(w)) /\ (\A z : WantedIn(z)' = WantedIn(z))
      /\ match' \in [Wanted -> FileInfo]
    <2>1. Wanted' = Wanted /\ (\A w : Want(w)' = Want(w)) /\ (\A z : WantedIn(z)' = WantedIn(z))
        BY <1>1 DEF Wanted, Want, WantedIn
    <2>2. \A w \in Wanted : match'[w] \in FileInfo
        BY <1>3, <1>5
    <2>3. match' = [w \in Wanted |-> match'[w]]
        BY <1>1
    <2>4. match' \in [Wanted -> FileInfo] /\ DOMAIN match' = Wanted
        BY <2>2, <2>3
    <2> QED BY <1>3, <2>1, <2>4 DEF Planned
<1>7. LocalFiles' = LocalFiles \ ProvidedIn(src) /\ ProvidedIn(src)' = {}
      /\ \A p : p # src => ProvidedIn(p)' = ProvidedIn(p)
    BY <1>1 DEF LocalFiles, ProvidedIn
<1>8. /\ zip'[src] = <<>> /\ \A p \in Places : p # src => zip'[p] = zip[p]
      /\ zipRepacked'[dst] = zip[src] /\ \A p \in Places : p # dst => zipRepacked'[p] = zipRepacked[p]
    BY <1>1, PlacesFacts DEF Inv, Types
<1>9. Types'
    <2>1. zip' \in [Places -> Contentful] /\ \A p \in Foreign : zip'[p] \in Seq(File)
        BY <1>1, TornFacts DEF Inv, Types, Contentful
    <2>2. zipRepacked' \in [Places -> Contentful]
        BY <1>1 DEF Inv, Types
    <2>3. provided' \subseteq FileInfo /\ packed' \subseteq Wanted /\ isRepacked' \subseteq Zips /\ isReduced' \subseteq managed
        BY <1>1, <1>2, <1>4 DEF Inv, Types
    <2> QED BY <1>1, <1>6, <2>1, <2>2, <2>3 DEF Inv, Types, Early, Sorting, Repacking, Working
<1>10. PlanFits'
    <2>1. \A w \in Wanted : match'[w].hash = match[w].hash
        BY <1>5
    <2>2. \A w \in Wanted : match'[w].location = "Remote" => match'[w] = match[w]
        BY <1>5
    <2>3. \A p : ProvidedIn(p) = {} => ProvidedIn(p)' = {}
        BY <1>7
    <2>4. \A w \in Wanted : /\ exact' => match'[w].hash = Want(w)'.hash
                            /\ contentsOf[match'[w].hash] = contentsOf[Want(w)'.hash]
        BY <1>1, <1>3, <1>6, <2>1 DEF Inv, PlanFits
    <2>5. ASSUME NEW w \in Wanted, match'[w].location = "Remote"
          PROVE  /\ match'[w].place \in Urls /\ match'[w].pos \in DOMAIN Remote[match'[w].place]
                 /\ Remote[match'[w].place][match'[w].pos].name = match'[w].name
                 /\ Remote[match'[w].place][match'[w].pos].hash = match'[w].hash
                 /\ \A p : p = match'[w].place => ProvidedIn(p)' = {}
        BY <1>3, <2>2, <2>3, <2>5 DEF Inv, PlanFits
    <2>6. \A z \in Zips : target'[z] # <<>> => z \in managed'
        BY <1>1, <1>3 DEF Inv, PlanFits
    <2> QED BY <1>6, <2>4, <2>5, <2>6 DEF PlanFits
<1>11. Counted'
    <2>1. packed' = {w \in Wanted : w[1] \in isRepacked'}
        BY <1>1 DEF Inv, Counted, Repacking, WantedIn
    <2>2. \A z \in isRepacked' : WantedIn(z) # {}
        BY <1>1, <1>4 DEF Inv, Counted, Repacking
    <2>3. \A w \in Wanted \ packed' : match'[w] \in LocalFiles'
        <3> SUFFICES ASSUME NEW w \in Wanted, w \notin packed, w \notin WantedIn(dst)
                     PROVE  match'[w] \in LocalFiles'
            BY <1>1
        <3>1. match[w] \in LocalFiles
            BY <1>1 DEF Inv, Counted, Repacking
        <3>2. match[w].place # src
            BY <1>2 DEF UsedIn
        <3> QED BY <1>5, <1>7, <3>1, <3>2 DEF ProvidedIn
    <2>4. \A p : UsedIn(p)' = UsedIn(p)
        <3>1. \A w \in Wanted : match'[w].place = match[w].place
            BY <1>5
        <3> QED BY <1>6, <3>1 DEF UsedIn
    <2>5. \A p \in Places : usedCnt'[p] = Cardinality(UsedIn(p) \ packed')
        <3>1. ASSUME NEW p \in Places, p # src PROVE usedCnt'[p] = Cardinality(UsedIn(p) \ packed')
            <4>1. UsedIn(p) \ packed' = UsedIn(p) \ packed
                BY <1>1, <1>2, <3>1 DEF UsedIn
            <4> QED BY <1>1, <3>1, <4>1 DEF Inv, Counted, Repacking
        <3>2. usedCnt'[src] = Cardinality(UsedIn(src) \ packed')
            <4>1. UsedIn(src) \ packed' = {}
                BY <1>1, <1>2
            <4>2. usedCnt'[src] = 0
                BY <1>1 DEF Inv, Counted, Repacking
            <4> QED BY <4>1, <4>2, FS_EmptySet
        <3> QED BY <3>1, <3>2
    <2>6. usedCnt' \in [Places -> Nat]
        BY <1>1 DEF Inv, Counted, Repacking
    <2> QED BY <1>1, <1>6, <2>1, <2>2, <2>3, <2>4, <2>5, <2>6 DEF Counted, Repacking
<1>12. Tidy'
    <2>1. \A u \in Urls : zipRepacked'[u] = <<>>
        BY <1>8, PlacesFacts DEF Inv, Tidy
    <2>2. \A p \in isReduced' : zip'[p] = <<>>
        BY <1>1, <1>8 DEF Inv, Types, Tidy, Sorting, Repacking
    <2>3. \A z \in Zips \ isRepacked' : zipRepacked'[z] = <<>>
        BY <1>1, <1>8, PlacesFacts DEF Inv, Tidy, Repacking
    <2> QED BY <1>1, <2>1, <2>2, <2>3 DEF Tidy, Working
<1>13. Usable' => Usable
    BY <1>1, <1>3 DEF Usable, Early, Sorting, Repacking
<1>14. Mirror'
    <2>1. Usable => \A z \in Zips : zip'[z] # <<>> \/ zipRepacked'[z] # <<>> => z \in managed
        <3>1. dst \in managed
            BY <1>3, <1>4, WantedFacts DEF Inv, Types, PlanFits
        <3> QED BY <1>8, <3>1, PlacesFacts DEF Inv, Mirror
    <2>2. Usable => \A p \in Places : \/ ProvidedIn(p)' = {}
                                      \/ p \in Urls /\ zip'[p] = <<>>
                                      \/ Lists(ProvidedIn(p)', zip'[p])
        BY <1>7, <1>8 DEF Inv, Mirror
    <2> QED BY <1>1, <1>13, <2>1, <2>2 DEF Mirror
<1>15. TrueMirror'
    BY <1>1, <1>7, <1>8, <1>13, ListsEmpty DEF Inv, TrueMirror
<1>16. RepackedRight'
    <2>1. made # "outdated" => SameIf(exact, zip[src], target[dst])
        BY <1>1, RenamedIsRight
    <2>2. \A z \in isRepacked : z # dst => zipRepacked'[z] = zipRepacked[z]
        BY <1>8, PlacesFacts DEF Inv, Types
    <2> QED BY <1>1, <1>4, <1>8, <2>1, <2>2 DEF Inv, RepackedRight, Sorting, Repacking
<1>17. Finished'
    BY <1>1 DEF Inv, Finished, Early, Sorting, Repacking
<1>18. Listed'
    <2> SUFFICES ASSUME made = "current"
                 PROVE  /\ \A p \in Places : IF p \in isReduced' THEN ProvidedIn(p)' = {}
                                                                 ELSE Lists(ProvidedIn(p)', zip'[p])
                        /\ \A p \in Places \ isReduced' : zipReduced[p] = <<>> \/ (pc = "remove" /\ at = p)
                        /\ \A z \in isRepacked' : Lists({match'[w] : w \in WantedIn(z)}, zipRepacked'[z])
        BY <1>1, <1>6 DEF Inv, Listed, Repacking
    <2>1. \A p \in Places : IF p \in isReduced' THEN ProvidedIn(p)' = {}
                                                ELSE Lists(ProvidedIn(p)', zip'[p])
        BY <1>1, <1>7, <1>8 DEF Inv, Listed, Repacking
    <2>2. \A p \in Places \ isReduced' : zipReduced[p] = <<>> \/ (pc = "remove" /\ at = p)
        BY <1>1 DEF Inv, Listed, Repacking
    <2>3. ASSUME NEW z \in isRepacked, z # dst
          PROVE  Lists({match'[w] : w \in WantedIn(z)}, zipRepacked'[z])
        <3>1. {match'[w] : w \in WantedIn(z)} = {match[w] : w \in WantedIn(z)}
            BY <1>5, <2>3 DEF WantedIn
        <3>2. zipRepacked'[z] = zipRepacked[z]
            BY <1>8, <2>3, PlacesFacts DEF Inv, Types
        <3> QED BY <1>1, <3>1, <3>2 DEF Inv, Listed, Repacking
    <2>4. Lists({match'[w] : w \in WantedIn(dst)}, zipRepacked'[dst])
        <3>1. Lists(ProvidedIn(src), zip[src])
            BY <1>1, RenamedIsRight
        <3>2. \A v, w \in WantedIn(dst) : match'[v].pos = match'[w].pos => v = w
            BY <1>2, <1>5, <3>1 DEF Lists
        <3>3. \A w \in WantedIn(dst) :
                  /\ match'[w].pos \in DOMAIN zip[src] /\ zip[src][match'[w].pos].name = match'[w].name
                  /\ zip[src][match'[w].pos].hash = match'[w].hash
            BY <1>2, <1>5, <3>1 DEF Lists
        <3>4. \A i \in DOMAIN zip[src] : \E w \in WantedIn(dst) : match'[w].pos = i
            BY <1>2, <1>5, <3>1 DEF Lists
        <3>5. zip[src] \in Seq(File)
            BY <3>1 DEF Lists
        <3>6. Lists({match'[w] : w \in WantedIn(dst)}, zip[src])
            BY <3>2, <3>3, <3>4, <3>5 DEF Lists
        <3> QED BY <1>8, <3>6
    <2> QED BY <1>1, <2>1, <2>2, <2>3, <2>4
<1> QED BY <1>9, <1>10, <1>11, <1>12, <1>14, <1>15, <1>16, <1>17, <1>18 DEF Inv

-----------------------------------------------------------------------------
(* Reducing.                                                               *)

LEMMA KeptFacts ==
    ASSUME Types, NEW p \in Places, zip[p] \in Seq(File)
    PROVE  /\ Kept(p) \in SUBSET Nat /\ IsFiniteSet(Kept(p)) /\ Kept(p) \subseteq Found(p)
           /\ Found(p) \subseteq DOMAIN zip[p] /\ IsFiniteSet(Found(p)) /\ Found(p) \in SUBSET Nat
           /\ \A i \in Found(p) : HashAt(p, i) \in Hashes
           /\ \A i \in Found(p) : \E f \in ProvidedIn(p) : f.pos = i /\ HashAt(p, i) = f.hash
<1>1. DOMAIN zip[p] = 1 .. Len(zip[p]) /\ Len(zip[p]) \in Int
    OBVIOUS
<1>2. Found(p) \subseteq DOMAIN zip[p] /\ Kept(p) \subseteq Found(p)
    BY DEF Kept, Found
<1>3. DOMAIN zip[p] \in SUBSET Nat /\ IsFiniteSet(DOMAIN zip[p])
    <2>1. \A n \in Int : IsFiniteSet(1 .. n) /\ 1 .. n \in SUBSET Nat
        BY FS_Interval
    <2> QED BY <1>1, <2>1
<1>4. IsFiniteSet(Found(p)) /\ IsFiniteSet(Kept(p))
    BY <1>2, <1>3, FS_Subset
<1>5. \A i \in Found(p) : \E f \in ProvidedIn(p) : f.pos = i /\ HashAt(p, i) = f.hash
    BY DEF Found, HashAt
<1>6. \A f \in ProvidedIn(p) : f.hash \in Hashes
    BY DEF ProvidedIn, LocalFiles, Types, FileInfo
<1> QED BY <1>2, <1>3, <1>4, <1>5, <1>6

LEMMA WriteReducedStep == ASSUME Inv, NEW p \in Places, WriteReduced(p) PROVE Inv'
<1>1. /\ pc = "reduce" /\ p \in Reducible /\ zip[p] \notin {<<>>, Torn}
      /\ pc' = "remove" /\ at' = p
      /\ UNCHANGED <<zip, zipRepacked, after, plan, packed, usedCnt, isRepacked, isReduced,
                     troubles, history>>
    BY DEF WriteReduced
<1>2. PICK kept \in InOrder(Kept(p)) :
          /\ zipReduced' = [zipReduced EXCEPT ![p] = [i \in DOMAIN kept |-> zip[p][kept[i]]]]
          /\ reducedMani' = reducedMani \cup
                {[place |-> p, pos |-> i, name |-> zip[p][kept[i]].name,
                  hash |-> HashAt(p, kept[i]), location |-> "Reduced"] : i \in DOMAIN kept}
    BY DEF WriteReduced
<1> USE DEF plan, history
<1>3. zip[p] \in Seq(File)
    BY <1>1 DEF Inv, Types, Contentful
<1>4. /\ Kept(p) \in SUBSET Nat /\ IsFiniteSet(Kept(p)) /\ Kept(p) \subseteq Found(p)
      /\ Found(p) \subseteq DOMAIN zip[p]
      /\ \A i \in Found(p) : HashAt(p, i) \in Hashes
      /\ \A i \in Found(p) : \E f \in ProvidedIn(p) : f.pos = i /\ HashAt(p, i) = f.hash
    BY <1>3, KeptFacts DEF Inv
<1>5. /\ Cardinality(Kept(p)) \in Nat /\ DOMAIN kept = 1 .. Cardinality(Kept(p))
      /\ \A i \in DOMAIN kept : kept[i] \in Kept(p)
    BY <1>2, <1>4, InOrderFacts
<1> DEFINE content == [i \in DOMAIN kept |-> zip[p][kept[i]]]
           entry(i) == [place |-> p, pos |-> i, name |-> zip[p][kept[i]].name,
                        hash |-> HashAt(p, kept[i]), location |-> "Reduced"]
           entries == {entry(i) : i \in DOMAIN kept}
<1>6. content \in Seq(File)
    <2>1. \A i \in DOMAIN kept : zip[p][kept[i]] \in File
        BY <1>3, <1>4, <1>5
    <2> QED BY <1>5, <2>1
<1>7. ASSUME NEW i \in DOMAIN kept
      PROVE  /\ entry(i) \in FileInfo /\ entry(i).place = p /\ entry(i).pos = i
             /\ entry(i).location = "Reduced" /\ entry(i).name = content[i].name
             /\ entry(i).hash = HashAt(p, kept[i])
    <2>1. kept[i] \in Found(p) /\ i \in Nat /\ zip[p][kept[i]] \in File
        BY <1>3, <1>4, <1>5
    <2>2. HashAt(p, kept[i]) \in Hashes
        BY <1>4, <2>1
    <2> QED BY <2>1, <2>2 DEF FileInfo, File, Locations
<1>8. zipReduced' = [zipReduced EXCEPT ![p] = content] /\ reducedMani' = reducedMani \cup entries
    BY <1>2
<1>9. \A f \in entries : f \in FileInfo /\ f.place = p /\ f.location = "Reduced"
    BY <1>7
<1> HIDE DEF entry
<1>10. Planned' = Planned /\ Wanted' = Wanted /\ (\A q : ProvidedIn(q)' = ProvidedIn(q))
      /\ LocalFiles' = LocalFiles /\ (\A q : UsedIn(q)' = UsedIn(q)) /\ (\A w : Want(w)' = Want(w))
      /\ (\A z : WantedIn(z)' = WantedIn(z)) /\ Reducible' = Reducible
    BY <1>1 DEF Planned, Wanted, ProvidedIn, LocalFiles, Want, UsedIn, WantedIn, Reducible
<1>11. Types'
    <2>1. zipReduced' \in [Places -> Seq(File)]
        BY <1>6, <1>8 DEF Inv, Types
    <2>2. reducedMani' \subseteq FileInfo /\ \A f \in reducedMani' : f.location = "Reduced"
        BY <1>8, <1>9 DEF Inv, Types
    <2> QED BY <1>1, <1>10, <2>1, <2>2 DEF Inv, Types, Working, Early, Sorting, Repacking
<1>12. PlanFits'
    BY <1>1, <1>10 DEF Inv, PlanFits
<1>13. Counted'
    BY <1>1, <1>10 DEF Inv, Counted, Repacking
<1>14. Tidy'
    BY <1>1 DEF Inv, Tidy, Sorting, Repacking, Working
<1>15. Mirror' /\ TrueMirror'
    BY <1>1, <1>10 DEF Inv, Mirror, TrueMirror, Usable, Early, Sorting, Repacking
<1>16. RepackedRight' /\ Finished'
    BY <1>1 DEF Inv, RepackedRight, Finished, Sorting, Repacking, Early
<1>17. Listed'
    <2> SUFFICES ASSUME made = "current"
                 PROVE  /\ \A q \in Places : Lists({f \in reducedMani' : f.place = q}, zipReduced'[q])
                        /\ \A q \in Places \ isReduced : zipReduced'[q] = <<>> \/ q = p
        BY <1>1, <1>10 DEF Inv, Listed, Repacking
    <2>1. p \notin isReduced /\ zipReduced[p] = <<>> /\ {f \in reducedMani : f.place = p} = {}
        BY <1>1, ListsEmpty DEF Inv, Listed, Repacking, Reducible
    <2>2. Lists(ProvidedIn(p), zip[p])
        BY <1>1, <2>1 DEF Inv, Listed, Repacking
    <2>3. \A q \in Places : q # p => zipReduced'[q] = zipReduced[q]
        BY <1>8 DEF Inv, Types
    <2>4. \A q \in Places : q # p => {f \in reducedMani' : f.place = q} = {f \in reducedMani : f.place = q}
        BY <1>8, <1>9
    <2>5. {f \in reducedMani' : f.place = p} = entries /\ zipReduced'[p] = content
        BY <1>8, <1>9, <2>1 DEF Inv, Types
    <2>6. \A i \in DOMAIN kept : entry(i).hash = content[i].hash
        <3> SUFFICES ASSUME NEW i \in DOMAIN kept PROVE entry(i).hash = content[i].hash
            OBVIOUS
        <3>1. PICK f \in ProvidedIn(p) : f.pos = kept[i] /\ HashAt(p, kept[i]) = f.hash
            BY <1>4, <1>5
        <3>2. zip[p][kept[i]].hash = f.hash
            BY <2>2, <3>1 DEF Lists
        <3> QED BY <1>7, <3>1, <3>2
    <2>7. Lists(entries, content)
        <3>1. DOMAIN content = DOMAIN kept
            OBVIOUS
        <3>2. \A f \in entries : \E i \in DOMAIN content : f = entry(i)
            OBVIOUS
        <3>3. \A i \in DOMAIN content : /\ entry(i) \in entries /\ entry(i).pos = i
                                        /\ entry(i).name = content[i].name
                                        /\ entry(i).hash = content[i].hash
            BY <1>7, <2>6
        <3> HIDE DEF entries, content
        <3> QED BY <1>6, <3>2, <3>3 DEF Lists
    <2>8. \A q \in Places \ isReduced : zipReduced'[q] = <<>> \/ q = p
        BY <1>1, <2>3 DEF Inv, Listed, Repacking
    <2>9. \A q \in Places : Lists({f \in reducedMani : f.place = q}, zipReduced[q])
        BY <1>1 DEF Inv, Listed, Repacking
    <2>10. \A q \in Places : Lists({f \in reducedMani' : f.place = q}, zipReduced'[q])
        <3> HIDE DEF entries, content
        <3> QED BY <2>3, <2>4, <2>5, <2>7, <2>9
    <2> QED BY <2>8, <2>10
<1> QED BY <1>11, <1>12, <1>13, <1>14, <1>15, <1>16, <1>17 DEF Inv

LEMMA RemoveOldStep == ASSUME Inv, RemoveOld PROVE Inv'
<1>1. /\ pc = "remove" /\ zip' = [zip EXCEPT ![at] = <<>>]
      /\ provided' = provided \ ProvidedIn(at)
      /\ isReduced' = isReduced \cup {at}
      /\ pc' = "reduce" /\ at' = Torn
      /\ UNCHANGED <<zipRepacked, zipReduced, after, target, exact, localManifest, managed,
                     match, packed, reducedMani, usedCnt, hashProvidedCnt, isRepacked,
                     troubles, history>>
    BY DEF RemoveOld
<1> USE DEF history
<1>2. at \in managed /\ at \notin isReduced /\ usedCnt[at] = 0 /\ at \in Places
    BY <1>1, PlacesFacts DEF Inv, Types, Counted, Reducible
<1>3. Planned' = Planned /\ Wanted' = Wanted /\ (\A p : UsedIn(p)' = UsedIn(p)) /\ (\A w : Want(w)' = Want(w))
      /\ (\A z : WantedIn(z)' = WantedIn(z))
    BY <1>1 DEF Planned, Wanted, Want, UsedIn, WantedIn
<1>4. LocalFiles' = LocalFiles \ ProvidedIn(at)
      /\ \A p : ProvidedIn(p)' = IF p = at THEN {} ELSE ProvidedIn(p)
    BY <1>1 DEF LocalFiles, ProvidedIn
<1>5. zip'[at] = <<>> /\ \A p \in Places : p # at => zip'[p] = zip[p]
    BY <1>1, <1>2 DEF Inv, Types
<1>6. Types'
    <2>1. zip' \in [Places -> Contentful] /\ \A p \in Foreign : zip'[p] \in Seq(File)
        <3>1. <<>> \in Contentful /\ <<>> \in Seq(File) /\ zip \in [Places -> Contentful]
            BY TornFacts DEF Inv, Types, Contentful
        <3>2. zip' \in [Places -> Contentful]
            BY <1>1, <3>1
        <3>3. \A p \in Foreign : zip'[p] \in Seq(File)
            <4>1. \A p \in Foreign : p \in Places /\ zip[p] \in Seq(File)
                BY DEF Inv, Types, Places, Local
            <4> QED BY <1>5, <3>1, <4>1
        <3> QED BY <3>2, <3>3
    <2> QED BY <1>1, <1>2, <1>3, <2>1 DEF Inv, Types, Early, Sorting, Repacking, Working
<1>7. PlanFits'
    BY <1>1, <1>3, <1>4 DEF Inv, PlanFits
<1>8. Counted'
    <2>1. \A w \in Wanted \ packed : match[w].place # at
        <3>1. Cardinality(UsedIn(at) \ packed) = 0
            BY <1>1, <1>2 DEF Inv, Counted, Repacking
        <3>2. IsFiniteSet(UsedIn(at) \ packed)
            BY UsedFacts DEF Inv
        <3>3. UsedIn(at) \ packed = {}
            BY <3>1, <3>2, FS_EmptySet
        <3> QED BY <3>3 DEF UsedIn
    <2>2. \A w \in Wanted \ packed : match[w] \in LocalFiles'
        BY <1>1, <1>4, <2>1 DEF Inv, Counted, Repacking, ProvidedIn
    <2> QED BY <1>1, <1>3, <2>2 DEF Inv, Counted, Repacking
<1>9. Tidy'
    <2>1. \A p \in isReduced' : zip'[p] = <<>>
        BY <1>1, <1>5, PlacesFacts DEF Inv, Types, Tidy, Sorting, Repacking
    <2> QED BY <1>1, <2>1 DEF Inv, Tidy, Sorting, Repacking, Working
<1>10. Usable' => Usable
    BY <1>1, <1>3 DEF Usable, Early, Sorting, Repacking
<1>11. Mirror'
    BY <1>1, <1>4, <1>5, <1>10, PlacesFacts DEF Inv, Mirror
<1>12. TrueMirror'
    BY <1>1, <1>4, <1>5, <1>10, ListsEmpty DEF Inv, TrueMirror
<1>13. RepackedRight' /\ Finished'
    BY <1>1 DEF Inv, RepackedRight, Finished, Sorting, Repacking, Early
<1>14. Listed'
    <2> SUFFICES ASSUME made = "current"
                 PROVE  /\ \A p \in Places : IF p \in isReduced' THEN ProvidedIn(p)' = {}
                                                                 ELSE Lists(ProvidedIn(p)', zip'[p])
                        /\ \A p \in Places \ isReduced' : zipReduced[p] = <<>>
        BY <1>1, <1>3 DEF Inv, Listed, Repacking
    <2> QED BY <1>1, <1>4, <1>5 DEF Inv, Listed, Repacking
<1> QED BY <1>6, <1>7, <1>8, <1>9, <1>11, <1>12, <1>13, <1>14 DEF Inv

LEMMA ReducedStep == ASSUME Inv, Reduced PROVE Inv'
<1>1. /\ pc = "reduce" /\ \A p \in Reducible : zip[p] = <<>>
      /\ isReduced' = isReduced \cup Reducible
      /\ pc' = "pack"
      /\ UNCHANGED <<disk, at, after, plan, packed, reducedMani, usedCnt, hashProvidedCnt,
                     isRepacked, troubles, history>>
    BY DEF Reduced
<1> USE DEF plan, history, disk
<1>2. Planned' = Planned /\ Wanted' = Wanted /\ (\A p : ProvidedIn(p)' = ProvidedIn(p))
      /\ LocalFiles' = LocalFiles /\ (\A p : UsedIn(p)' = UsedIn(p)) /\ (\A w : Want(w)' = Want(w))
      /\ (\A z : WantedIn(z)' = WantedIn(z)) /\ Reducible' = {} /\ Reducible \subseteq managed
    BY <1>1 DEF Planned, Wanted, ProvidedIn, LocalFiles, Want, UsedIn, WantedIn, Reducible
<1>3. Types'
    BY <1>1, <1>2 DEF Inv, Types, Working, Early, Sorting, Repacking
<1>4. PlanFits'
    BY <1>1, <1>2 DEF Inv, PlanFits
<1>5. Counted'
    BY <1>1, <1>2 DEF Inv, Counted, Repacking
<1>6. Tidy'
    BY <1>1 DEF Inv, Tidy, Sorting, Repacking, Working
<1>7. Mirror' /\ TrueMirror'
    BY <1>1, <1>2 DEF Inv, Mirror, TrueMirror, Usable, Early, Sorting, Repacking
<1>8. RepackedRight' /\ Finished'
    BY <1>1 DEF Inv, RepackedRight, Finished, Sorting, Repacking, Early
<1>9. Listed'
    <2> SUFFICES ASSUME made = "current", NEW p \in Places
                 PROVE  /\ p \in isReduced' => ProvidedIn(p) = {}
                        /\ p \notin isReduced' => Lists(ProvidedIn(p), zip[p]) /\ zipReduced[p] = <<>>
        BY <1>1, <1>2 DEF Inv, Listed, Repacking
    <2>1. IF p \in isReduced THEN ProvidedIn(p) = {} ELSE Lists(ProvidedIn(p), zip[p])
        BY <1>1 DEF Inv, Listed, Repacking
    <2>2. p \notin isReduced => zipReduced[p] = <<>>
        BY <1>1 DEF Inv, Listed, Repacking
    <2> QED BY <1>1, <2>1, <2>2, ListsEmpty
<1> QED BY <1>3, <1>4, <1>5, <1>6, <1>7, <1>8, <1>9 DEF Inv

-----------------------------------------------------------------------------
(* Packing.                                                                *)

LEMMA OpenRepackedStep == ASSUME Inv, NEW z \in Zips, OpenRepacked(z) PROVE Inv'
<1>1. /\ pc = "pack" /\ z \in ToRepack
      /\ zipRepacked' = [zipRepacked EXCEPT ![z] = Torn]
      /\ pc' = "packing" /\ at' = z
      /\ UNCHANGED <<zip, zipReduced, after, plan, repacker, troubles, history>>
    BY DEF OpenRepacked
<1> USE DEF plan, history, repacker
<1>2. Planned' = Planned /\ Wanted' = Wanted /\ (\A p : ProvidedIn(p)' = ProvidedIn(p))
      /\ LocalFiles' = LocalFiles /\ (\A p : UsedIn(p)' = UsedIn(p)) /\ (\A w : Want(w)' = Want(w))
      /\ (\A y : WantedIn(y)' = WantedIn(y)) /\ ToRepack' = ToRepack
    BY <1>1 DEF Planned, Wanted, ProvidedIn, LocalFiles, Want, UsedIn, WantedIn, ToRepack
<1>3. z \notin isRepacked /\ WantedIn(z) # {} /\ z \in Places /\ z \notin Urls
    BY <1>1, PlacesFacts DEF ToRepack
<1>4. Planned /\ z \in managed
    <2>1. Planned
        BY <1>1 DEF Inv, Types, Early, Sorting, Repacking
    <2> QED BY <1>3, <2>1, WantedFacts DEF Inv, Types, PlanFits
<1>5. zipRepacked'[z] = Torn /\ \A p \in Places : p # z => zipRepacked'[p] = zipRepacked[p]
    BY <1>1, <1>3 DEF Inv, Types
<1>6. Types'
    <2>1. zipRepacked' \in [Places -> Contentful]
        BY <1>1 DEF Inv, Types, Contentful
    <2> QED BY <1>1, <1>2, <1>3, <2>1 DEF Inv, Types, Working, Early, Sorting, Repacking
<1>7. PlanFits'
    BY <1>1, <1>2 DEF Inv, PlanFits
<1>8. Counted'
    BY <1>1, <1>2 DEF Inv, Counted, Repacking
<1>9. Tidy'
    <2>1. \A u \in Urls : zipRepacked'[u] = <<>>
        BY <1>3, <1>5, PlacesFacts DEF Inv, Tidy
    <2>2. \A y \in Zips \ isRepacked : zipRepacked'[y] = <<>> \/ y = z
        BY <1>1, <1>5, PlacesFacts DEF Inv, Tidy, Repacking
    <2> QED BY <1>1, <2>1, <2>2 DEF Inv, Tidy, Sorting, Repacking, Working
<1>10. Usable' => Usable
    BY <1>1, <1>2 DEF Usable, Early, Sorting, Repacking
<1>11. Mirror'
    <2>1. Usable => \A y \in Zips : zip[y] # <<>> \/ zipRepacked'[y] # <<>> => y \in managed
        BY <1>4, <1>5, PlacesFacts DEF Inv, Mirror
    <2> QED BY <1>1, <1>2, <1>10, <2>1 DEF Inv, Mirror
<1>12. TrueMirror'
    BY <1>1, <1>2, <1>10 DEF Inv, TrueMirror
<1>13. \A y \in isRepacked : zipRepacked'[y] = zipRepacked[y]
    BY <1>3, <1>5, PlacesFacts DEF Inv, Types
<1>14. RepackedRight' /\ Finished'
    BY <1>1, <1>13 DEF Inv, RepackedRight, Finished, Sorting, Repacking, Early
<1>15. Listed'
    BY <1>1, <1>2, <1>13 DEF Inv, Listed, Repacking
<1> QED BY <1>6, <1>7, <1>8, <1>9, <1>11, <1>12, <1>14, <1>15 DEF Inv

\* What is matched can be copied, and what is copied is what the list says.
LEMMA SourceFacts ==
    ASSUME Inv, pc = "packing", made # "outdated", NEW w \in WantedIn(at)
    PROVE  /\ w \in Wanted \ packed /\ Planned
           /\ Readable(match[w]) =>
                 /\ Lists(ProvidedIn(match[w].place), zip[match[w].place])
                 /\ OnDisk(match[w]).hash = match[w].hash
<1>1. Usable /\ Planned
    BY DEF Inv, Types, Usable, Early, Sorting, Repacking
<1>2. at \in ToRepack
    BY DEF Inv, Counted
<1>3. w \in Wanted \ packed
    BY <1>2 DEF Inv, Counted, Repacking, ToRepack, WantedIn
<1>4. match[w] \in ProvidedIn(match[w].place) /\ match[w].place \in Places
    BY <1>1, <1>3 DEF Inv, Types, Counted, Repacking, ProvidedIn, FileInfo
<1>5. ASSUME Readable(match[w]) PROVE Lists(ProvidedIn(match[w].place), zip[match[w].place])
    <2>1. zip[match[w].place] # <<>>
        BY <1>5 DEF Readable
    <2> QED BY <1>1, <1>4, <2>1 DEF Inv, Mirror
<1>6. Readable(match[w]) => OnDisk(match[w]).hash = match[w].hash
    BY <1>4, <1>5 DEF OnDisk, Lists
<1> QED BY <1>1, <1>3, <1>5, <1>6

\* What is copied to the new zip is right, and listed as it is.
LEMMA CopiedFacts ==
    ASSUME Inv, pc = "packing", NEW w \in WantedIn(at), Sound(w), NEW h \in Copied(w)
    PROVE  /\ made # "outdated" => IF exact THEN h = Want(w).hash
                                   ELSE contentsOf[h] = contentsOf[Want(w).hash]
                                        /\ levelOf[h] = levelOf[Want(w).hash]
           /\ made # "outdated" /\ Raw(w) => h = match[w].hash
           /\ exact => Raw(w)
           /\ exact => match[w].hash = Want(w).hash
           /\ contentsOf[match[w].hash] = contentsOf[Want(w).hash]
           /\ ~Raw(w) => contentsOf[h] = contentsOf[Want(w).hash]
<1>1. Planned /\ w \in Wanted
    BY DEF Inv, Types, Early, Sorting, Repacking, WantedIn
<1>2. /\ exact => match[w].hash = Want(w).hash
      /\ contentsOf[match[w].hash] = contentsOf[Want(w).hash]
    BY <1>1 DEF Inv, PlanFits
<1>3. exact => Raw(w)
    BY <1>2 DEF Raw
<1>4. Readable(match[w]) /\ contentsOf[OnDisk(match[w]).hash] = contentsOf[Want(w).hash]
    BY DEF Sound
<1>5. made # "outdated" => OnDisk(match[w]).hash = match[w].hash
    BY <1>4, SourceFacts
<1>6. IF Raw(w) THEN h = OnDisk(match[w]).hash
      ELSE contentsOf[h] = contentsOf[OnDisk(match[w]).hash] /\ levelOf[h] = levelOf[Want(w).hash]
    BY DEF Copied
<1>7. Raw(w) => match[w].hash = Want(w).hash \/ (~exact /\ levelOf[OnDisk(match[w]).hash] = levelOf[Want(w).hash])
    BY DEF Raw
<1>8. made # "outdated" => IF exact THEN h = Want(w).hash
                           ELSE contentsOf[h] = contentsOf[Want(w).hash]
                                /\ levelOf[h] = levelOf[Want(w).hash]
    BY <1>2, <1>3, <1>4, <1>5, <1>6, <1>7
<1> QED BY <1>2, <1>3, <1>4, <1>5, <1>6, <1>8

LEMMA RepackStep == ASSUME Inv, Repack PROVE Inv'
<1> DEFINE n == Len(target[at])
           entry(w, h) == [place |-> at, pos |-> w[2], name |-> Want(w).name,
                           hash |-> h, location |-> "Repacked"]
<1>1. /\ pc = "packing" /\ pc' = "reduce" /\ at' = Torn
      /\ \A w \in WantedIn(at) : Sound(w)
      /\ usedCnt' = [p \in Places |-> usedCnt[p] - Cardinality(UsedIn(p) \cap WantedIn(at))]
      /\ packed' = packed \cup WantedIn(at)
      /\ isRepacked' = isRepacked \cup {at}
      /\ UNCHANGED <<zip, zipReduced, after, target, exact, localManifest, provided, managed,
                     reducedMani, isReduced, troubles, history>>
    BY DEF Repack
<1>2. PICK content \in Contents(n) :
          LET hash == [i \in DOMAIN content |-> IF Raw(<<at, i>>) THEN match[<<at, i>>].hash
                                                                 ELSE content[i].hash]
          IN  /\ zipRepacked' = [zipRepacked EXCEPT ![at] = content]
              /\ match' = [w \in Wanted |->
                   IF w[1] # at THEN match[w]
                   ELSE [place |-> at, pos |-> w[2], name |-> Want(w).name,
                         hash |-> hash[w[2]], location |-> "Repacked"]]
    BY DEF Repack
<1>3. PICK out \in [1 .. n -> Hashes] :
          /\ \A i \in 1 .. n : out[i] \in Copied(<<at, i>>)
          /\ content = [i \in 1 .. n |-> [name |-> target[at][i].name, hash |-> out[i]]]
    BY <1>2 DEF Contents
<1> DEFINE hash(i) == IF Raw(<<at, i>>) THEN match[<<at, i>>].hash ELSE content[i].hash
<1> USE DEF history
<1>4. at \in Zips /\ at \in Places /\ at \notin Urls /\ at \notin isRepacked /\ WantedIn(at) # {}
    BY <1>1, PlacesFacts DEF Inv, Counted, ToRepack
<1>5. Planned /\ match \in [Wanted -> FileInfo] /\ DOMAIN match = Wanted /\ at \in managed
    <2>1. Planned
        BY <1>1 DEF Inv, Types, Early, Sorting, Repacking
    <2> QED BY <1>4, <2>1, WantedFacts DEF Inv, Types, PlanFits
<1>6. /\ n \in Nat /\ DOMAIN target[at] = 1 .. n /\ DOMAIN content = 1 .. n
      /\ target[at] \in Seq(File)
    BY <1>3, <1>4, WantedCount DEF Inv, Types
<1>7. /\ \A i \in 1 .. n : <<at, i>> \in WantedIn(at) /\ <<at, i>> \in Wanted /\ Want(<<at, i>>) = target[at][i]
      /\ \A w \in Wanted : w[1] = at => w \in WantedIn(at) /\ w[2] \in 1 .. n /\ w = <<at, w[2]>> /\ Want(w) \in File
      /\ \A w \in WantedIn(at) : w \in Wanted /\ w[1] = at
    BY <1>4, <1>6, WantedFacts DEF Inv, Types, Want, WantedIn
<1>8. \A i \in 1 .. n : content[i].name = target[at][i].name /\ content[i].hash = out[i] /\ content[i] \in File
    <2> SUFFICES ASSUME NEW i \in 1 .. n
                 PROVE  content[i].name = target[at][i].name /\ content[i].hash = out[i] /\ content[i] \in File
        OBVIOUS
    <2>1. content[i] = [name |-> target[at][i].name, hash |-> out[i]] /\ out[i] \in Hashes
        BY <1>3
    <2>2. target[at][i] \in File
        BY <1>6
    <2> QED BY <2>1, <2>2 DEF File
<1>9. content \in Seq(File)
    <2>1. content = [i \in 1 .. n |-> content[i]]
        BY <1>3
    <2>2. content \in [1 .. n -> File]
        BY <1>8, <2>1, Zenon
    <2> HIDE DEF n
    <2> QED BY <1>6, <2>2
<1>10. ASSUME NEW i \in 1 .. n
       PROVE  LET w == <<at, i>> IN
              /\ made # "outdated" => IF exact THEN content[i].hash = Want(w).hash
                                   ELSE contentsOf[content[i].hash] = contentsOf[Want(w).hash]
                                        /\ levelOf[content[i].hash] = levelOf[Want(w).hash]
              /\ made # "outdated" => hash(i) = content[i].hash
              /\ exact => hash(i) = Want(w).hash
              /\ contentsOf[hash(i)] = contentsOf[Want(w).hash]
              /\ hash(i) \in Hashes
    <2> DEFINE w == <<at, i>>
    <2>1. w \in WantedIn(at) /\ Sound(w) /\ content[i].hash \in Copied(w) /\ content[i].hash \in Hashes
        BY <1>1, <1>3, <1>7, <1>8
    <2>2. match[w].hash \in Hashes
        BY <1>5, <1>7 DEF FileInfo
    <2>3. hash(i) = IF Raw(w) THEN match[w].hash ELSE content[i].hash
        OBVIOUS
    <2> HIDE DEF w, hash
    <2>4. /\ made # "outdated" => IF exact THEN content[i].hash = Want(w).hash
                                   ELSE contentsOf[content[i].hash] = contentsOf[Want(w).hash]
                                        /\ levelOf[content[i].hash] = levelOf[Want(w).hash]
          /\ made # "outdated" /\ Raw(w) => content[i].hash = match[w].hash
          /\ exact => Raw(w)
          /\ exact => match[w].hash = Want(w).hash
          /\ contentsOf[match[w].hash] = contentsOf[Want(w).hash]
          /\ ~Raw(w) => contentsOf[content[i].hash] = contentsOf[Want(w).hash]
        BY <1>1, <2>1, CopiedFacts
    <2> QED BY <2>1, <2>2, <2>3, <2>4 DEF w
<1>11. zipRepacked' = [zipRepacked EXCEPT ![at] = content]
    BY <1>2
<1>12. match' = [w \in Wanted |-> IF w[1] # at THEN match[w] ELSE entry(w, hash(w[2]))]
    BY <1>2, <1>6, <1>7
<1> HIDE DEF hash
<1>13. ASSUME NEW w \in Wanted
       PROVE  /\ w[1] # at => match'[w] = match[w]
              /\ w[1] = at => /\ match'[w] \in FileInfo /\ match'[w].place = at /\ match'[w].pos = w[2]
                              /\ match'[w].name = Want(w).name /\ match'[w].hash = hash(w[2])
                              /\ match'[w].location = "Repacked"
    <2>1. CASE w[1] # at
        BY <1>12, <2>1
    <2>2. CASE w[1] = at
        <3>1. hash(w[2]) \in Hashes /\ w[2] \in Nat /\ Want(w).name \in Names
            BY <1>6, <1>7, <1>10, <2>2 DEF File
        <3>2. match'[w] = entry(w, hash(w[2]))
            BY <1>12, <2>2
        <3> QED BY <1>4, <2>2, <3>1, <3>2 DEF FileInfo, Locations
    <2> QED BY <2>1, <2>2
<1>14. /\ Planned' /\ Wanted' = Wanted /\ (\A w : Want(w)' = Want(w)) /\ (\A z : WantedIn(z)' = WantedIn(z))
       /\ LocalFiles' = LocalFiles /\ (\A p : ProvidedIn(p)' = ProvidedIn(p))
       /\ match' \in [Wanted -> FileInfo]
    <2>1. Wanted' = Wanted /\ (\A w : Want(w)' = Want(w)) /\ (\A z : WantedIn(z)' = WantedIn(z))
          /\ LocalFiles' = LocalFiles /\ (\A p : ProvidedIn(p)' = ProvidedIn(p))
        BY <1>1 DEF Wanted, Want, WantedIn, LocalFiles, ProvidedIn
    <2>2. \A w \in Wanted : match'[w] \in FileInfo
        BY <1>5, <1>13
    <2>3. match' = [w \in Wanted |-> match'[w]]
        BY <1>12
    <2>4. match' \in [Wanted -> FileInfo] /\ DOMAIN match' = Wanted
        BY <2>2, <2>3
    <2> QED BY <1>5, <2>1, <2>4 DEF Planned
<1>15. zipRepacked'[at] = content /\ \A p \in Places : p # at => zipRepacked'[p] = zipRepacked[p]
    BY <1>4, <1>11 DEF Inv, Types
<1>16. Types'
    <2>1. zipRepacked' \in [Places -> Contentful]
        BY <1>9, <1>11 DEF Inv, Types, Contentful
    <2>2. packed' \subseteq Wanted /\ isRepacked' \subseteq Zips
        BY <1>1, <1>4, <1>7 DEF Inv, Types
    <2> QED BY <1>1, <1>14, <2>1, <2>2 DEF Inv, Types, Early, Sorting, Repacking, Working
<1>17. PlanFits'
    <2>1. \A w \in Wanted : /\ exact => match'[w].hash = Want(w).hash
                            /\ contentsOf[match'[w].hash] = contentsOf[Want(w).hash]
        <3> SUFFICES ASSUME NEW w \in Wanted
                     PROVE  /\ exact => match'[w].hash = Want(w).hash
                            /\ contentsOf[match'[w].hash] = contentsOf[Want(w).hash]
            OBVIOUS
        <3>1. CASE w[1] # at
            BY <1>5, <1>13, <3>1 DEF Inv, PlanFits
        <3>2. CASE w[1] = at
            BY <1>7, <1>10, <1>13, <3>2
        <3> QED BY <3>1, <3>2
    <2>2. \A w \in Wanted : match'[w].location = "Remote" => match'[w] = match[w]
        BY <1>13
    <2>3. ASSUME NEW w \in Wanted, match'[w].location = "Remote"
          PROVE  /\ match'[w].place \in Urls /\ match'[w].pos \in DOMAIN Remote[match'[w].place]
                 /\ Remote[match'[w].place][match'[w].pos].name = match'[w].name
                 /\ Remote[match'[w].place][match'[w].pos].hash = match'[w].hash
                 /\ \A p : p = match'[w].place => ProvidedIn(p)' = {}
        BY <1>5, <1>14, <2>2, <2>3 DEF Inv, PlanFits
    <2>4. exact' = exact /\ \A z \in Zips : target'[z] # <<>> => z \in managed'
        BY <1>1, <1>5 DEF Inv, PlanFits
    <2> QED BY <1>14, <2>1, <2>3, <2>4 DEF PlanFits
<1>18. WantedIn(at) \cap packed = {}
    BY <1>1, <1>4 DEF Inv, Counted, Repacking, WantedIn
<1>19. Counted'
    <2>1. packed' = {w \in Wanted : w[1] \in isRepacked'}
        BY <1>1 DEF Inv, Counted, Repacking, WantedIn
    <2>2. \A z \in isRepacked' : WantedIn(z) # {}
        BY <1>1, <1>4 DEF Inv, Counted, Repacking
    <2>3. \A w \in Wanted \ packed' : match'[w] \in LocalFiles
        BY <1>1, <1>7, <1>13 DEF Inv, Counted, Repacking
    <2>4. ASSUME NEW p \in Places
          PROVE  usedCnt'[p] \in Nat /\ usedCnt'[p] = Cardinality(UsedIn(p)' \ packed')
        <3>1. UsedIn(p)' \ packed' = (UsedIn(p) \ packed) \ WantedIn(at)
            BY <1>1, <1>7, <1>13, <1>14 DEF UsedIn
        <3>2. (UsedIn(p) \ packed) \cap WantedIn(at) = UsedIn(p) \cap WantedIn(at)
            BY <1>18
        <3>3. IsFiniteSet(UsedIn(p) \ packed)
            BY UsedFacts DEF Inv
        <3>4. /\ Cardinality((UsedIn(p) \ packed) \ WantedIn(at)) =
                     Cardinality(UsedIn(p) \ packed) - Cardinality((UsedIn(p) \ packed) \cap WantedIn(at))
              /\ Cardinality((UsedIn(p) \ packed) \ WantedIn(at)) \in Nat
            BY <3>3, FS_Difference, FS_CardinalityType
        <3>5. usedCnt[p] = Cardinality(UsedIn(p) \ packed)
            BY <1>1 DEF Inv, Counted, Repacking
        <3>6. usedCnt'[p] = usedCnt[p] - Cardinality(UsedIn(p) \cap WantedIn(at))
            BY <1>1
        <3> QED BY <3>1, <3>2, <3>4, <3>5, <3>6
    <2>5. usedCnt' \in [Places -> Nat]
        BY <1>1, <2>4
    <2> QED BY <1>1, <1>14, <2>1, <2>2, <2>3, <2>4, <2>5 DEF Counted, Repacking
<1>20. Tidy'
    <2>1. \A u \in Urls : zipRepacked'[u] = <<>>
        BY <1>4, <1>15, PlacesFacts DEF Inv, Tidy
    <2>2. \A y \in Zips \ isRepacked' : zipRepacked'[y] = <<>>
        BY <1>1, <1>15, PlacesFacts DEF Inv, Tidy, Repacking
    <2> QED BY <1>1, <2>1, <2>2 DEF Inv, Tidy, Sorting, Repacking, Working
<1>21. Usable' => Usable
    BY <1>1, <1>5 DEF Usable, Early, Sorting, Repacking
<1>22. Mirror'
    <2>1. Usable => \A y \in Zips : zip[y] # <<>> \/ zipRepacked'[y] # <<>> => y \in managed
        BY <1>5, <1>15, PlacesFacts DEF Inv, Mirror
    <2> QED BY <1>1, <1>14, <1>21, <2>1 DEF Inv, Mirror
<1>23. TrueMirror'
    BY <1>1, <1>14, <1>21 DEF Inv, TrueMirror
<1>24. \A y \in isRepacked : zipRepacked'[y] = zipRepacked[y] /\ y # at
    BY <1>4, <1>15, PlacesFacts DEF Inv, Types
<1>25. RepackedRight'
    <2>1. made # "outdated" => SameIf(exact, content, target[at])
        <3>1. content # Torn
            BY <1>9, TornFacts
        <3>2. \A i \in 1 .. n : content[i] \in Range(content)
            BY <1>6 DEF Range
        <3>3. \A g \in Range(target[at]) : \E i \in 1 .. n : g = target[at][i]
            BY <1>6 DEF Range
        <3>4. ASSUME made # "outdated", NEW i \in 1 .. n
              PROVE  /\ content[i].name = target[at][i].name
                     /\ IF exact THEN content[i].hash = target[at][i].hash
                        ELSE /\ contentsOf[content[i].hash] = contentsOf[target[at][i].hash]
                             /\ levelOf[content[i].hash] = levelOf[target[at][i].hash]
            <4>1. Want(<<at, i>>) = target[at][i] /\ content[i].name = target[at][i].name
                BY <1>7, <1>8
            <4>2. IF exact THEN content[i].hash = Want(<<at, i>>).hash
                  ELSE /\ contentsOf[content[i].hash] = contentsOf[Want(<<at, i>>).hash]
                       /\ levelOf[content[i].hash] = levelOf[Want(<<at, i>>).hash]
                BY <1>10, <3>4
            <4> QED BY <4>1, <4>2
        <3> HIDE DEF n
        <3> QED BY <1>6, <3>1, <3>2, <3>3, <3>4 DEF SameIf
    <2> QED BY <1>1, <1>15, <1>24, <2>1 DEF Inv, RepackedRight, Sorting, Repacking
<1>26. Finished'
    BY <1>1 DEF Inv, Finished, Early, Sorting, Repacking
<1>27. Listed'
    <2> SUFFICES ASSUME made = "current", NEW y \in isRepacked'
                 PROVE  Lists({match'[w] : w \in WantedIn(y)}, zipRepacked'[y])
        BY <1>1, <1>14 DEF Inv, Listed, Repacking
    <2>1. CASE y # at
        <3>1. {match'[w] : w \in WantedIn(y)} = {match[w] : w \in WantedIn(y)}
            BY <1>13, <2>1 DEF WantedIn
        <3> QED BY <1>1, <1>24, <2>1, <3>1 DEF Inv, Listed, Repacking
    <2>2. CASE y = at
        <3>1. \A w \in WantedIn(at) : /\ w \in Wanted /\ w[1] = at /\ w[2] \in 1 .. n /\ w = <<at, w[2]>>
                                      /\ match'[w].pos = w[2] /\ match'[w].name = content[w[2]].name
                                      /\ match'[w].hash = content[w[2]].hash
            <4> SUFFICES ASSUME NEW w \in WantedIn(at)
                         PROVE  /\ w \in Wanted /\ w[1] = at /\ w[2] \in 1 .. n /\ w = <<at, w[2]>>
                                /\ match'[w].pos = w[2] /\ match'[w].name = content[w[2]].name
                                /\ match'[w].hash = content[w[2]].hash
                OBVIOUS
            <4>1. w \in Wanted /\ w[1] = at /\ w[2] \in 1 .. n /\ w = <<at, w[2]>> /\ Want(w) = target[at][w[2]]
                BY <1>7 DEF Want
            <4>2. match'[w].pos = w[2] /\ match'[w].name = Want(w).name /\ match'[w].hash = hash(w[2])
                BY <1>13, <4>1
            <4>3. hash(w[2]) = content[w[2]].hash
                BY <1>10, <4>1
            <4> QED BY <1>8, <4>1, <4>2, <4>3
        <3>2. \A i \in DOMAIN content : <<at, i>> \in WantedIn(at) /\ match'[<<at, i>>].pos = i
            BY <1>6, <1>7, <1>13
        <3>3. \A v, w \in WantedIn(at) : match'[v].pos = match'[w].pos => v = w
            BY <3>1
        <3>4. Lists({match'[w] : w \in WantedIn(at)}, content)
            <4> DEFINE files == {match'[w] : w \in WantedIn(at)}
            <4>1. \A f \in files : /\ f.pos \in DOMAIN content
                                   /\ content[f.pos].name = f.name /\ content[f.pos].hash = f.hash
                BY <1>6, <3>1
            <4>2. \A i \in DOMAIN content : \E f \in files : f.pos = i
                BY <3>2
            <4>3. \A f, g \in files : f.pos = g.pos => f = g
                BY <3>3
            <4> HIDE DEF files
            <4>4. Lists(files, content)
                BY <1>9, <4>1, <4>2, <4>3 DEF Lists
            <4> QED BY <4>4 DEF files
        <3> QED BY <1>15, <2>2, <3>4
    <2> QED BY <2>1, <2>2
<1> QED BY <1>16, <1>17, <1>19, <1>20, <1>22, <1>23, <1>25, <1>26, <1>27 DEF Inv

-----------------------------------------------------------------------------
(* The renames.                                                            *)

\* Where the plan fits what was on disk, the old zips are all gone by then.
LEMMA RepackedStep == ASSUME Inv, Repacked PROVE Inv'
<1>1. /\ pc = "pack" /\ ToRepack = {} /\ pc' = "renames"
      /\ complete' = (made # "outdated")
      /\ UNCHANGED <<disk, at, after, plan, repacker, troubles, made, had>>
    BY DEF Repacked
<1> USE DEF plan, disk, repacker
<1>2. Planned' = Planned /\ Wanted' = Wanted /\ (\A p : ProvidedIn(p)' = ProvidedIn(p))
      /\ LocalFiles' = LocalFiles /\ (\A p : UsedIn(p)' = UsedIn(p)) /\ (\A w : Want(w)' = Want(w))
      /\ (\A y : WantedIn(y)' = WantedIn(y)) /\ (\A z : NowIn(z)' = NowIn(z))
    BY <1>1 DEF Planned, Wanted, ProvidedIn, LocalFiles, Want, UsedIn, WantedIn, NowIn
<1>3. Planned
    BY <1>1 DEF Inv, Types, Early, Sorting, Repacking
<1>4. packed = Wanted
    <2>1. \A w \in Wanted : w[1] \in Zips /\ w \in WantedIn(w[1])
        BY WantedFacts DEF Inv, Types, WantedIn
    <2>2. \A w \in Wanted : w[1] \in isRepacked
        BY <1>1, <2>1 DEF ToRepack
    <2> QED BY <1>1, <2>2 DEF Inv, Counted, Repacking
<1>5. managed \subseteq isReduced
    <2>1. \A p \in Places : usedCnt[p] = 0
        <3> SUFFICES ASSUME NEW p \in Places PROVE usedCnt[p] = 0
            OBVIOUS
        <3>1. UsedIn(p) \ packed = {}
            BY <1>4 DEF UsedIn
        <3>2. usedCnt[p] = Cardinality(UsedIn(p) \ packed)
            BY <1>1 DEF Inv, Counted, Repacking
        <3> QED BY <3>1, <3>2, FS_EmptySet
    <2>2. managed \subseteq Places /\ Reducible = {}
        BY <1>1, PlacesFacts DEF Inv, Types, Counted
    <2> QED BY <2>1, <2>2 DEF Reducible
<1>6. \A p \in isReduced : zip[p] = <<>>
    BY <1>1 DEF Inv, Tidy, Sorting, Repacking
<1>7. \A z \in Zips \ isRepacked : zipRepacked[z] = <<>> /\ target[z] = <<>>
    BY <1>1, WantedFacts DEF Inv, Types, Tidy, Repacking, ToRepack
<1>8. made # "outdated" => Usable
    BY <1>1, <1>3 DEF Usable, Early, Sorting, Repacking
<1>9. made # "outdated" => \A z \in Zips : zip[z] = <<>> /\ NowIn(z) = zipRepacked[z]
    BY <1>5, <1>6, <1>8 DEF Inv, Mirror, NowIn
<1>10. made # "outdated" => \A z \in Zips : SameIf(exact, NowIn(z), target[z])
    <2>1. made # "outdated" => \A z \in isRepacked : SameIf(exact, zipRepacked[z], target[z])
        BY <1>1 DEF Inv, RepackedRight, Sorting, Repacking
    <2> QED BY <1>7, <1>9, <2>1, SameFacts
<1>11. Types'
    BY <1>1, <1>2, <1>3 DEF Inv, Types, Working, Early, Sorting, Repacking
<1>12. PlanFits'
    BY <1>1, <1>2 DEF Inv, PlanFits
<1>13. Counted'
    BY <1>1, <1>2, <1>4, <1>5 DEF Inv, Counted, Repacking
<1>14. Tidy'
    BY <1>1, <1>6, <1>7 DEF Inv, Tidy, Sorting, Repacking, Working
<1>15. Usable' => Usable
    BY <1>1, <1>2 DEF Usable, Early, Sorting, Repacking
<1>16. Mirror' /\ TrueMirror'
    BY <1>1, <1>2, <1>15 DEF Inv, Mirror, TrueMirror
<1>17. RepackedRight'
    BY <1>1 DEF RepackedRight, Sorting
<1>18. Finished'
    BY <1>1, <1>2, <1>9, <1>10 DEF Finished, Early, Sorting, Repacking
<1>19. Listed'
    <2> SUFFICES ASSUME made = "current" PROVE Listed'
        BY <1>1 DEF Listed
    <2>1. \A z \in isRepacked : NowIn(z) = zipRepacked[z]
        BY <1>9 DEF Inv, Types
    <2> QED BY <1>1, <1>2, <2>1 DEF Inv, Listed, Repacking
<1> QED BY <1>11, <1>12, <1>13, <1>14, <1>16, <1>17, <1>18, <1>19 DEF Inv

LEMMA RenameStep == ASSUME Inv, NEW z \in Zips, Rename(z) PROVE Inv'
<1>1. /\ pc = "renames" /\ z \in ToRename /\ zip[z] = <<>>
      /\ zip' = [zip EXCEPT ![z] = zipRepacked[z]]
      /\ zipRepacked' = [zipRepacked EXCEPT ![z] = <<>>]
      /\ match' = [w \in Wanted |-> IF w \in WantedIn(z)
                     THEN [match[w] EXCEPT !.place = z, !.location = "Inplace"] ELSE match[w]]
      /\ UNCHANGED <<zipReduced, pc, at, after, target, exact, localManifest, provided,
                     managed, repacker, troubles, history>>
    BY DEF Rename
<1> USE DEF repacker, history
<1>2. z \in isRepacked /\ z \in isReduced /\ zipRepacked[z] # <<>> /\ z \in Places /\ z \notin Foreign /\ z \notin Urls
    BY <1>1, PlacesFacts, UpdaterAssumption DEF ToRename
<1>3. Planned /\ match \in [Wanted -> FileInfo] /\ DOMAIN match = Wanted /\ packed = Wanted
    BY <1>1 DEF Inv, Types, Counted
<1>4. WantedIn(z) # {} /\ WantedIn(z) \subseteq Wanted
    BY <1>1, <1>2 DEF Inv, Counted, Repacking, WantedIn
<1>5. /\ \A w \in WantedIn(z) :
            /\ match'[w] \in FileInfo /\ match'[w].location = "Inplace" /\ match'[w].place = z
            /\ match'[w].pos = match[w].pos
            /\ match'[w].name = match[w].name /\ match'[w].hash = match[w].hash
      /\ \A w \in Wanted : w \notin WantedIn(z) => match'[w] = match[w]
    <2>1. \A w \in WantedIn(z) : w \in Wanted /\ match[w] \in FileInfo
        BY <1>3, <1>4
    <2>2. \A f \in FileInfo : LET g == [f EXCEPT !.place = z, !.location = "Inplace"]
                              IN  /\ g \in FileInfo /\ g.place = z /\ g.pos = f.pos
                                  /\ g.name = f.name /\ g.hash = f.hash /\ g.location = "Inplace"
        BY <1>2 DEF FileInfo, Locations
    <2>3. \A w \in WantedIn(z) : match'[w] = [match[w] EXCEPT !.place = z, !.location = "Inplace"]
        BY <1>1, <2>1
    <2> QED BY <1>1, <2>1, <2>2, <2>3
<1>6. /\ Planned' /\ Wanted' = Wanted /\ (\A w : Want(w)' = Want(w)) /\ (\A y : WantedIn(y)' = WantedIn(y))
      /\ LocalFiles' = LocalFiles /\ (\A p : ProvidedIn(p)' = ProvidedIn(p))
      /\ match' \in [Wanted -> FileInfo]
    <2>1. Wanted' = Wanted /\ (\A w : Want(w)' = Want(w)) /\ (\A y : WantedIn(y)' = WantedIn(y))
          /\ LocalFiles' = LocalFiles /\ (\A p : ProvidedIn(p)' = ProvidedIn(p))
        BY <1>1 DEF Wanted, Want, WantedIn, LocalFiles, ProvidedIn
    <2>2. \A w \in Wanted : match'[w] \in FileInfo
        BY <1>3, <1>5
    <2>3. match' = [w \in Wanted |-> match'[w]]
        BY <1>1
    <2>4. match' \in [Wanted -> FileInfo] /\ DOMAIN match' = Wanted
        BY <2>2, <2>3
    <2> QED BY <1>3, <2>1, <2>4 DEF Planned
<1>7. /\ zip'[z] = zipRepacked[z] /\ \A p \in Places : p # z => zip'[p] = zip[p]
      /\ zipRepacked'[z] = <<>> /\ \A p \in Places : p # z => zipRepacked'[p] = zipRepacked[p]
    BY <1>1, <1>2 DEF Inv, Types
<1>8. \A y \in Zips : NowIn(y)' = NowIn(y)
    <2>1. NowIn(z)' = NowIn(z)
        BY <1>1, <1>2, <1>7 DEF NowIn
    <2>2. \A y \in Zips : y # z => NowIn(y)' = NowIn(y)
        BY <1>7, PlacesFacts DEF NowIn
    <2> QED BY <2>1, <2>2
<1>9. Types'
    <2>1. zip' \in [Places -> Contentful] /\ zipRepacked' \in [Places -> Contentful]
        BY <1>1, <1>2, TornFacts DEF Inv, Types, Contentful
    <2>2. \A p \in Foreign : zip'[p] \in Seq(File)
        BY <1>2, <1>7 DEF Inv, Types, Places, Local
    <2> QED BY <1>1, <1>6, <2>1, <2>2 DEF Inv, Types, Early, Sorting, Repacking, Working
<1>10. PlanFits'
    <2>1. \A w \in Wanted : match'[w].hash = match[w].hash
        BY <1>5
    <2>2. \A w \in Wanted : match'[w].location = "Remote" => match'[w] = match[w]
        BY <1>5
    <2>3. \A w \in Wanted : /\ exact' => match'[w].hash = Want(w)'.hash
                            /\ contentsOf[match'[w].hash] = contentsOf[Want(w)'.hash]
        BY <1>1, <1>3, <1>6, <2>1 DEF Inv, PlanFits
    <2>4. ASSUME NEW w \in Wanted, match'[w].location = "Remote"
          PROVE  /\ match'[w].place \in Urls /\ match'[w].pos \in DOMAIN Remote[match'[w].place]
                 /\ Remote[match'[w].place][match'[w].pos].name = match'[w].name
                 /\ Remote[match'[w].place][match'[w].pos].hash = match'[w].hash
                 /\ \A p : p = match'[w].place => ProvidedIn(p)' = {}
        BY <1>3, <1>6, <2>2, <2>4 DEF Inv, PlanFits
    <2>5. \A y \in Zips : target'[y] # <<>> => y \in managed'
        BY <1>1, <1>3 DEF Inv, PlanFits
    <2> QED BY <1>6, <2>3, <2>4, <2>5 DEF PlanFits
<1>11. Counted'
    <2>1. \A p \in Places : usedCnt[p] = Cardinality(UsedIn(p)' \ packed)
        <3> SUFFICES ASSUME NEW p \in Places PROVE usedCnt[p] = Cardinality(UsedIn(p)' \ packed)
            OBVIOUS
        <3>1. UsedIn(p) \ packed = {} /\ UsedIn(p)' \ packed = {}
            BY <1>3, <1>6 DEF UsedIn
        <3> QED BY <1>1, <3>1 DEF Inv, Counted, Repacking
    <2> QED BY <1>1, <1>3, <1>6, <2>1 DEF Inv, Counted, Repacking
<1>12. Tidy'
    <2>1. \A u \in Urls : zipRepacked'[u] = <<>>
        BY <1>2, <1>7, PlacesFacts DEF Inv, Tidy
    <2>2. \A p \in isReduced : zip'[p] = <<>> \/ (p \in isRepacked /\ zipRepacked'[p] = <<>>)
        <3>1. isReduced \subseteq Places
            BY PlacesFacts DEF Inv, Types
        <3> QED BY <1>1, <1>2, <1>7, <3>1 DEF Inv, Tidy
    <2>3. \A y \in Zips \ isRepacked : zipRepacked'[y] = <<>>
        BY <1>1, <1>7, PlacesFacts DEF Inv, Tidy, Repacking
    <2> QED BY <1>1, <2>1, <2>2, <2>3 DEF Tidy, Sorting, Working
<1>13. ~Usable'
    BY <1>1, <1>3, <1>4 DEF Usable, Early, Sorting, Repacking
<1>14. Mirror' /\ TrueMirror' /\ RepackedRight'
    BY <1>1, <1>13 DEF Mirror, TrueMirror, RepackedRight, Sorting
<1>15. Finished'
    <2>1. complete => \A y \in Zips : zip'[y] = <<>> \/ zipRepacked'[y] = <<>>
        BY <1>7, PlacesFacts DEF Inv, Finished
    <2> QED BY <1>1, <1>8, <2>1 DEF Inv, Finished, Early, Sorting, Repacking
<1>16. Listed'
    <2> SUFFICES ASSUME made = "current"
                 PROVE  /\ \A p \in Places : p \notin isReduced => zip'[p] = zip[p]
                        /\ \A y \in isRepacked : Lists({match'[w] : w \in WantedIn(y)}, NowIn(y))
        <3>1. \A y \in isRepacked : y \in Zips /\ NowIn(y)' = NowIn(y)
            BY <1>8 DEF Inv, Types
        <3> QED BY <1>1, <1>6, <3>1 DEF Inv, Listed, Repacking
    <2>1. \A p \in Places : p \notin isReduced => zip'[p] = zip[p]
        BY <1>2, <1>7
    <2>2. ASSUME NEW y \in isRepacked PROVE Lists({match'[w] : w \in WantedIn(y)}, NowIn(y))
        <3>1. Lists({match[w] : w \in WantedIn(y)}, NowIn(y))
            BY <1>1 DEF Inv, Listed, Repacking
        <3>2. CASE y # z
            <4>1. {match'[w] : w \in WantedIn(y)} = {match[w] : w \in WantedIn(y)}
                BY <1>5, <3>2 DEF WantedIn
            <4> QED BY <3>1, <4>1
        <3>3. CASE y = z
            <4> DEFINE files == {match[w] : w \in WantedIn(z)}
                       new == {match'[w] : w \in WantedIn(z)}
            <4>1. \A w \in WantedIn(z) : match[w] \in files /\ match'[w].pos = match[w].pos
                      /\ match'[w].name = match[w].name /\ match'[w].hash = match[w].hash
                BY <1>5
            <4>2. \A f \in files : \E w \in WantedIn(z) : f = match[w]
                OBVIOUS
            <4>3. \A v, w \in WantedIn(z) : match[v] = match[w] => match'[v] = match'[w]
                BY <1>1, <1>4
            <4>4. \A f \in new : \E w \in WantedIn(z) : f = match'[w]
                OBVIOUS
            <4>5. \A w \in WantedIn(z) : match'[w] \in new
                OBVIOUS
            <4> HIDE DEF files, new
            <4>6. Lists(files, NowIn(z))
                BY <3>1, <3>3 DEF files
            <4>7. Lists(new, NowIn(z))
                <5>1. /\ NowIn(z) \in Seq(File)
                      /\ \A f \in files : /\ f.pos \in DOMAIN NowIn(z) /\ NowIn(z)[f.pos].name = f.name
                                          /\ NowIn(z)[f.pos].hash = f.hash
                      /\ \A i \in DOMAIN NowIn(z) : \E f \in files : f.pos = i
                      /\ \A f, g \in files : f.pos = g.pos => f = g
                    BY <4>6 DEF Lists
                <5>2. \A f \in new : /\ f.pos \in DOMAIN NowIn(z) /\ NowIn(z)[f.pos].name = f.name
                                     /\ NowIn(z)[f.pos].hash = f.hash
                    BY <4>1, <4>4, <5>1
                <5>3. \A i \in DOMAIN NowIn(z) : \E f \in new : f.pos = i
                    BY <4>1, <4>2, <4>5, <5>1
                <5>4. \A v, w \in WantedIn(z) : match'[v].pos = match'[w].pos => match'[v] = match'[w]
                    BY <4>1, <4>3, <5>1
                <5>5. \A f, g \in new : f.pos = g.pos => f = g
                    BY <4>4, <5>4
                <5> QED BY <5>1, <5>2, <5>3, <5>5 DEF Lists
            <4> QED BY <3>3, <4>7 DEF new
        <3> QED BY <3>2, <3>3
    <2> QED BY <2>1, <2>2
<1> QED BY <1>9, <1>10, <1>11, <1>12, <1>14, <1>15, <1>16 DEF Inv

LEMMA RewriteStep == ASSUME Inv, RewriteProvidedManifest PROVE Inv'
<1>1. /\ pc = "renames" /\ ToRename = {}
      /\ provided' = {match[w] : w \in packed} \cup reducedMani \cup provided
      /\ match' = <<>> /\ packed' = {} /\ reducedMani' = {}
      /\ isRepacked' = {} /\ isReduced' = {}
      /\ pc' = "finalize"
      /\ UNCHANGED <<disk, at, after, target, exact, localManifest, managed, troubles, history>>
    BY DEF RewriteProvidedManifest
<1> USE DEF disk, history
<1>2. Planned /\ match \in [Wanted -> FileInfo] /\ packed = Wanted /\ managed \subseteq isReduced
    BY <1>1 DEF Inv, Types, Counted
<1>3. ~Planned' /\ Wanted' = Wanted /\ \A z : NowIn(z)' = NowIn(z)
    BY <1>1 DEF Planned, Wanted, NowIn
<1>4. Types'
    <2>1. provided' \subseteq FileInfo
        BY <1>1, <1>2 DEF Inv, Types
    <2> QED BY <1>1, <1>3, <2>1 DEF Inv, Types, Early, Sorting, Repacking, Working
<1>5. PlanFits' /\ Counted' /\ Mirror' /\ TrueMirror' /\ RepackedRight' /\ Listed'
    BY <1>1, <1>3 DEF PlanFits, Counted, Mirror, TrueMirror, Usable, RepackedRight, Listed, Sorting, Repacking
<1>6. Tidy'
    BY <1>1 DEF Inv, Tidy, Sorting, Repacking, Working
<1>7. \A z \in Zips : zipRepacked[z] = <<>>
    <2> SUFFICES ASSUME NEW z \in Zips, zipRepacked[z] # <<>> PROVE FALSE
        OBVIOUS
    <2>1. z \in isRepacked
        BY <1>1 DEF Inv, Tidy, Repacking
    <2>2. z \in managed
        BY <1>1, <1>2, <2>1, WantedFacts DEF Inv, Types, PlanFits, Counted, Repacking
    <2> QED BY <1>1, <1>2, <2>1, <2>2 DEF ToRename
<1>8. \A z \in Zips : NowIn(z) = zip[z]
    BY <1>7 DEF NowIn
<1>9. Finished'
    BY <1>1, <1>3, <1>8 DEF Inv, Finished, Early, Sorting, Repacking
<1> QED BY <1>4, <1>5, <1>6, <1>9 DEF Inv

-----------------------------------------------------------------------------
(* Cleaning, errors and crashes.                                           *)

LEMMA FinalizeStep == ASSUME Inv, Finalize PROVE Inv'
<1>1. /\ pc = "finalize" /\ pc' = "clean" /\ after' = "done"
      /\ UNCHANGED <<disk, at, plan, repacker, troubles, history>>
    BY DEF Finalize
<1> USE DEF disk, plan, repacker, history
<1>2. Planned' = Planned /\ Wanted' = Wanted /\ ~Planned /\ \A z : NowIn(z)' = NowIn(z)
    BY <1>1 DEF Planned, Wanted, NowIn, Inv, Finished
<1>3. Types'
    BY <1>1, <1>2 DEF Inv, Types, Early, Sorting, Repacking, Working
<1>4. PlanFits' /\ Counted' /\ Mirror' /\ TrueMirror' /\ RepackedRight' /\ Listed'
    BY <1>1, <1>2 DEF PlanFits, Counted, Mirror, TrueMirror, Usable, RepackedRight, Listed, Sorting, Repacking
<1>5. Tidy'
    BY <1>1, <1>2 DEF Inv, Tidy, Sorting, Repacking, Working
<1>6. Finished'
    BY <1>1, <1>2 DEF Inv, Finished, Early, Sorting, Repacking
<1> QED BY <1>3, <1>4, <1>5, <1>6 DEF Inv

LEMMA CleanRepackedStep == ASSUME Inv, NEW z \in Zips, CleanRepacked(z) PROVE Inv'
<1>1. /\ pc = "clean" /\ zipRepacked[z] # <<>>
      /\ zipRepacked' = [zipRepacked EXCEPT ![z] = <<>>]
      /\ zip' = IF zip[z] = <<>> THEN [zip EXCEPT ![z] = zipRepacked[z]] ELSE zip
      /\ UNCHANGED <<zipReduced, pc, at, after, plan, repacker, troubles, history>>
    BY DEF CleanRepacked
<1> USE DEF plan, repacker, history
<1>2. Planned' = Planned /\ Wanted' = Wanted /\ (\A p : ProvidedIn(p)' = ProvidedIn(p)) /\ (\A w : Want(w)' = Want(w))
    BY <1>1 DEF Planned, Wanted, ProvidedIn, LocalFiles, Want
<1>3. z \in Places /\ z \notin Foreign /\ z \notin Urls
    BY PlacesFacts, UpdaterAssumption
<1>4. /\ zip'[z] = NowIn(z) /\ \A p \in Places : p # z => zip'[p] = zip[p]
      /\ zipRepacked'[z] = <<>> /\ \A p \in Places : p # z => zipRepacked'[p] = zipRepacked[p]
    BY <1>1, <1>3 DEF Inv, Types, NowIn
<1>5. \A y \in Zips : NowIn(y)' = NowIn(y)
    <2>1. NowIn(z)' = NowIn(z)
        BY <1>1, <1>4 DEF NowIn
    <2>2. \A y \in Zips : y # z => NowIn(y)' = NowIn(y)
        BY <1>4, PlacesFacts DEF NowIn
    <2> QED BY <2>1, <2>2
<1>6. Types'
    <2>1. zip' \in [Places -> Contentful] /\ zipRepacked' \in [Places -> Contentful]
        BY <1>1, <1>3, TornFacts DEF Inv, Types, Contentful
    <2>2. \A p \in Foreign : zip'[p] \in Seq(File)
        BY <1>3, <1>4 DEF Inv, Types, Places, Local
    <2> QED BY <1>1, <1>2, <2>1, <2>2 DEF Inv, Types, Early, Sorting, Repacking, Working
<1>7. PlanFits'
    BY <1>1, <1>2 DEF Inv, PlanFits
<1>8. Counted' /\ RepackedRight' /\ Listed'
    BY <1>1 DEF Counted, RepackedRight, Listed, Sorting, Repacking
<1>9. ~(made = "current" /\ Planned)
    <2>1. Temporary # {}
        BY <1>1, <1>3 DEF Temporary
    <2> QED BY <1>1, <2>1 DEF Inv, Tidy, Working
<1>10. Tidy'
    <2>1. \A u \in Urls : zipRepacked'[u] = <<>>
        BY <1>3, <1>4, PlacesFacts DEF Inv, Tidy
    <2> QED BY <1>1, <1>2, <1>9, <2>1 DEF Tidy, Sorting, Repacking
<1>11. Usable' => Usable
    BY <1>1, <1>2 DEF Usable
<1>12. Mirror'
    <2> SUFFICES ASSUME Usable
                 PROVE  /\ \A y \in Zips : zip'[y] # <<>> \/ zipRepacked'[y] # <<>> => y \in managed
                        /\ \A p \in Places : \/ ProvidedIn(p) = {}
                                             \/ p \in Urls /\ zip'[p] = <<>>
                                             \/ Lists(ProvidedIn(p), zip'[p])
        BY <1>1, <1>2, <1>11 DEF Mirror
    <2>1. \A y \in Zips : zip'[y] # <<>> \/ zipRepacked'[y] # <<>> => y \in managed
        BY <1>1, <1>4, PlacesFacts DEF Inv, Mirror
    <2>2. ProvidedIn(z) = {} \/ Lists(ProvidedIn(z), zip'[z])
        BY <1>3, <1>4, ListsEmpty DEF Inv, Mirror, NowIn
    <2>3. \A p \in Places : \/ ProvidedIn(p) = {}
                            \/ p \in Urls /\ zip[p] = <<>>
                            \/ Lists(ProvidedIn(p), zip[p])
        BY DEF Inv, Mirror
    <2> QED BY <1>4, <2>1, <2>2, <2>3
<1>13. TrueMirror'
    BY <1>1, <1>2, <1>9 DEF TrueMirror, Usable
<1>14. Finished'
    <2>1. complete => \A y \in Zips : zip'[y] = <<>> \/ zipRepacked'[y] = <<>>
        BY <1>4, PlacesFacts DEF Inv, Finished
    <2> QED BY <1>1, <1>2, <1>5, <2>1 DEF Inv, Finished, Early, Sorting, Repacking
<1> QED BY <1>6, <1>7, <1>8, <1>10, <1>12, <1>13, <1>14 DEF Inv

LEMMA CleanReducedStep == ASSUME Inv, NEW p \in Places, CleanReduced(p) PROVE Inv'
<1>1. /\ pc = "clean" /\ zipReduced[p] # <<>>
      /\ zipReduced' = [zipReduced EXCEPT ![p] = <<>>]
      /\ UNCHANGED <<zip, zipRepacked, pc, at, after, plan, repacker, troubles, history>>
    BY DEF CleanReduced
<1> USE DEF plan, repacker, history
<1>2. Planned' = Planned /\ Wanted' = Wanted /\ (\A q : ProvidedIn(q)' = ProvidedIn(q)) /\ (\A w : Want(w)' = Want(w))
      /\ \A z : NowIn(z)' = NowIn(z)
    BY <1>1 DEF Planned, Wanted, ProvidedIn, LocalFiles, Want, NowIn
<1>3. Types'
    <2>1. zipReduced' \in [Places -> Seq(File)]
        BY <1>1, TornFacts DEF Inv, Types
    <2> QED BY <1>1, <1>2, <2>1 DEF Inv, Types, Early, Sorting, Repacking, Working
<1>4. PlanFits'
    BY <1>1, <1>2 DEF Inv, PlanFits
<1>5. Counted' /\ RepackedRight' /\ Listed'
    BY <1>1 DEF Counted, RepackedRight, Listed, Sorting, Repacking
<1>6. ~(made = "current" /\ Planned)
    <2>1. Temporary # {}
        BY <1>1 DEF Temporary
    <2> QED BY <1>1, <2>1 DEF Inv, Tidy, Working
<1>7. Tidy'
    BY <1>1, <1>2, <1>6 DEF Inv, Tidy, Sorting, Repacking
<1>8. Mirror' /\ TrueMirror'
    BY <1>1, <1>2, <1>6 DEF Inv, Mirror, TrueMirror, Usable
<1>9. Finished'
    BY <1>1, <1>2 DEF Inv, Finished, Early, Sorting, Repacking
<1> QED BY <1>3, <1>4, <1>5, <1>7, <1>8, <1>9 DEF Inv

LEMMA CleanDownloadStep == ASSUME Inv, NEW u \in Urls, CleanDownload(u) PROVE Inv'
<1>1. /\ pc = "clean" /\ zip[u] # <<>>
      /\ zip' = [zip EXCEPT ![u] = <<>>]
      /\ UNCHANGED <<zipRepacked, zipReduced, pc, at, after, plan, repacker, troubles, history>>
    BY DEF CleanDownload
<1> USE DEF plan, repacker, history
<1>2. Planned' = Planned /\ Wanted' = Wanted /\ (\A q : ProvidedIn(q)' = ProvidedIn(q)) /\ (\A w : Want(w)' = Want(w))
    BY <1>1 DEF Planned, Wanted, ProvidedIn, LocalFiles, Want
<1>3. u \in Places /\ u \notin Foreign /\ u \notin Zips
    BY PlacesFacts, UpdaterAssumption DEF Local
<1>4. zip'[u] = <<>> /\ \A p \in Places : p # u => zip'[p] = zip[p]
    BY <1>1, <1>3 DEF Inv, Types
<1>5. \A z \in Zips : zip'[z] = zip[z] /\ NowIn(z)' = NowIn(z)
    BY <1>1, <1>3, <1>4, PlacesFacts DEF NowIn
<1>6. Types'
    <2>1. zip' \in [Places -> Contentful]
        BY <1>1, <1>3, TornFacts DEF Inv, Types, Contentful
    <2>2. \A p \in Foreign : zip'[p] \in Seq(File)
        BY <1>3, <1>4 DEF Inv, Types, Places, Local
    <2> QED BY <1>1, <1>2, <2>1, <2>2 DEF Inv, Types, Early, Sorting, Repacking, Working
<1>7. PlanFits'
    BY <1>1, <1>2 DEF Inv, PlanFits
<1>8. Counted' /\ RepackedRight' /\ Listed'
    BY <1>1 DEF Counted, RepackedRight, Listed, Sorting, Repacking
<1>9. ~(made = "current" /\ Planned)
    <2>1. Temporary # {}
        BY <1>1, <1>3 DEF Temporary
    <2> QED BY <1>1, <2>1 DEF Inv, Tidy, Working
<1>10. Tidy'
    BY <1>1, <1>2, <1>9 DEF Inv, Tidy, Sorting, Repacking
<1>11. Mirror'
    BY <1>1, <1>2, <1>4, <1>5 DEF Inv, Mirror, Usable
<1>12. TrueMirror'
    BY <1>1, <1>2, <1>9 DEF TrueMirror, Usable
<1>13. Finished'
    BY <1>1, <1>2, <1>5 DEF Inv, Finished, Early, Sorting, Repacking
<1> QED BY <1>6, <1>7, <1>8, <1>10, <1>11, <1>12, <1>13 DEF Inv

\* What was copied so far is in the zip, or the zip cannot be opened.
LEMMA HalfPackedFacts ==
    ASSUME Inv, pc = "packing", NEW content \in HalfPacked
    PROVE  content \in Contentful
<1>1. at \in Zips
    BY DEF Inv, Counted, ToRepack
<1>2. Len(target[at]) \in Nat /\ DOMAIN target[at] = 1 .. Len(target[at]) /\ target[at] \in Seq(File)
    BY <1>1, WantedCount DEF Inv, Types
<1>3. CASE content = Torn
    BY <1>3 DEF Contentful
<1>4. CASE content # Torn
    <2>1. PICK n \in 1 .. Len(target[at]) : content \in Contents(n)
        BY <1>4 DEF HalfPacked
    <2>2. PICK out \in [1 .. n -> Hashes] :
              content = [i \in 1 .. n |-> [name |-> target[at][i].name, hash |-> out[i]]]
        BY <2>1 DEF Contents
    <2>3. \A i \in 1 .. n : target[at][i] \in File /\ out[i] \in Hashes
        BY <1>2, <2>2
    <2>4. \A i \in 1 .. n : [name |-> target[at][i].name, hash |-> out[i]] \in File
        BY <2>3 DEF File
    <2>5. content \in [1 .. n -> File]
        BY <2>2, <2>4, Zenon
    <2>6. n \in Nat
        BY <1>2
    <2>7. content \in Seq(File)
        BY <2>5, <2>6
    <2> QED BY <2>7 DEF Contentful
<1> QED BY <1>3, <1>4

LEMMA UnwindStep ==
    ASSUME Inv, Unwind, pc \in Working \/ (pc = "clean" /\ after = "done")
    PROVE  Inv'
<1>1. /\ pc' = "clean" /\ after' = "confirm" /\ at' = Torn
      /\ reducedMani' = {} /\ isRepacked' = {} /\ isReduced' = {}
      /\ made' = IF made = "current" THEN "retried" ELSE made
      /\ UNCHANGED <<zip, zipReduced, plan, packed, had, complete>>
    BY DEF Unwind
<1> USE DEF plan
<1>2. Planned' = Planned /\ Wanted' = Wanted /\ (\A p : ProvidedIn(p)' = ProvidedIn(p)) /\ (\A w : Want(w)' = Want(w))
    BY <1>1 DEF Planned, Wanted, ProvidedIn, LocalFiles, Want
<1>3. /\ zipRepacked' \in [Places -> Contentful]
      /\ pc # "packing" => zipRepacked' = zipRepacked
      /\ \A p \in Places : zipRepacked'[p] = zipRepacked[p] \/ (pc = "packing" /\ p = at /\ at \in ToRepack)
    <2>1. CASE pc # "packing"
        BY <2>1 DEF Unwind, Inv, Types
    <2>2. CASE pc = "packing"
        <3>1. PICK content \in HalfPacked : zipRepacked' = [zipRepacked EXCEPT ![at] = content]
            BY <2>2 DEF Unwind
        <3>2. at \in ToRepack /\ content \in Contentful
            BY <2>2, <3>1, HalfPackedFacts DEF Inv, Counted
        <3> QED BY <2>2, <3>1, <3>2 DEF Inv, Types
    <2> QED BY <2>1, <2>2
<1>4. Types'
    BY <1>1, <1>2, <1>3 DEF Inv, Types, Early, Sorting, Repacking, Working
<1>5. PlanFits'
    BY <1>1, <1>2 DEF Inv, PlanFits
<1>6. Counted' /\ RepackedRight' /\ Listed'
    BY <1>1 DEF Counted, RepackedRight, Listed, Sorting, Repacking
<1>7. made' # "current" /\ (made' # "outdated" => made # "outdated")
    BY <1>1
<1>8. Tidy'
    <2>1. \A u \in Urls : zipRepacked'[u] = <<>>
        BY <1>3, PlacesFacts DEF Inv, Tidy, ToRepack
    <2> QED BY <1>1, <1>7, <2>1 DEF Tidy, Sorting, Repacking
<1>9. Usable' => Usable
    BY <1>1, <1>2, <1>7 DEF Usable, Early, Sorting, Repacking
<1>10. Mirror'
    <2>1. pc = "packing" /\ at \in ToRepack => at \in managed
        <3>1. pc = "packing" => Planned
            BY DEF Inv, Types, Early, Sorting, Repacking
        <3> QED BY <3>1, WantedFacts DEF Inv, Types, PlanFits, ToRepack
    <2>2. Usable => \A y \in Zips : zip[y] # <<>> \/ zipRepacked'[y] # <<>> => y \in managed
        BY <1>3, <2>1, PlacesFacts DEF Inv, Mirror
    <2> QED BY <1>1, <1>2, <1>9, <2>2 DEF Inv, Mirror
<1>11. TrueMirror'
    BY <1>7 DEF TrueMirror
<1>12. Finished'
    <2>1. complete => \A y : NowIn(y)' = NowIn(y)
        BY <1>1, <1>3 DEF NowIn, Inv, Finished, Early, Sorting, Repacking
    <2>2. complete => zipRepacked' = zipRepacked
        BY <1>3 DEF Inv, Finished, Early, Sorting, Repacking
    <2>3. pc = "renames" => packed # {}
        BY DEF Inv, Types, Counted, Planned
    <2> QED BY <1>1, <1>2, <2>1, <2>2, <2>3 DEF Inv, Finished, Early, Sorting, Repacking
<1> QED BY <1>4, <1>5, <1>6, <1>8, <1>10, <1>11, <1>12 DEF Inv

LEMMA CrashStep == ASSUME Inv, Crash PROVE Inv'
<1>1. /\ pc' = "settings" /\ after' = "settings" /\ at' = Torn
      /\ localManifest' = {} /\ provided' = {} /\ managed' = {} /\ match' = <<>>
      /\ packed' = {} /\ reducedMani' = {} /\ isRepacked' = {} /\ isReduced' = {}
      /\ made' = "outdated"
      /\ UNCHANGED <<disk, target, exact, had, complete>>
    BY DEF Crash
<1> USE DEF disk
<1>2. ~Planned' /\ Wanted' = Wanted /\ \A z : NowIn(z)' = NowIn(z)
    BY <1>1 DEF Planned, Wanted, NowIn
<1>3. Types'
    BY <1>1, <1>2 DEF Inv, Types, Early, Sorting, Repacking, Working
<1>4. PlanFits' /\ Counted' /\ Mirror' /\ TrueMirror' /\ RepackedRight' /\ Listed'
    BY <1>1, <1>2 DEF PlanFits, Counted, Mirror, TrueMirror, Usable, RepackedRight, Listed, Sorting, Repacking
<1>5. Tidy'
    BY <1>1, <1>2 DEF Inv, Tidy, Sorting, Repacking
<1>6. Finished'
    BY <1>1, <1>2 DEF Inv, Finished, Early, Sorting, Repacking
<1> QED BY <1>3, <1>4, <1>5, <1>6 DEF Inv

-----------------------------------------------------------------------------
LEMMA InvStep == Inv /\ [Next]_vars => Inv'
<1> SUFFICES ASSUME Inv, [Next]_vars PROVE Inv'
    OBVIOUS
<1>1. CASE UNCHANGED vars
    <2>1. Types'
        BY <1>1 DEF Inv, Types, vars, disk, plan, repacker, history, Wanted, Planned
    <2>2. /\ Planned' = Planned /\ Wanted' = Wanted /\ (\A p : ProvidedIn(p)' = ProvidedIn(p))
          /\ LocalFiles' = LocalFiles /\ (\A p : UsedIn(p)' = UsedIn(p)) /\ (\A w : Want(w)' = Want(w))
          /\ (\A z : WantedIn(z)' = WantedIn(z)) /\ (\A z : NowIn(z)' = NowIn(z)) /\ Needed' = Needed
          /\ Temporary' = Temporary /\ Reducible' = Reducible /\ ToRepack' = ToRepack
        BY <1>1 DEF vars, disk, plan, repacker, history, Planned, Wanted, ProvidedIn, LocalFiles,
                    UsedIn, Want, WantedIn, NowIn, Needed, Temporary, Reducible, ToRepack
    <2> USE DEF vars, disk, plan, repacker, history
    <2>3. PlanFits'
        BY <1>1, <2>2 DEF Inv, PlanFits
    <2>4. Counted'
        BY <1>1, <2>2 DEF Inv, Counted
    <2>5. Tidy'
        BY <1>1, <2>2 DEF Inv, Tidy
    <2>6. Mirror' /\ TrueMirror'
        BY <1>1, <2>2 DEF Inv, Mirror, TrueMirror, Usable
    <2>7. RepackedRight' /\ Finished'
        BY <1>1, <2>2 DEF Inv, RepackedRight, Finished
    <2>8. Listed'
        BY <1>1, <2>2 DEF Inv, Listed
    <2> QED BY <2>1, <2>3, <2>4, <2>5, <2>6, <2>7, <2>8 DEF Inv
<1>2. CASE SettingsNext \/ Back \/ Start \/ Cleaned \/ Done
    BY <1>2, PagesTurn
<1>3. CASE Scan
    BY <1>3, ScanStep
<1>4. CASE \E version \in Targets : Refresh(version)
    BY <1>4, RefreshStep
<1>5. CASE \E u \in Urls : Fetch(u) \/ Verify(u) \/ CleanDownload(u)
    BY <1>5, FetchStep, VerifyStep, CleanDownloadStep
<1>6. CASE Begin \/ ProcessedWithoutRepacking
    BY <1>6, BeginStep, ProcessedStep
<1>7. CASE \E dst \in Zips, src \in Places : RenameUnpacked(dst, src)
    BY <1>7, RenameUnpackedStep
<1>8. CASE \E p \in Places : WriteReduced(p) \/ CleanReduced(p)
    BY <1>8, WriteReducedStep, CleanReducedStep
<1>9. CASE RemoveOld \/ Reduced
    BY <1>9, RemoveOldStep, ReducedStep
<1>10. CASE \E z \in Zips : OpenRepacked(z) \/ Rename(z) \/ CleanRepacked(z)
    BY <1>10, OpenRepackedStep, RenameStep, CleanRepackedStep
<1>11. CASE Repack \/ Repacked \/ RewriteProvidedManifest \/ Finalize
    BY <1>11, RepackStep, RepackedStep, RewriteStep, FinalizeStep
<1>12. CASE Throw
    <2>1. pc \in Working
        BY <1>12 DEF Throw, Throwing, Working
    <2> QED BY <1>12, <2>1, UnwindStep DEF Throw
<1>13. CASE Error
    BY <1>13, UnwindStep DEF Error
<1>14. CASE Crash
    BY <1>14, CrashStep
<1> QED BY <1>1, <1>2, <1>3, <1>4, <1>5, <1>6, <1>7, <1>8, <1>9, <1>10, <1>11, <1>12, <1>13, <1>14 DEF Next

\* What the update process keeps beside the disk, its plan, lists and counters, is true of
\* the disk at every step of DownloadRemoteFiles and RepackZips, as far as Inv says it.
THEOREM Invariance == Spec => []Inv
<1>1. Init => Inv
    BY InitInv
<1>2. Inv /\ [Next]_vars => Inv'
    BY InvStep
<1> QED BY <1>1, <1>2, PTL DEF Spec

\* Every state is one the updater can be in: no zip's contents but files, or torn.
THEOREM UpdaterTypeCorrect == Spec => []TypeOK
<1>1. Inv => TypeOK
    BY DEF Inv, Types, TypeOK, Contentful
<1> QED BY <1>1, Invariance, PTL

\* A plan made for what is on disk never fails of itself: what it needs is readable where
\* it is matched, whatever has been renamed, reduced and repacked before.
THEOREM PlanIsCarriedOut == Spec => []PlanHolds
<1>1. ASSUME Inv PROVE PlanHolds
    <2> SUFFICES ASSUME made = "current"
                 PROVE  ~Throwing /\ (pc = "renames" => packed = Wanted /\ managed \subseteq isReduced)
        BY DEF PlanHolds
    <2>1. pc \in Sorting => \A p \in Places : Lists(ProvidedIn(p), zip[p])
        <3>1. pc \in Sorting => Usable
            BY <1>1 DEF Inv, Types, Usable, Early
        <3> QED BY <1>1, <3>1 DEF Inv, TrueMirror, Sorting, Repacking
    <2>2. ASSUME NEW dst \in Zips, NEW src \in Places, pc = "nopack", NEW f \in ProvidedIn(src)
          PROVE  Readable(f)
        <3>1. Lists(ProvidedIn(src), zip[src])
            BY <2>1, <2>2 DEF Sorting, Repacking
        <3>2. f.place = src /\ f.pos \in DOMAIN zip[src] /\ zip[src] # Torn
            BY <3>1, TornFacts DEF Lists, ProvidedIn
        <3> QED BY <3>2 DEF Readable
    <2>3. ASSUME pc = "reduce", NEW p \in Reducible PROVE zip[p] # Torn
        <3>1. p \in Places
            BY <1>1, PlacesFacts DEF Reducible, Inv, Types
        <3> QED BY <2>1, <2>3, <3>1, TornFacts DEF Sorting, Repacking
    <2>4. ASSUME pc = "packing", NEW w \in WantedIn(at) PROVE Sound(w)
        <3>1. w \in Wanted \ packed /\ Planned
            BY <1>1, <2>4, SourceFacts
        <3>2. match[w] \in ProvidedIn(match[w].place) /\ match[w].place \in Places
            BY <1>1, <2>4, <3>1 DEF Inv, Types, Counted, Repacking, ProvidedIn, FileInfo
        <3>3. Lists(ProvidedIn(match[w].place), zip[match[w].place])
            BY <2>1, <2>4, <3>2 DEF Sorting, Repacking
        <3>4. Readable(match[w])
            BY <3>2, <3>3, TornFacts DEF Lists, Readable
        <3>5. OnDisk(match[w]).hash = match[w].hash
            BY <1>1, <2>4, <3>4, SourceFacts
        <3> QED BY <1>1, <3>1, <3>4, <3>5 DEF Sound, Inv, PlanFits
    <2>5. ASSUME pc = "renames", NEW z \in ToRename PROVE zip[z] = <<>>
        BY <1>1, <2>5 DEF Inv, Tidy, ToRename
    <2> QED BY <1>1, <2>2, <2>3, <2>4, <2>5 DEF Throwing, Inv, Counted
<1> QED BY <1>1, Invariance, PTL

\* From the last repacked zip on, neither an error nor a crash can undo the update.
THEOREM UpdateSurvivesCrash == Spec => []CrashRecovered
<1>1. ASSUME Inv PROVE CrashRecovered
    <2> SUFFICES ASSUME complete, Temporary = {}, NEW z \in Zips PROVE Same(zip[z], target[z])
        BY DEF CrashRecovered, Installed
    <2>1. zipRepacked[z] = <<>>
        BY PlacesFacts DEF Temporary
    <2>2. NowIn(z) = zip[z]
        BY <2>1 DEF NowIn
    <2> QED BY <1>1, <2>2, SameFacts DEF Inv, Finished
<1> QED BY <1>1, Invariance, PTL

-----------------------------------------------------------------------------
(* Nothing is lost.                                                        *)

\* The image of a finite set.
LEMMA FilesOfFinite ==
    ASSUME NEW zips, NEW places \in SUBSET Places, \A p \in places : zips[p] \in Seq(File), NEW location
    PROVE  IsFiniteSet(FilesOf(zips, places, location))
<1> DEFINE file(p, i) == [place |-> p, pos |-> i, name |-> zips[p][i].name, hash |-> zips[p][i].hash,
                          location |-> location]
           filesIn(p) == {file(p, i) : i \in DOMAIN zips[p]}
           parts == {filesIn(p) : p \in places}
<1>1. IsFiniteSet(places)
    BY UpdaterAssumption, FS_Subset
<1>2. IsFiniteSet(parts)
    <2> DEFINE part == [p \in places |-> filesIn(p)]
    <2>1. part \in Surjection(places, parts)
        BY DEF Surjection
    <2> QED BY <1>1, <2>1, FS_Surjection
<1>3. ASSUME NEW s \in parts PROVE IsFiniteSet(s)
    <2>1. PICK p \in places : s = filesIn(p)
        OBVIOUS
    <2>2. zips[p] \in Seq(File)
        BY <2>1
    <2>3. DOMAIN zips[p] = 1 .. Len(zips[p]) /\ Len(zips[p]) \in Int
        BY <2>2
    <2>4. IsFiniteSet(DOMAIN zips[p])
        BY <2>3, FS_Interval
    <2> DEFINE list == [i \in DOMAIN zips[p] |-> file(p, i)]
    <2>5. list \in Surjection(DOMAIN zips[p], filesIn(p))
        BY DEF Surjection
    <2> HIDE DEF list
    <2> QED BY <2>1, <2>4, <2>5, FS_Surjection
<1>4. FilesOf(zips, places, location) = UNION parts
    BY DEF FilesOf
<1> HIDE DEF parts
<1> QED BY <1>2, <1>3, <1>4, FS_UNION

LEMMA MatchedFinite ==
    ASSUME Types, NEW s \in SUBSET Wanted
    PROVE  IsFiniteSet(s) /\ IsFiniteSet({match[w] : w \in s})
<1>1. IsFiniteSet(s)
    BY UsedFacts, FS_Subset
<1> DEFINE files == {match[w] : w \in s}
           list == [w \in s |-> match[w]]
<1>2. list \in Surjection(s, files)
    BY DEF Surjection
<1> HIDE DEF list
<1> QED BY <1>1, <1>2, FS_Surjection

\* What is counted is finite.
LEMMA CopiesFinite ==
    ASSUME Types, Finite, NEW h
    PROVE  /\ IsFiniteSet(LocalFiles) /\ IsFiniteSet(ZipCopies(h)) /\ IsFiniteSet(PackedCopies(h))
           /\ IsFiniteSet(ReducedCopies(h)) /\ \A p : IsFiniteSet(ProvidedIn(p))
           /\ Cardinality(ZipCopies(h)) \in Nat /\ Cardinality(PackedCopies(h)) \in Nat
           /\ Cardinality(ReducedCopies(h)) \in Nat
<1>1. LocalFiles \in SUBSET provided /\ ZipCopies(h) \in SUBSET provided
      /\ ReducedCopies(h) \in SUBSET reducedMani /\ PackedCopies(h) \in SUBSET Wanted
      /\ \A p : ProvidedIn(p) \in SUBSET provided
    BY DEF LocalFiles, ZipCopies, ReducedCopies, PackedCopies, Types, ProvidedIn
<1>2. IsFiniteSet(Wanted)
    BY UsedFacts
<1>3. IsFiniteSet(LocalFiles) /\ IsFiniteSet(ZipCopies(h)) /\ IsFiniteSet(PackedCopies(h))
      /\ IsFiniteSet(ReducedCopies(h)) /\ \A p : IsFiniteSet(ProvidedIn(p))
    BY <1>1, <1>2, FS_Subset DEF Finite
<1> QED BY <1>3, FS_CardinalityType

\* Where nothing is counted yet or any more.
LEMMA QuietCopies ==
    ASSUME CopyInv, Finite', UNCHANGED <<match, had, provided>>, pc \notin Repacking,
           made' = "current" => made = "current",
           pc' \notin Repacking \cup {"finalize"}
    PROVE  CopyInv'
<1>1. LocalFiles' = LocalFiles /\ Planned' = Planned
    BY DEF LocalFiles, Planned
<1>2. Placed'
    BY DEF Placed
<1>3. CopyLeft'
    BY <1>1 DEF CopyInv, CopyLeft
<1> QED BY <1>2, <1>3 DEF CopyInv

LEMMA StaleCopies == ASSUME Finite', made' # "current" PROVE CopyInv'
BY DEF CopyInv, Placed, CopyLeft

LEMMA InitCopies == Init => CopyInv
<1> SUFFICES ASSUME Init PROVE CopyInv
    OBVIOUS
<1>1. made = "outdated" /\ localManifest = {} /\ provided = {} /\ reducedMani = {}
    BY DEF Init
<1> QED BY <1>1, FS_EmptySet DEF CopyInv, Finite, Placed, CopyLeft

LEMMA QuietStep ==
    ASSUME Inv, CopyInv,
           \/ SettingsNext \/ Back \/ Start \/ Cleaned \/ Done \/ Finalize \/ Scan \/ UNCHANGED vars
           \/ \E u \in Urls : Fetch(u) \/ CleanDownload(u)
           \/ \E z \in Zips : CleanRepacked(z)
           \/ \E p \in Places : CleanReduced(p)
           \/ Throw \/ Error \/ Crash
    PROVE  CopyInv'
<1> USE DEF plan, repacker, history, disk
<1>1. CASE SettingsNext \/ Back \/ Start \/ Cleaned \/ Finalize
    <2>1. Finite'
        BY <1>1 DEF SettingsNext, Back, Start, Cleaned, Finalize, CopyInv, Finite
    <2>2. UNCHANGED <<match, had, provided, made>> /\ pc \notin Repacking
        BY <1>1 DEF SettingsNext, Back, Start, Cleaned, Finalize, Repacking
    <2>3. pc' \notin Repacking \cup {"finalize"}
        BY <1>1 DEF SettingsNext, Back, Start, Cleaned, Finalize, Repacking, Inv, Types
    <2> QED BY <2>1, <2>2, <2>3, QuietCopies
<1>2. CASE Done \/ UNCHANGED vars
    <2>1. UNCHANGED vars
        BY <1>2 DEF Done
    <2>2. Finite'
        BY <2>1 DEF vars, CopyInv, Finite
    <2>3. /\ LocalFiles' = LocalFiles /\ Planned' = Planned /\ Available' = Available
          /\ (\A h : ZipCopies(h)' = ZipCopies(h)) /\ (\A h : PackedCopies(h)' = PackedCopies(h))
          /\ (\A h : ReducedCopies(h)' = ReducedCopies(h))
        BY <2>1 DEF vars, LocalFiles, Planned, Available, ZipCopies, PackedCopies, ReducedCopies
    <2>4. Placed'
        BY <2>1, <2>3 DEF vars, CopyInv, Placed, FilesOf
    <2>5. CopyLeft'
        BY <2>1, <2>3 DEF vars, CopyInv, CopyLeft
    <2> QED BY <2>2, <2>4, <2>5 DEF CopyInv
<1>3. CASE Scan
    <2>1. IsFiniteSet(localManifest')
        <3>1. CASE \E z \in Zips : zip[z] = Torn
            BY <1>3, <3>1, FS_EmptySet DEF Scan
        <3>2. CASE ~ \E z \in Zips : zip[z] = Torn
            <4>1. \A p \in Local : zip[p] \in Seq(File)
                BY <3>2, PlacesFacts DEF Inv, Types, Contentful, Local
            <4>2. Local \in SUBSET Places
                BY PlacesFacts
            <4>3. IsFiniteSet(FilesOf(zip, Local, "Local"))
                BY <4>1, <4>2, FilesOfFinite, Zenon
            <4> QED BY <1>3, <3>2, <4>3 DEF Scan
        <3> QED BY <3>1, <3>2
    <2>2. Finite'
        BY <1>3, <2>1 DEF Scan, CopyInv, Finite
    <2> QED BY <1>3, <2>2, QuietCopies DEF Scan, Repacking
<1>4. CASE \/ \E u \in Urls : Fetch(u) \/ CleanDownload(u)
           \/ \E z \in Zips : CleanRepacked(z)
           \/ \E p \in Places : CleanReduced(p)
    <2>1. UNCHANGED <<match, had, provided, made, localManifest, reducedMani>>
          /\ pc \in {"download", "clean"} /\ pc' \in {"download", "verify", "clean"}
        BY <1>4 DEF Fetch, CleanDownload, CleanRepacked, CleanReduced
    <2>2. Finite'
        BY <2>1 DEF CopyInv, Finite
    <2> QED BY <2>1, <2>2, QuietCopies DEF Repacking
<1>5. CASE Throw \/ Error \/ Crash
    <2>1. Finite'
        BY <1>5, FS_EmptySet DEF Throw, Error, Crash, Unwind, CopyInv, Finite
    <2>2. made' # "current"
        BY <1>5 DEF Throw, Error, Crash, Unwind
    <2> QED BY <2>1, <2>2, StaleCopies
<1> QED BY <1>1, <1>2, <1>3, <1>4, <1>5

LEMMA RefreshCopies == ASSUME Inv, CopyInv, NEW version \in Targets, Refresh(version) PROVE CopyInv'
<1> DEFINE inplace(f) == \E i \in DOMAIN version[f.place] : version[f.place][i].name = f.name
           moved(f) == [f EXCEPT !.location = IF f.place \in Zips /\ inplace(f) THEN "Inplace" ELSE "Local"]
           found == {moved(f) : f \in localManifest}
<1>1. /\ pc' = "confirm" /\ provided' = found \cup FilesOf(Remote, Urls, "Remote")
      /\ had' = {f.hash : f \in localManifest}
      /\ UNCHANGED <<localManifest, reducedMani>>
    BY DEF Refresh
<1>2. localManifest \subseteq FileInfo
    BY DEF Inv, Types
<1>3. \A f \in localManifest : moved(f).hash = f.hash /\ moved(f).location \in {"Inplace", "Local"}
    <2> HIDE DEF inplace
    <2> QED BY <1>2 DEF FileInfo
<1> HIDE DEF moved
<1>4. Finite'
    <2>1. Urls \in SUBSET Places /\ \A u \in Urls : Remote[u] \in Seq(File)
        BY PlacesFacts, UpdaterAssumption
    <2>2. IsFiniteSet(FilesOf(Remote, Urls, "Remote"))
        BY <2>1, FilesOfFinite, Zenon
    <2> DEFINE list == [f \in localManifest |-> moved(f)]
    <2>3. list \in Surjection(localManifest, found)
        BY DEF Surjection
    <2> HIDE DEF list, found
    <2>4. IsFiniteSet(found)
        BY <2>3, FS_Surjection DEF CopyInv, Finite
    <2>5. IsFiniteSet(provided')
        BY <1>1, <2>2, <2>4, FS_Union
    <2> QED BY <1>1, <2>5 DEF CopyInv, Finite
<1>5. \A h \in had' : \E f \in LocalFiles' : f.hash = h
    <2> SUFFICES ASSUME NEW f \in localManifest PROVE \E g \in LocalFiles' : g.hash = f.hash
        BY <1>1
    <2>1. moved(f) \in LocalFiles'
        BY <1>1, <1>3 DEF LocalFiles
    <2> QED BY <1>3, <2>1
<1> QED BY <1>1, <1>4, <1>5 DEF CopyInv, Placed, CopyLeft, Repacking

LEMMA VerifyCopies == ASSUME Inv, CopyInv, NEW u \in Urls, Verify(u) PROVE CopyInv'
<1> DEFINE remote == {match[w] : w \in {v \in DOMAIN match : match[v].location = "Remote"
                                                             /\ match[v].place = u}}
<1>1. /\ pc = "verify" /\ pc' \in {"verify", "begin"} /\ u \in Needed
      /\ UNCHANGED <<localManifest, reducedMani, made, had>>
    BY DEF Verify, repacker, history
<1>2. PICK order \in InOrder({f.pos : f \in remote}) :
          LET local(f) == [f EXCEPT !.pos = CHOOSE i \in DOMAIN order : order[i] = f.pos,
                                    !.location = "Local"]
          IN  provided' = provided \cup {local(f) : f \in remote}
    BY DEF Verify
<1> DEFINE local(f) == [f EXCEPT !.pos = CHOOSE i \in DOMAIN order : order[i] = f.pos,
                                 !.location = "Local"]
           locals == {local(f) : f \in remote}
<1>3. provided' = provided \cup locals
    BY <1>2
<1>4. Planned
    BY <1>1, NeededFacts
<1>5. IsFiniteSet(remote)
    <2> DEFINE s == {v \in DOMAIN match : match[v].location = "Remote" /\ match[v].place = u}
    <2>1. s \in SUBSET Wanted
        BY <1>4 DEF Inv, Types
    <2> HIDE DEF s
    <2>2. IsFiniteSet({match[w] : w \in s})
        BY <2>1, MatchedFinite DEF Inv
    <2> QED BY <2>2 DEF s
<1>6. IsFiniteSet(locals)
    <2> DEFINE list == [f \in remote |-> local(f)]
    <2> HIDE DEF remote, local
    <2>1. list \in Surjection(remote, locals)
        BY DEF Surjection
    <2> HIDE DEF list, locals
    <2> QED BY <1>5, <2>1, FS_Surjection
<1> HIDE DEF locals
<1>7. Finite'
    BY <1>1, <1>3, <1>6, FS_Union DEF CopyInv, Finite
<1>8. LocalFiles \subseteq LocalFiles'
    BY <1>3 DEF LocalFiles
<1> QED BY <1>1, <1>4, <1>7, <1>8 DEF CopyInv, Placed, CopyLeft, Repacking

LEMMA BeginCopies == ASSUME Inv, CopyInv, Begin PROVE CopyInv'
<1>1. /\ pc = "begin" /\ pc' = "nopack" /\ packed' = {} /\ reducedMani' = {}
      /\ hashProvidedCnt' = [h \in Hashes |-> Cardinality({f \in LocalFiles : f.hash = h})]
      /\ UNCHANGED <<localManifest, provided, match, made, had>>
    BY DEF Begin, plan, history
<1>2. Finite'
    BY <1>1, FS_EmptySet DEF CopyInv, Finite
<1>3. LocalFiles' = LocalFiles /\ Planned
    BY <1>1 DEF LocalFiles, Inv, Types, Early
<1>4. Placed'
    BY <1>1 DEF Placed
<1>5. \A h : /\ ZipCopies(h)' = {f \in LocalFiles : f.hash = h}
             /\ PackedCopies(h)' = {} /\ ReducedCopies(h)' = {}
    BY <1>1, <1>3 DEF ZipCopies, PackedCopies, ReducedCopies
<1>6. \A h \in Hashes : Cardinality({f \in LocalFiles : f.hash = h}) \in Nat
    <2>1. IsFiniteSet(LocalFiles)
        BY CopiesFinite DEF Inv, CopyInv
    <2>2. \A h : IsFiniteSet({f \in LocalFiles : f.hash = h})
        BY <2>1, FS_Subset
    <2> QED BY <2>2, FS_CardinalityType
<1>7. \A h \in Hashes : hashProvidedCnt'[h] = Cardinality(ZipCopies(h)') + Cardinality(PackedCopies(h)')
                                              + Cardinality(ReducedCopies(h)')
    <2> SUFFICES ASSUME NEW h \in Hashes
                 PROVE  hashProvidedCnt'[h] = Cardinality(ZipCopies(h)') + Cardinality(PackedCopies(h)')
                                              + Cardinality(ReducedCopies(h)')
        OBVIOUS
    <2>1. Cardinality(ZipCopies(h)') = hashProvidedCnt'[h] /\ hashProvidedCnt'[h] \in Nat
        BY <1>1, <1>5, <1>6
    <2>2. Cardinality(PackedCopies(h)') = 0 /\ Cardinality(ReducedCopies(h)') = 0
        BY <1>5, FS_EmptySet
    <2> QED BY <2>1, <2>2
<1>8. made = "current" => \A h \in had : hashProvidedCnt'[h] > 0
    <2> SUFFICES ASSUME made = "current", NEW h \in had PROVE hashProvidedCnt'[h] > 0
        OBVIOUS
    <2>1. h \in Hashes
        BY DEF Inv, Types
    <2>2. PICK f \in LocalFiles : f.hash = h
        BY <1>1, <1>3 DEF CopyInv, CopyLeft, Repacking
    <2>3. {g \in LocalFiles : g.hash = h} # {}
        BY <2>2
    <2>4. IsFiniteSet(LocalFiles)
        BY CopiesFinite DEF Inv, CopyInv
    <2>5. IsFiniteSet({g \in LocalFiles : g.hash = h})
        BY <2>4, FS_Subset
    <2>6. Cardinality({g \in LocalFiles : g.hash = h}) # 0
        BY <2>3, <2>5, FS_EmptySet
    <2> QED BY <1>1, <1>6, <2>1, <2>6
<1>9. CopyLeft'
    BY <1>1, <1>7, <1>8 DEF CopyLeft, Repacking
<1> QED BY <1>2, <1>4, <1>9 DEF CopyInv

\* Steps that leave the copies where they are.
LEMMA SameCopies ==
    ASSUME CopyInv, Finite', Placed', UNCHANGED <<hashProvidedCnt, had, made>>, pc \in Repacking, pc' \in Repacking,
           \A h : /\ ZipCopies(h)' = ZipCopies(h) /\ PackedCopies(h)' = PackedCopies(h)
                  /\ ReducedCopies(h)' = ReducedCopies(h)
    PROVE  CopyInv'
<1>1. CopyLeft'
    BY DEF CopyInv, CopyLeft, Repacking
<1> QED BY <1>1 DEF CopyInv

LEMMA SameStep ==
    ASSUME Inv, CopyInv,
           \/ ProcessedWithoutRepacking \/ RemoveOld \/ Reduced \/ Repacked
           \/ \E z \in Zips : OpenRepacked(z) \/ Rename(z)
    PROVE  CopyInv'
<1> USE DEF plan, repacker, history, disk
<1>1. CASE ProcessedWithoutRepacking \/ Reduced \/ \E z \in Zips : OpenRepacked(z)
    <2>1. /\ pc \in Repacking \ {"remove", "renames"} /\ pc' \in Repacking \ {"remove", "renames"}
          /\ UNCHANGED <<localManifest, provided, reducedMani, match, packed, hashProvidedCnt, had, made>>
        BY <1>1 DEF ProcessedWithoutRepacking, Reduced, OpenRepacked, Repacking
    <2>2. Finite' /\ Placed'
        BY <2>1 DEF CopyInv, Finite, Placed, Repacking
    <2>3. \A h : /\ ZipCopies(h)' = ZipCopies(h) /\ PackedCopies(h)' = PackedCopies(h)
                 /\ ReducedCopies(h)' = ReducedCopies(h)
        BY <2>1 DEF ZipCopies, PackedCopies, ReducedCopies, LocalFiles
    <2> QED BY <2>1, <2>2, <2>3, SameCopies
<1>2. CASE RemoveOld
    <2>1. /\ pc = "remove" /\ pc' = "reduce" /\ provided' = provided \ ProvidedIn(at)
          /\ UNCHANGED <<localManifest, reducedMani, match, packed, hashProvidedCnt, had, made>>
        BY <1>2 DEF RemoveOld
    <2>2. Finite'
        BY <2>1, FS_Difference DEF CopyInv, Finite
    <2>3. Placed'
        BY <2>1 DEF CopyInv, Placed, Repacking
    <2>4. \A h : /\ ZipCopies(h)' = ZipCopies(h) /\ PackedCopies(h)' = PackedCopies(h)
                 /\ ReducedCopies(h)' = ReducedCopies(h)
        BY <2>1 DEF ZipCopies, PackedCopies, ReducedCopies, LocalFiles, ProvidedIn
    <2> QED BY <2>1, <2>2, <2>3, <2>4, SameCopies DEF Repacking
<1>3. CASE Repacked
    <2>1. /\ pc = "pack" /\ pc' = "renames"
          /\ UNCHANGED <<disk, localManifest, provided, reducedMani, match, packed, hashProvidedCnt, had, made>>
        BY <1>3 DEF Repacked
    <2>2. Finite'
        BY <2>1 DEF CopyInv, Finite
    <2>3. \A w \in packed : made = "current" => zipRepacked[w[1]] # <<>>
        <3> SUFFICES ASSUME NEW w \in packed, made = "current" PROVE zipRepacked[w[1]] # <<>>
            OBVIOUS
        <3>1. w \in Wanted /\ w[1] \in isRepacked
            BY <2>1 DEF Inv, Counted, Repacking
        <3>2. SameIf(exact, zipRepacked[w[1]], target[w[1]])
            BY <2>1, <3>1 DEF Inv, RepackedRight, Sorting, Repacking
        <3>3. w[1] \in Zips /\ w \in WantedIn(w[1])
            BY <3>1, WantedFacts DEF Inv, Types, WantedIn
        <3>4. target[w[1]] # <<>> /\ target[w[1]] \in Seq(File)
            BY <3>3, WantedFacts DEF Inv, Types
        <3> QED BY <3>2, <3>4, SameFacts
    <2>4. Placed'
        BY <2>1, <2>3 DEF CopyInv, Placed, Repacking
    <2>5. \A h : /\ ZipCopies(h)' = ZipCopies(h) /\ PackedCopies(h)' = PackedCopies(h)
                 /\ ReducedCopies(h)' = ReducedCopies(h)
        BY <2>1 DEF ZipCopies, PackedCopies, ReducedCopies, LocalFiles
    <2> QED BY <2>1, <2>2, <2>4, <2>5, SameCopies DEF Repacking
<1>4. CASE \E z \in Zips : Rename(z)
    <2>1. PICK z \in Zips : Rename(z)
        BY <1>4
    <2>2. /\ pc = "renames" /\ pc' = "renames" /\ z \in isRepacked
          /\ zipRepacked' = [zipRepacked EXCEPT ![z] = <<>>]
          /\ match' = [w \in Wanted |-> IF w \in WantedIn(z)
                       THEN [match[w] EXCEPT !.place = z, !.location = "Inplace"] ELSE match[w]]
          /\ UNCHANGED <<localManifest, provided, reducedMani, packed, hashProvidedCnt, had, made>>
        BY <2>1 DEF Rename, ToRename
    <2>3. Planned /\ match \in [Wanted -> FileInfo] /\ packed = Wanted /\ z \in Places
        BY <2>2, PlacesFacts DEF Inv, Types, Counted
    <2>4. /\ \A w \in WantedIn(z) : w \in Wanted /\ match'[w].place = z /\ match'[w].location = "Inplace"
                                    /\ match'[w].hash = match[w].hash /\ w[1] = z
          /\ \A w \in Wanted : w \notin WantedIn(z) => match'[w] = match[w] /\ w[1] # z
        BY <2>2, <2>3 DEF FileInfo, WantedIn
    <2>5. Finite'
        BY <2>2 DEF CopyInv, Finite
    <2>6. Placed'
        <3> SUFFICES ASSUME made = "current", NEW w \in Wanted
                     PROVE  /\ match'[w].location \in {"Repacked", "Inplace"}
                            /\ zipRepacked'[w[1]] = <<>> => match'[w].place = w[1]
            BY <2>2, <2>3 DEF Placed, Repacking
        <3>1. CASE w \in WantedIn(z)
            BY <2>4, <3>1
        <3>2. CASE w \notin WantedIn(z)
            <4>1. w[1] \in Places /\ w[1] # z
                BY <2>4, <3>2, WantedFacts, PlacesFacts DEF Inv, Types
            <4>2. zipRepacked'[w[1]] = zipRepacked[w[1]]
                BY <2>2, <4>1 DEF Inv, Types
            <4> QED BY <2>2, <2>3, <2>4, <3>2, <4>2 DEF CopyInv, Placed, Repacking
        <3> QED BY <3>1, <3>2
    <2>7. \A h : /\ ZipCopies(h)' = ZipCopies(h) /\ PackedCopies(h)' = PackedCopies(h)
                 /\ ReducedCopies(h)' = ReducedCopies(h)
        <3>1. \A w \in packed : match'[w].hash = match[w].hash
            BY <2>3, <2>4
        <3> QED BY <2>2, <3>1 DEF ZipCopies, PackedCopies, ReducedCopies, LocalFiles
    <2> QED BY <2>2, <2>5, <2>6, <2>7, SameCopies DEF Repacking
<1> QED BY <1>1, <1>2, <1>3, <1>4

\* Of finitely many positions the last has all of them up to it.
LEMMA LastPosition ==
    ASSUME NEW S \in SUBSET Nat, IsFiniteSet(S), S # {}
    PROVE  \E i \in S : Cardinality({j \in S : j <= i}) = Cardinality(S)
<1> DEFINE upTo(i) == {j \in S : j <= i}
           rank == [i \in S |-> Cardinality(upTo(i))]
           s == Cardinality(S)
<1>1. s \in Nat /\ s # 0
    BY FS_CardinalityType, FS_EmptySet
<1>2. ASSUME NEW i \in S
      PROVE  IsFiniteSet(upTo(i)) /\ Cardinality(upTo(i)) \in 1 .. s
    <2>1. upTo(i) \in SUBSET S /\ upTo(i) # {}
        OBVIOUS
    <2>2. IsFiniteSet(upTo(i)) /\ Cardinality(upTo(i)) <= s
        BY <2>1, FS_Subset
    <2>3. Cardinality(upTo(i)) \in Nat /\ Cardinality(upTo(i)) # 0
        BY <2>1, <2>2, FS_CardinalityType, FS_EmptySet
    <2> HIDE DEF upTo, s
    <2> QED BY <1>1, <2>2, <2>3
<1>3. ASSUME NEW i \in S, NEW j \in S, i < j PROVE Cardinality(upTo(i)) # Cardinality(upTo(j))
    <2>1. upTo(i) \in SUBSET upTo(j)
        <3> SUFFICES ASSUME NEW k \in upTo(i) PROVE k \in S /\ k <= j
            OBVIOUS
        <3>1. k \in S /\ k \in Nat /\ i \in Nat /\ j \in Nat /\ k <= i
            OBVIOUS
        <3> HIDE DEF upTo
        <3> QED BY <1>3, <3>1
    <2>2. j \in upTo(j) /\ j \notin upTo(i)
        BY <1>3
    <2>3. upTo(i) # upTo(j)
        BY <2>2
    <2> HIDE DEF upTo
    <2> QED BY <1>2, <2>1, <2>3, FS_Subset
<1>4. ASSUME NEW i \in S, NEW j \in S, Cardinality(upTo(i)) = Cardinality(upTo(j)) PROVE i = j
    <2>1. ~(i < j) /\ ~(j < i)
        BY <1>3, <1>4
    <2> QED BY <2>1
<1> HIDE DEF upTo
<1>5. rank \in Injection(S, 1 .. s)
    <2>1. rank \in [S -> 1 .. s]
        BY <1>2
    <2> QED BY <1>4, <2>1 DEF Injection, IsInjective
<1>6. IsFiniteSet(1 .. s) /\ Cardinality(1 .. s) = s
    BY <1>1, FS_Interval
<1>7. rank \in Surjection(S, 1 .. s)
    BY <1>5, <1>6, FS_Injection
<1>8. PICK i \in S : rank[i] = s
    <2>1. s \in 1 .. s
        BY <1>1
    <2> HIDE DEF rank, s
    <2> QED BY <1>7, <2>1 DEF Surjection
<1> QED BY <1>8 DEF upTo

\* Copies that go from one set to another are as many as before.
LEMMA MoveCount ==
    ASSUME NEW S, NEW T, NEW A \in SUBSET S, NEW B, IsFiniteSet(S), IsFiniteSet(T), T \cap B = {},
           ExistsBijection(B, A)
    PROVE  /\ Cardinality(S \ A) + Cardinality(T \cup B) = Cardinality(S) + Cardinality(T)
           /\ Cardinality(S) \in Nat /\ Cardinality(T) \in Nat
<1>1. IsFiniteSet(A)
    BY FS_Subset
<1>2. IsFiniteSet(B) /\ Cardinality(B) = Cardinality(A)
    <2>1. PICK f \in Bijection(B, A) : TRUE
        BY DEF ExistsBijection
    <2>2. f \in Injection(B, A) /\ f \in Surjection(B, A)
        BY <2>1 DEF Bijection
    <2> QED BY <1>1, <2>2, FS_Injection
<1>3. S \cap A = A
    OBVIOUS
<1>4. Cardinality(S \ A) = Cardinality(S) - Cardinality(A)
    BY <1>3, FS_Difference
<1>5. Cardinality(T \cup B) = Cardinality(T) + Cardinality(B) - 0
    BY <1>2, FS_Union, FS_EmptySet
<1>6. Cardinality(S) \in Nat /\ Cardinality(T) \in Nat /\ Cardinality(A) \in Nat
    BY <1>1, FS_CardinalityType
<1> QED BY <1>2, <1>4, <1>5, <1>6

LEMMA RenameUnpackedCopies ==
    ASSUME Inv, CopyInv, NEW dst \in Zips, NEW src \in Places, RenameUnpacked(dst, src)
    PROVE  CopyInv'
<1>1. /\ pc = "nopack" /\ Candidate(dst, src)
      /\ provided' = provided \ ProvidedIn(src)
      /\ match' = [w \in Wanted |-> IF w \in WantedIn(dst)
                                    THEN [match[w] EXCEPT !.location = "Repacked"] ELSE match[w]]
      /\ packed' = packed \cup WantedIn(dst)
      /\ UNCHANGED <<pc, at, localManifest, reducedMani, hashProvidedCnt, made, had>>
    BY DEF RenameUnpacked, history
<1>2. /\ WantedIn(dst) \cap packed = {}
      /\ \A w \in WantedIn(dst) : w \in Wanted /\ match[w] \in ProvidedIn(src) /\ match[w].place = src
      /\ \A v, w \in WantedIn(dst) : match[v] = match[w] => v = w
      /\ \A f \in ProvidedIn(src) : \E w \in WantedIn(dst) : match[w] = f
    BY <1>1, CandidateFacts
<1>3. match \in [Wanted -> FileInfo] /\ packed \subseteq Wanted
    BY <1>1 DEF Inv, Types, Early, Sorting, Repacking
<1>4. /\ \A w \in WantedIn(dst) : match'[w].hash = match[w].hash /\ match'[w].location = "Repacked"
      /\ \A w \in packed : match'[w] = match[w]
    BY <1>1, <1>2, <1>3 DEF FileInfo
<1>5. Finite'
    BY <1>1, FS_Difference DEF CopyInv, Finite
<1>6. Placed'
    BY <1>1, <1>4 DEF CopyInv, Placed, Repacking
<1>7. ASSUME NEW h
      PROVE  Cardinality(ZipCopies(h)') + Cardinality(PackedCopies(h)') =
             Cardinality(ZipCopies(h)) + Cardinality(PackedCopies(h))
    <2> DEFINE A == {f \in ProvidedIn(src) : f.hash = h}
               B == {w \in WantedIn(dst) : match[w].hash = h}
               from == [w \in B |-> match[w]]
    <2>1. ZipCopies(h)' = ZipCopies(h) \ A /\ A \in SUBSET ZipCopies(h)
        BY <1>1 DEF ZipCopies, LocalFiles, ProvidedIn
    <2>2. PackedCopies(h)' = PackedCopies(h) \cup B /\ PackedCopies(h) \cap B = {}
        <3>1. PackedCopies(h)' = {w \in packed \cup WantedIn(dst) : match'[w].hash = h}
            BY <1>1 DEF PackedCopies
        <3>2. \A w \in packed \cup WantedIn(dst) : match'[w].hash = match[w].hash
            BY <1>4
        <3> QED BY <1>2, <3>1, <3>2 DEF PackedCopies
    <2>3. from \in Bijection(B, A)
        <3>1. from \in [B -> A]
            BY <1>2
        <3>2. \A v, w \in B : from[v] = from[w] => v = w
            BY <1>2
        <3>3. \A f \in A : \E w \in B : from[w] = f
            BY <1>2
        <3> HIDE DEF from, A, B
        <3> QED BY <3>1, <3>2, <3>3 DEF Bijection, Injection, Surjection, IsInjective
    <2>4. ExistsBijection(B, A)
        BY <2>3 DEF ExistsBijection
    <2>5. IsFiniteSet(ZipCopies(h)) /\ IsFiniteSet(PackedCopies(h))
        BY CopiesFinite DEF Inv, CopyInv
    <2> HIDE DEF A, B
    <2> QED BY <2>1, <2>2, <2>4, <2>5, MoveCount
<1>8. \A h : ReducedCopies(h)' = ReducedCopies(h)
    BY <1>1 DEF ReducedCopies
<1>9. CopyLeft'
    <2> SUFFICES ASSUME made = "current"
                 PROVE  \A h \in Hashes : hashProvidedCnt[h] =
                           Cardinality(ZipCopies(h)') + Cardinality(PackedCopies(h)') + Cardinality(ReducedCopies(h)')
        BY <1>1 DEF CopyInv, CopyLeft, Repacking
    <2>1. \A h \in Hashes : hashProvidedCnt[h] =
              Cardinality(ZipCopies(h)) + Cardinality(PackedCopies(h)) + Cardinality(ReducedCopies(h))
        BY <1>1 DEF CopyInv, CopyLeft, Repacking
    <2> QED BY <1>7, <1>8, <2>1
<1> QED BY <1>5, <1>6, <1>9 DEF CopyInv

LEMMA RepackCopies == ASSUME Inv, CopyInv, Repack PROVE CopyInv'
<1> DEFINE n == Len(target[at])
<1>1. /\ pc = "packing" /\ pc' = "reduce"
      /\ packed' = packed \cup WantedIn(at)
      /\ UNCHANGED <<localManifest, provided, reducedMani, made, had>>
    BY DEF Repack, history
<1>2. PICK content \in Contents(n) :
          LET hash == [i \in DOMAIN content |-> IF Raw(<<at, i>>) THEN match[<<at, i>>].hash
                                                                 ELSE content[i].hash]
          IN  /\ match' = [w \in Wanted |->
                   IF w[1] # at THEN match[w]
                   ELSE [place |-> at, pos |-> w[2], name |-> Want(w).name,
                         hash |-> hash[w[2]], location |-> "Repacked"]]
              /\ hashProvidedCnt' = [h \in Hashes |-> hashProvidedCnt[h] +
                   Cardinality({i \in DOMAIN hash : hash[i] = h})]
    BY DEF Repack
<1>3. DOMAIN content = 1 .. n
    BY <1>2 DEF Contents
<1> DEFINE hash == [i \in 1 .. n |-> IF Raw(<<at, i>>) THEN match[<<at, i>>].hash ELSE content[i].hash]
<1>4. at \in Zips /\ at \notin isRepacked /\ WantedIn(at) \cap packed = {}
    BY <1>1 DEF Inv, Counted, ToRepack, Repacking, WantedIn
<1>5. n \in Nat /\ DOMAIN target[at] = 1 .. n
    BY <1>4, WantedCount DEF Inv, Types
<1>6. /\ match' = [w \in Wanted |->
                   IF w[1] # at THEN match[w]
                   ELSE [place |-> at, pos |-> w[2], name |-> Want(w).name,
                         hash |-> hash[w[2]], location |-> "Repacked"]]
      /\ hashProvidedCnt' = [h \in Hashes |-> hashProvidedCnt[h] +
                   Cardinality({i \in 1 .. n : hash[i] = h})]
    BY <1>2, <1>3
<1> HIDE DEF hash
<1>7. /\ \A i \in 1 .. n : <<at, i>> \in WantedIn(at) /\ <<at, i>> \in Wanted
      /\ \A w \in WantedIn(at) : w \in Wanted /\ w[1] = at /\ w[2] \in 1 .. n /\ w = <<at, w[2]>>
      /\ packed \subseteq Wanted /\ \A w \in packed : w[1] # at
    BY <1>4, <1>5, WantedFacts DEF Inv, Types, WantedIn
<1>8. /\ \A w \in WantedIn(at) : match'[w].hash = hash[w[2]] /\ match'[w].location = "Repacked"
      /\ \A w \in packed : match'[w] = match[w]
    BY <1>6, <1>7
<1>9. Finite'
    BY <1>1 DEF CopyInv, Finite
<1>10. Placed'
    BY <1>1, <1>8 DEF CopyInv, Placed, Repacking
<1>11. ASSUME NEW h
       PROVE  Cardinality(PackedCopies(h)') = Cardinality(PackedCopies(h)) + Cardinality({i \in 1 .. n : hash[i] = h})
              /\ Cardinality({i \in 1 .. n : hash[i] = h}) \in Nat
    <2> DEFINE A == {i \in 1 .. n : hash[i] = h}
               B == {w \in WantedIn(at) : match'[w].hash = h}
               list == [i \in A |-> <<at, i>>]
    <2>1. PackedCopies(h)' = PackedCopies(h) \cup B /\ PackedCopies(h) \cap B = {}
        BY <1>1, <1>4, <1>8 DEF PackedCopies
    <2>2. list \in Bijection(A, B)
        <3>1. list \in [A -> B]
            BY <1>7, <1>8
        <3>2. \A i, j \in A : list[i] = list[j] => i = j
            OBVIOUS
        <3>3. \A w \in B : \E i \in A : list[i] = w
            <4> SUFFICES ASSUME NEW w \in B PROVE \E i \in A : list[i] = w
                OBVIOUS
            <4>1. w[2] \in A /\ w = <<at, w[2]>>
                BY <1>7, <1>8
            <4>2. list[w[2]] = w
                BY <4>1
            <4> QED BY <4>1, <4>2
        <3> HIDE DEF list, A, B
        <3> QED BY <3>1, <3>2, <3>3 DEF Bijection, Injection, Surjection, IsInjective
    <2>3. IsFiniteSet(A) /\ Cardinality(A) \in Nat
        <3>1. IsFiniteSet(1 .. n) /\ A \in SUBSET (1 .. n)
            BY <1>5, FS_Interval
        <3> HIDE DEF A
        <3> QED BY <3>1, FS_Subset, FS_CardinalityType
    <2>4. ExistsBijection(A, B)
        BY <2>2 DEF ExistsBijection
    <2> HIDE DEF A, B
    <2>5. IsFiniteSet(B) /\ Cardinality(B) = Cardinality(A)
        BY <2>3, <2>4, FS_Bijection
    <2>6. IsFiniteSet(PackedCopies(h)) /\ Cardinality(PackedCopies(h)) \in Nat
        BY CopiesFinite DEF Inv, CopyInv
    <2>7. Cardinality(PackedCopies(h) \cup B) = Cardinality(PackedCopies(h)) + Cardinality(B) - 0
        BY <2>1, <2>5, <2>6, FS_Union, FS_EmptySet
    <2>8. Cardinality(PackedCopies(h)') = Cardinality(PackedCopies(h)) + Cardinality(A)
        BY <2>1, <2>3, <2>5, <2>6, <2>7
    <2> QED BY <2>3, <2>8 DEF A
<1>12. \A h : ReducedCopies(h)' = ReducedCopies(h) /\ ZipCopies(h)' = ZipCopies(h)
    BY <1>1 DEF ReducedCopies, ZipCopies, LocalFiles
<1>13. \A h \in Hashes : hashProvidedCnt'[h] = hashProvidedCnt[h] + Cardinality({i \in 1 .. n : hash[i] = h})
    BY <1>6
<1>14. CopyLeft'
    <2> SUFFICES ASSUME made = "current"
                 PROVE  /\ \A h \in Hashes : hashProvidedCnt'[h] =
                              Cardinality(ZipCopies(h)') + Cardinality(PackedCopies(h)') + Cardinality(ReducedCopies(h)')
                        /\ \A h \in had : hashProvidedCnt'[h] > 0
        BY <1>1 DEF CopyLeft, Repacking
    <2>1. \A h \in Hashes : hashProvidedCnt[h] =
              Cardinality(ZipCopies(h)) + Cardinality(PackedCopies(h)) + Cardinality(ReducedCopies(h))
        BY <1>1 DEF CopyInv, CopyLeft, Repacking
    <2>2. \A h \in had : h \in Hashes /\ hashProvidedCnt[h] > 0
        BY <1>1 DEF CopyInv, CopyLeft, Repacking, Inv, Types
    <2>3. \A h : /\ Cardinality(ZipCopies(h)) \in Nat /\ Cardinality(PackedCopies(h)) \in Nat
                 /\ Cardinality(ReducedCopies(h)) \in Nat
        BY CopiesFinite DEF Inv, CopyInv
    <2>4. ASSUME NEW h \in Hashes
          PROVE  /\ hashProvidedCnt'[h] =
                      Cardinality(ZipCopies(h)') + Cardinality(PackedCopies(h)') + Cardinality(ReducedCopies(h)')
                 /\ hashProvidedCnt'[h] >= hashProvidedCnt[h]
        <3>1. Cardinality(PackedCopies(h)') = Cardinality(PackedCopies(h)) + Cardinality({i \in 1 .. n : hash[i] = h})
              /\ Cardinality({i \in 1 .. n : hash[i] = h}) \in Nat
            BY <1>11
        <3> HIDE DEF n
        <3> QED BY <1>12, <1>13, <2>1, <2>3, <3>1
    <2>5. \A h \in had : hashProvidedCnt'[h] > 0
        <3> SUFFICES ASSUME NEW h \in had PROVE hashProvidedCnt'[h] > 0
            OBVIOUS
        <3>1. h \in Hashes /\ hashProvidedCnt[h] > 0 /\ hashProvidedCnt[h] \in Nat
            BY <2>1, <2>2, <2>3
        <3>2. Cardinality({i \in 1 .. n : hash[i] = h}) \in Nat
            BY <1>11
        <3> HIDE DEF n
        <3> QED BY <1>13, <3>1, <3>2
    <2> QED BY <2>4, <2>5
<1> QED BY <1>9, <1>10, <1>14 DEF CopyInv

\* Of the copies of a hash that a zip has so many are kept that one is left, if there is one.
LEMMA KeptCount ==
    ASSUME Types, NEW p \in Places, zip[p] \in Seq(File), NEW h,
           hashProvidedCnt[h] \in Nat
    PROVE  LET F == {i \in Found(p) : HashAt(p, i) = h}
               K == {i \in Kept(p) : HashAt(p, i) = h}
               dropped == {i \in Found(p) \ Kept(p) : HashAt(p, i) = h}
           IN  /\ IsFiniteSet(F) /\ IsFiniteSet(K) /\ Cardinality(F) \in Nat /\ Cardinality(K) \in Nat
               /\ Cardinality(dropped) = Cardinality(F) - Cardinality(K)
               /\ hashProvidedCnt[h] > 0 /\ hashProvidedCnt[h] >= Cardinality(F) =>
                      hashProvidedCnt[h] - Cardinality(dropped) > 0
<1> DEFINE F == {i \in Found(p) : HashAt(p, i) = h}
           K == {i \in Kept(p) : HashAt(p, i) = h}
           dropped == {i \in Found(p) \ Kept(p) : HashAt(p, i) = h}
<1>1. /\ Found(p) \in SUBSET Nat /\ IsFiniteSet(Found(p)) /\ Kept(p) \subseteq Found(p)
    BY KeptFacts
<1>2. F \in SUBSET Found(p) /\ F \in SUBSET Nat /\ K \in SUBSET F /\ dropped = F \ K /\ F \cap K = K
    BY <1>1
<1>3. ASSUME F # {}, K = {}
      PROVE  ~(Cardinality(F) >= hashProvidedCnt[h])
    <2>1. IsFiniteSet(F)
        BY <1>1, <1>2, FS_Subset
    <2>2. PICK i \in F : Cardinality({j \in F : j <= i}) = Cardinality(F)
        <3> HIDE DEF F
        <3> QED BY <1>2, <1>3, <2>1, LastPosition
    <2>3. SameHash(p, i) = F
        BY <2>2 DEF SameHash
    <2>4. i \notin Kept(p) /\ i \in Found(p) /\ HashAt(p, i) = h
        BY <1>3, <2>2
    <2>5. ~(Cardinality({j \in SameHash(p, i) : j <= i}) >= hashProvidedCnt[HashAt(p, i)])
        BY <2>4 DEF Kept
    <2> HIDE DEF F
    <2> QED BY <2>2, <2>3, <2>4, <2>5
<1> HIDE DEF F, K, dropped
<1>4. IsFiniteSet(F)
    BY <1>1, <1>2, FS_Subset
<1>5. IsFiniteSet(K)
    BY <1>2, <1>4, FS_Subset
<1>6. Cardinality(F) \in Nat /\ Cardinality(K) \in Nat
    BY <1>4, <1>5, FS_CardinalityType
<1>7. Cardinality(dropped) = Cardinality(F) - Cardinality(K)
    <2>1. Cardinality(F \ K) = Cardinality(F) - Cardinality(F \cap K)
        BY <1>4, FS_Difference
    <2> QED BY <1>2, <2>1
<1>8. (F = {} <=> Cardinality(F) = 0) /\ (K = {} <=> Cardinality(K) = 0)
    BY <1>4, <1>5, FS_EmptySet
<1>9. F = {} => K = {}
    BY <1>2
<1>10. ASSUME hashProvidedCnt[h] > 0, hashProvidedCnt[h] >= Cardinality(F)
       PROVE  hashProvidedCnt[h] - Cardinality(dropped) > 0
    <2>1. CASE F = {}
        BY <1>6, <1>7, <1>8, <1>9, <1>10, <2>1
    <2>2. CASE F # {} /\ K = {}
        BY <1>3, <1>6, <1>7, <1>8, <1>10, <2>2
    <2>3. CASE K # {}
        BY <1>6, <1>7, <1>8, <1>10, <2>3
    <2> QED BY <2>1, <2>2, <2>3
<1> QED BY <1>4, <1>5, <1>6, <1>7, <1>10 DEF F, K, dropped

LEMMA WriteReducedCopies == ASSUME Inv, CopyInv, NEW p \in Places, WriteReduced(p) PROVE CopyInv'
<1>1. /\ pc = "reduce" /\ p \in Reducible /\ zip[p] \notin {<<>>, Torn}
      /\ hashProvidedCnt' = [h \in Hashes |->
             hashProvidedCnt[h] - Cardinality({i \in Found(p) \ Kept(p) : HashAt(p, i) = h})]
      /\ pc' = "remove" /\ at' = p
      /\ UNCHANGED <<localManifest, provided, match, packed, made, had>>
    BY DEF WriteReduced, plan, history
<1>2. PICK kept \in InOrder(Kept(p)) :
          reducedMani' = reducedMani \cup
                {[place |-> p, pos |-> i, name |-> zip[p][kept[i]].name,
                  hash |-> HashAt(p, kept[i]), location |-> "Reduced"] : i \in DOMAIN kept}
    BY DEF WriteReduced
<1>3. zip[p] \in Seq(File)
    BY <1>1 DEF Inv, Types, Contentful
<1>4. /\ Kept(p) \in SUBSET Nat /\ IsFiniteSet(Kept(p)) /\ Kept(p) \subseteq Found(p)
      /\ Found(p) \subseteq DOMAIN zip[p]
    BY <1>3, KeptFacts DEF Inv
<1>5. /\ Cardinality(Kept(p)) \in Nat /\ DOMAIN kept = 1 .. Cardinality(Kept(p))
      /\ \A i \in DOMAIN kept : kept[i] \in Kept(p)
      /\ \A i, j \in DOMAIN kept : kept[i] = kept[j] => i = j
      /\ \A k \in Kept(p) : \E i \in DOMAIN kept : kept[i] = k
    BY <1>2, <1>4, InOrderFacts
<1> DEFINE entry(i) == [place |-> p, pos |-> i, name |-> zip[p][kept[i]].name,
                        hash |-> HashAt(p, kept[i]), location |-> "Reduced"]
           entries == {entry(i) : i \in DOMAIN kept}
<1>6. \A i \in DOMAIN kept : entry(i).place = p /\ entry(i).pos = i /\ entry(i).hash = HashAt(p, kept[i])
    OBVIOUS
<1>7. reducedMani' = reducedMani \cup entries
    BY <1>2
<1> HIDE DEF entry
<1>8. IsFiniteSet(entries)
    <2> DEFINE list == [i \in DOMAIN kept |-> entry(i)]
    <2>1. list \in Surjection(DOMAIN kept, entries)
        BY DEF Surjection
    <2>2. IsFiniteSet(DOMAIN kept)
        BY <1>5, FS_Interval
    <2> HIDE DEF list, entries
    <2> QED BY <2>1, <2>2, FS_Surjection
<1>9. Finite'
    <2> HIDE DEF entries
    <2> QED BY <1>1, <1>7, <1>8, FS_Union DEF CopyInv, Finite
<1>10. Placed'
    BY <1>1 DEF CopyInv, Placed, Repacking
<1>11. CASE made # "current"
    BY <1>1, <1>9, <1>11, StaleCopies
<1>12. CASE made = "current"
    <2>1. p \notin isReduced /\ zipReduced[p] = <<>> /\ {f \in reducedMani : f.place = p} = {}
        BY <1>1, <1>12, ListsEmpty DEF Inv, Listed, Repacking, Reducible
    <2>2. Lists(ProvidedIn(p), zip[p])
        BY <1>1, <1>12, <2>1 DEF Inv, Listed, Repacking
    <2>3. \A f \in ProvidedIn(p) : f.pos \in Found(p) /\ HashAt(p, f.pos) = f.hash
        BY <2>2 DEF Lists, Found, HashAt
    <2>4. \A i \in Found(p) : \E f \in ProvidedIn(p) : f.pos = i
        BY DEF Found
    <2>5. ASSUME NEW h \in Hashes
          PROVE  /\ hashProvidedCnt'[h] =
                      Cardinality(ZipCopies(h)') + Cardinality(PackedCopies(h)') + Cardinality(ReducedCopies(h)')
                 /\ hashProvidedCnt[h] > 0 => hashProvidedCnt'[h] > 0
        <3> DEFINE A == {f \in ProvidedIn(p) : f.hash = h}
                   F == {i \in Found(p) : HashAt(p, i) = h}
                   K == {i \in Kept(p) : HashAt(p, i) = h}
                   E == {f \in entries : f.hash = h}
                   dropped == {i \in Found(p) \ Kept(p) : HashAt(p, i) = h}
                   c == hashProvidedCnt[h]
        <3>1. /\ c = Cardinality(ZipCopies(h)) + Cardinality(PackedCopies(h)) + Cardinality(ReducedCopies(h))
            BY <1>1, <1>12 DEF CopyInv, CopyLeft, Repacking
        <3>2. /\ IsFiniteSet(ZipCopies(h)) /\ IsFiniteSet(ReducedCopies(h))
              /\ Cardinality(ZipCopies(h)) \in Nat /\ Cardinality(PackedCopies(h)) \in Nat
              /\ Cardinality(ReducedCopies(h)) \in Nat
            BY CopiesFinite DEF Inv, CopyInv
        <3>3. hashProvidedCnt[h] \in Nat
            BY <3>1, <3>2
        <3>4. /\ IsFiniteSet(F) /\ IsFiniteSet(K) /\ Cardinality(F) \in Nat /\ Cardinality(K) \in Nat
              /\ Cardinality(dropped) = Cardinality(F) - Cardinality(K)
              /\ c > 0 /\ c >= Cardinality(F) => c - Cardinality(dropped) > 0
            BY <1>3, <3>3, KeptCount DEF Inv
        <3>5. /\ ZipCopies(h)' = ZipCopies(h) \ A /\ ZipCopies(h) \cap A = A /\ A \in SUBSET ZipCopies(h)
            BY <1>1 DEF ZipCopies, LocalFiles, ProvidedIn
        <3>6. PackedCopies(h)' = PackedCopies(h)
            BY <1>1 DEF PackedCopies
        <3>7. ReducedCopies(h)' = ReducedCopies(h) \cup E /\ ReducedCopies(h) \cap E = {}
            <4>1. \A f \in entries : f.place = p
                BY <1>6
            <4> HIDE DEF entries
            <4> QED BY <1>7, <2>1, <4>1 DEF ReducedCopies
        <3>8. ExistsBijection(A, F)
            <4> DEFINE pos == [f \in A |-> f.pos]
            <4>1. pos \in [A -> F]
                BY <2>3
            <4>2. \A f, g \in A : pos[f] = pos[g] => f = g
                BY <2>2 DEF Lists
            <4>3. \A i \in F : \E f \in A : pos[f] = i
                BY <2>3, <2>4
            <4> HIDE DEF pos, A, F
            <4> QED BY <4>1, <4>2, <4>3 DEF ExistsBijection, Bijection, Injection, Surjection, IsInjective
        <3>9. ExistsBijection(E, K)
            <4> DEFINE from == [f \in E |-> kept[f.pos]]
            <4>1. \A f \in entries : f.pos \in DOMAIN kept /\ f = entry(f.pos) /\ f.hash = HashAt(p, kept[f.pos])
                BY <1>6
            <4>2. from \in [E -> K]
                BY <1>5, <4>1
            <4>3. \A f, g \in E : from[f] = from[g] => f = g
                <5> SUFFICES ASSUME NEW f \in E, NEW g \in E, from[f] = from[g] PROVE f = g
                    OBVIOUS
                <5>1. kept[f.pos] = kept[g.pos] /\ f \in entries /\ g \in entries
                    OBVIOUS
                <5>2. f.pos = g.pos
                    BY <1>5, <4>1, <5>1
                <5> QED BY <4>1, <5>1, <5>2
            <4>4. \A k \in K : \E f \in E : from[f] = k
                <5> SUFFICES ASSUME NEW k \in K PROVE \E f \in E : from[f] = k
                    OBVIOUS
                <5>1. PICK i \in DOMAIN kept : kept[i] = k
                    BY <1>5
                <5>2. entry(i) \in E /\ entry(i).pos = i
                    BY <1>6, <5>1
                <5> QED BY <5>1, <5>2
            <4> HIDE DEF from, E, K
            <4> QED BY <4>2, <4>3, <4>4 DEF ExistsBijection, Bijection, Injection, Surjection, IsInjective
        <3>10. hashProvidedCnt'[h] = c - Cardinality(dropped)
            BY <1>1
        <3> HIDE DEF A, F, K, E, dropped
        <3>11. IsFiniteSet(A)
            BY <3>2, <3>5, FS_Subset
        <3>12. IsFiniteSet(E)
            BY <1>8, FS_Subset DEF E
        <3>13. Cardinality(A) = Cardinality(F) /\ Cardinality(E) = Cardinality(K)
            BY <3>8, <3>9, <3>11, <3>12, FS_Bijection
        <3>14. Cardinality(ZipCopies(h)') = Cardinality(ZipCopies(h)) - Cardinality(F)
            <4>1. Cardinality(ZipCopies(h) \ A) =
                      Cardinality(ZipCopies(h)) - Cardinality(ZipCopies(h) \cap A)
                BY <3>2, FS_Difference
            <4> QED BY <3>5, <3>13, <4>1
        <3>15. Cardinality(ReducedCopies(h)') = Cardinality(ReducedCopies(h)) + Cardinality(K)
            <4>1. Cardinality(ReducedCopies(h) \cup E) = Cardinality(ReducedCopies(h)) + Cardinality(E)
                                                         - Cardinality(ReducedCopies(h) \cap E)
                BY <3>2, <3>12, FS_Union
            <4>2. Cardinality(ReducedCopies(h) \cap E) = 0
                BY <3>7, FS_EmptySet
            <4> QED BY <3>2, <3>4, <3>7, <3>13, <4>1, <4>2
        <3>16. Cardinality(F) <= Cardinality(ZipCopies(h))
            BY <3>2, <3>5, <3>13, FS_Subset
        <3>17. c >= Cardinality(F)
            BY <3>1, <3>2, <3>4, <3>16
        <3>18. hashProvidedCnt[h] > 0 => hashProvidedCnt'[h] > 0
            BY <3>4, <3>10, <3>17
        <3> QED BY <3>1, <3>2, <3>4, <3>6, <3>10, <3>14, <3>15, <3>18
    <2>6. \A h \in had : h \in Hashes /\ hashProvidedCnt[h] > 0
        BY <1>1, <1>12 DEF CopyInv, CopyLeft, Repacking, Inv, Types
    <2>7. CopyLeft'
        BY <1>1, <2>5, <2>6 DEF CopyLeft, Repacking
    <2> QED BY <1>9, <1>10, <2>7 DEF CopyInv
<1> QED BY <1>11, <1>12

\* What a list says of a zip can be had from it.
LEMMA InAvailable ==
    ASSUME NEW p \in Places, NEW content \in {zip[p], zipRepacked[p], zipReduced[p]},
           NEW files, Lists(files, content), NEW f \in files
    PROVE  f.hash \in Available
<1>1. content \in Seq(File) /\ content # Torn /\ f.pos \in DOMAIN content /\ content[f.pos].hash = f.hash
    BY TornFacts DEF Lists
<1>2. content[f.pos] \in Range(content)
    BY <1>1 DEF Range
<1>3. \E g \in Range(content) : g.hash = f.hash
    BY <1>1, <1>2
<1>4. CASE content = zip[p]
    BY <1>1, <1>3, <1>4 DEF Available
<1>5. CASE content = zipRepacked[p]
    BY <1>1, <1>3, <1>5 DEF Available
<1>6. CASE content = zipReduced[p]
    BY <1>1, <1>3, <1>6 DEF Available
<1> QED BY <1>4, <1>5, <1>6

LEMMA StillAvailable ==
    ASSUME Inv, CopyInv, pc \in Repacking, made = "current"
    PROVE  had \subseteq Available
<1> SUFFICES ASSUME NEW h \in had PROVE h \in Available
    OBVIOUS
<1>1. h \in Hashes /\ hashProvidedCnt[h] > 0
    BY DEF CopyInv, CopyLeft, Inv, Types
<1>2. hashProvidedCnt[h] =
          Cardinality(ZipCopies(h)) + Cardinality(PackedCopies(h)) + Cardinality(ReducedCopies(h))
    BY <1>1 DEF CopyInv, CopyLeft
<1>3. ~(ZipCopies(h) = {} /\ PackedCopies(h) = {} /\ ReducedCopies(h) = {})
    BY <1>1, <1>2, FS_EmptySet
<1>4. CASE ZipCopies(h) # {}
    <2>1. PICK f \in LocalFiles : f.hash = h
        BY <1>4 DEF ZipCopies
    <2>2. f.place \in Places /\ f \in ProvidedIn(f.place)
        BY <2>1 DEF Inv, Types, LocalFiles, ProvidedIn, FileInfo
    <2>3. Lists(ProvidedIn(f.place), zip[f.place])
        BY <2>2 DEF Inv, Listed
    <2> QED BY <2>1, <2>2, <2>3, InAvailable
<1>5. CASE PackedCopies(h) # {}
    <2>1. PICK w \in packed : match[w].hash = h
        BY <1>5 DEF PackedCopies
    <2>2. w \in Wanted /\ w[1] \in isRepacked /\ w[1] \in Zips /\ w[1] \in Places /\ w \in WantedIn(w[1])
        BY <2>1, PlacesFacts DEF Inv, Types, Counted, WantedIn
    <2> DEFINE content == IF pc = "renames" THEN NowIn(w[1]) ELSE zipRepacked[w[1]]
    <2>3. Lists({match[v] : v \in WantedIn(w[1])}, content)
        BY <2>2 DEF Inv, Listed
    <2>4. content \in {zip[w[1]], zipRepacked[w[1]], zipReduced[w[1]]}
        BY DEF NowIn
    <2>5. match[w] \in {match[v] : v \in WantedIn(w[1])}
        BY <2>2
    <2> HIDE DEF content
    <2> QED BY <2>1, <2>2, <2>3, <2>4, <2>5, InAvailable
<1>6. CASE ReducedCopies(h) # {}
    <2>1. PICK f \in reducedMani : f.hash = h
        BY <1>6 DEF ReducedCopies
    <2>2. f.place \in Places
        BY <2>1 DEF Inv, Types, FileInfo
    <2>3. Lists({g \in reducedMani : g.place = f.place}, zipReduced[f.place])
        BY <2>2 DEF Inv, Listed
    <2>4. f \in {g \in reducedMani : g.place = f.place}
        BY <2>1
    <2> QED BY <2>1, <2>2, <2>3, <2>4, InAvailable
<1> QED BY <1>3, <1>4, <1>5, <1>6

EntryOf(zips, p, i) == [place |-> p, pos |-> i, name |-> zips[p][i].name, hash |-> zips[p][i].hash,
                        location |-> "Local"]

Covers(files, zips, p) ==
    \A i \in DOMAIN zips[p] : \E f \in files : [f EXCEPT !.location = "Local"] = EntryOf(zips, p, i)

LEMMA EntriesOf ==
    ASSUME NEW zips
    PROVE  FilesOf(zips, Places, "Local") = UNION {{EntryOf(zips, p, i) : i \in DOMAIN zips[p]} : p \in Places}
BY DEF FilesOf, EntryOf

\* A list of a zip is its manifest.
LEMMA ManifestOf ==
    ASSUME NEW files \in SUBSET FileInfo, NEW zips, NEW p \in Places, Lists(files, zips[p]),
           \A f \in files : f.place = p
    PROVE  /\ \A f \in files : [f EXCEPT !.location = "Local"] \in FilesOf(zips, Places, "Local")
           /\ Covers(files, zips, p)
<1>1. \A f \in files : [f EXCEPT !.location = "Local"] = EntryOf(zips, p, f.pos) /\ f.pos \in DOMAIN zips[p]
    BY DEF FileInfo, Lists, EntryOf
<1>2. \A i \in DOMAIN zips[p] : \E f \in files : f.pos = i
    BY DEF Lists
<1>3. \A i \in DOMAIN zips[p] : EntryOf(zips, p, i) \in FilesOf(zips, Places, "Local")
    BY EntriesOf
<1>4. \A f \in files : [f EXCEPT !.location = "Local"] \in FilesOf(zips, Places, "Local")
    BY <1>1, <1>3
<1>5. \A i \in DOMAIN zips[p] : \E f \in files : [f EXCEPT !.location = "Local"] = EntryOf(zips, p, i)
    BY <1>1, <1>2
<1> QED BY <1>4, <1>5 DEF Covers

\* At the end the lists, put together, are the manifest of what there is.
LEMMA RewriteCopies == ASSUME Inv, CopyInv, RewriteProvidedManifest PROVE CopyInv'
<1>1. /\ pc = "renames" /\ ToRename = {} /\ pc' = "finalize" /\ reducedMani' = {}
      /\ provided' = {match[w] : w \in packed} \cup reducedMani \cup provided
      /\ match' = <<>>
      /\ UNCHANGED <<zip, zipRepacked, zipReduced, localManifest, made, had>>
    BY DEF RewriteProvidedManifest, disk, history
<1>2. Planned /\ match \in [Wanted -> FileInfo] /\ packed = Wanted /\ managed \subseteq isReduced
    BY <1>1 DEF Inv, Types, Counted
<1>3. Finite'
    <2>1. IsFiniteSet({match[w] : w \in packed})
        BY <1>2, MatchedFinite DEF Inv
    <2> DEFINE moved == {match[w] : w \in packed}
    <2> HIDE DEF moved
    <2>2. IsFiniteSet(moved \cup reducedMani)
        BY <2>1, FS_Union DEF moved, CopyInv, Finite
    <2>3. IsFiniteSet(moved \cup reducedMani \cup provided)
        BY <2>2, FS_Union DEF CopyInv, Finite
    <2> QED BY <1>1, <2>3, FS_EmptySet DEF moved, CopyInv, Finite
<1>4. CASE made # "current"
    BY <1>1, <1>3, <1>4, StaleCopies
<1>5. CASE made = "current"
    <2>1. \A z \in Zips : zipRepacked[z] = <<>>
        <3> SUFFICES ASSUME NEW z \in Zips, zipRepacked[z] # <<>> PROVE FALSE
            OBVIOUS
        <3>1. z \in isRepacked
            BY <1>1 DEF Inv, Tidy, Repacking
        <3>2. z \in managed
            <4>1. target \in [Zips -> Seq(File)] /\ z \in Zips /\ WantedIn(z) # {}
                BY <1>1, <3>1 DEF Inv, Types, Counted, Repacking
            <4>2. target[z] # <<>>
                BY <4>1, WantedFacts
            <4>3. \A y \in Zips : target[y] # <<>> => y \in managed
                BY <1>2 DEF Inv, PlanFits
            <4> QED BY <4>1, <4>2, <4>3
        <3> QED BY <1>1, <1>2, <3>1, <3>2 DEF ToRename
    <2> DEFINE repacked(z) == {match[w] : w \in WantedIn(z)}
               reducedIn(p) == {f \in reducedMani : f.place = p}
               now(f) == [f EXCEPT !.location = "Local"]
               all == FilesOf(zip, Places, "Local") \cup FilesOf(zipReduced, Places, "Local")
    <2>2. /\ \A z \in isRepacked : Lists(repacked(z), zip[z])
          /\ \A p \in Places : IF p \in isReduced THEN ProvidedIn(p) = {} ELSE Lists(ProvidedIn(p), zip[p])
          /\ \A p \in Places : Lists(reducedIn(p), zipReduced[p])
        <3>1. \A z \in isRepacked : NowIn(z) = zip[z]
            BY <2>1 DEF NowIn, Inv, Types
        <3> QED BY <1>1, <1>5, <3>1 DEF Inv, Listed, Repacking
    <2>3. \A w \in Wanted : /\ match[w].location \in {"Repacked", "Inplace"} /\ match[w].place = w[1]
                            /\ w[1] \in isRepacked /\ w \in WantedIn(w[1])
        <3>1. \A w \in Wanted : w[1] \in isRepacked /\ isRepacked \subseteq Zips
            BY <1>1, <1>2 DEF Inv, Types, Counted, Repacking
        <3> QED BY <1>1, <1>2, <1>5, <2>1, <3>1 DEF CopyInv, Placed, Repacking, WantedIn
    <2>4. /\ \A z \in isRepacked : repacked(z) \in SUBSET FileInfo /\ z \in Places /\ z \in Zips
                                   /\ \A f \in repacked(z) : f.place = z
          /\ \A p : ProvidedIn(p) \in SUBSET FileInfo /\ \A f \in ProvidedIn(p) : f.place = p
          /\ \A p : reducedIn(p) \in SUBSET FileInfo /\ \A f \in reducedIn(p) : f.place = p
        <3>1. \A z \in isRepacked : z \in Places /\ z \in Zips
            BY PlacesFacts DEF Inv, Types
        <3>2. \A z : \A w \in WantedIn(z) : w \in Wanted /\ w[1] = z
            BY DEF WantedIn
        <3>3. \A z \in isRepacked : repacked(z) \in SUBSET FileInfo /\ \A f \in repacked(z) : f.place = z
            BY <1>2, <2>3, <3>2
        <3>4. reducedMani \in SUBSET FileInfo /\ LocalFiles \in SUBSET FileInfo
            BY DEF Inv, Types, LocalFiles
        <3>5. \A p : ProvidedIn(p) \in SUBSET FileInfo /\ \A f \in ProvidedIn(p) : f.place = p
            BY <3>4 DEF ProvidedIn
        <3>6. \A p : reducedIn(p) \in SUBSET FileInfo /\ \A f \in reducedIn(p) : f.place = p
            BY <3>4
        <3> QED BY <3>1, <3>3, <3>5, <3>6
    <2>5. LocalFiles' = {match[w] : w \in Wanted} \cup reducedMani \cup LocalFiles
        <3>1. \A w \in Wanted : match[w].location # "Remote"
            BY <2>3
        <3>2. \A f \in reducedMani : f.location # "Remote"
            BY DEF Inv, Types
        <3> QED BY <1>1, <1>2, <3>1, <3>2 DEF LocalFiles
    <2>6. \A z \in isRepacked : \A f \in repacked(z) : now(f) \in all
        <3> SUFFICES ASSUME NEW z \in isRepacked, NEW f \in repacked(z) PROVE now(f) \in all
            OBVIOUS
        <3> HIDE DEF repacked
        <3> QED BY <2>2, <2>4, ManifestOf
    <2>7. \A p \in Places : \A f \in ProvidedIn(p) : now(f) \in all
        <3> SUFFICES ASSUME NEW p \in Places, NEW f \in ProvidedIn(p) PROVE now(f) \in all
            OBVIOUS
        <3>1. Lists(ProvidedIn(p), zip[p])
            BY <2>2
        <3> QED BY <2>4, <3>1, ManifestOf
    <2>8. \A p \in Places : \A f \in reducedIn(p) : now(f) \in all
        <3> SUFFICES ASSUME NEW p \in Places, NEW f \in reducedIn(p) PROVE now(f) \in all
            OBVIOUS
        <3> HIDE DEF reducedIn
        <3> QED BY <2>2, <2>4, ManifestOf
    <2>9. \A f \in LocalFiles' : now(f) \in all
        <3> SUFFICES ASSUME NEW f \in LocalFiles' PROVE now(f) \in all
            OBVIOUS
        <3> HIDE DEF now, all
        <3>1. CASE \E w \in Wanted : f = match[w]
            BY <2>3, <2>6, <3>1
        <3>2. CASE f \in reducedMani
            <4>1. f.place \in Places
                BY <3>2 DEF Inv, Types, FileInfo
            <4> QED BY <2>8, <3>2, <4>1
        <3>3. CASE f \in LocalFiles
            <4>1. f.place \in Places /\ f \in ProvidedIn(f.place)
                BY <3>3 DEF Inv, Types, FileInfo, LocalFiles, ProvidedIn
            <4> QED BY <2>7, <4>1
        <3> QED BY <2>5, <3>1, <3>2, <3>3
    <2>10. ASSUME NEW p \in Places, NEW i \in DOMAIN zip[p]
           PROVE  \E f \in LocalFiles' : now(f) = EntryOf(zip, p, i)
        <3>1. CASE p \notin isReduced
            <4>1. Lists(ProvidedIn(p), zip[p])
                BY <2>2, <3>1
            <4>2. \E f \in ProvidedIn(p) : now(f) = EntryOf(zip, p, i)
                <5>1. Covers(ProvidedIn(p), zip, p)
                    BY <2>4, <4>1, ManifestOf
                <5> QED BY <2>10, <5>1 DEF Covers
            <4> QED BY <2>5, <4>2 DEF ProvidedIn
        <3>2. CASE p \in isReduced
            <4>1. p \in isRepacked
                BY <1>1, <2>10, <3>2 DEF Inv, Tidy
            <4>2. \E f \in repacked(p) : now(f) = EntryOf(zip, p, i)
                <5> HIDE DEF repacked
                <5>1. Covers(repacked(p), zip, p)
                    BY <2>2, <2>4, <4>1, ManifestOf
                <5> QED BY <2>10, <5>1 DEF Covers
            <4>3. repacked(p) \subseteq LocalFiles'
                BY <2>5 DEF WantedIn
            <4> QED BY <4>2, <4>3
        <3> QED BY <3>1, <3>2
    <2>11. ASSUME NEW p \in Places, NEW i \in DOMAIN zipReduced[p]
           PROVE  \E f \in LocalFiles' : now(f) = EntryOf(zipReduced, p, i)
        <3>1. \E f \in reducedIn(p) : now(f) = EntryOf(zipReduced, p, i)
            <4> HIDE DEF reducedIn
            <4>1. Covers(reducedIn(p), zipReduced, p)
                BY <2>2, <2>4, ManifestOf
            <4> QED BY <2>11, <4>1 DEF Covers
        <3> QED BY <2>5, <3>1
    <2> DEFINE manifest == {now(f) : f \in LocalFiles'}
    <2>12. manifest \subseteq all
        <3> HIDE DEF now, all
        <3> QED BY <2>9
    <2>13. FilesOf(zip, Places, "Local") \subseteq manifest
        <3> SUFFICES ASSUME NEW p \in Places, NEW i \in DOMAIN zip[p]
                     PROVE  EntryOf(zip, p, i) \in manifest
            <4> HIDE DEF manifest
            <4> QED BY EntriesOf
        <3> HIDE DEF now
        <3> QED BY <2>10
    <2>14. FilesOf(zipReduced, Places, "Local") \subseteq manifest
        <3> SUFFICES ASSUME NEW p \in Places, NEW i \in DOMAIN zipReduced[p]
                     PROVE  EntryOf(zipReduced, p, i) \in manifest
            <4> HIDE DEF manifest
            <4> QED BY EntriesOf
        <3> HIDE DEF now
        <3> QED BY <2>11
    <2>15. manifest = all
        <3> HIDE DEF manifest
        <3> QED BY <2>12, <2>13, <2>14
    <2>16. Placed'
        <3>1. FilesOf(zip, Places, "Local")' = FilesOf(zip, Places, "Local")
              /\ FilesOf(zipReduced, Places, "Local")' = FilesOf(zipReduced, Places, "Local")
            BY <1>1 DEF FilesOf
        <3> QED BY <1>1, <2>15, <3>1 DEF Placed, Repacking
    <2>17. CopyLeft'
        <3>1. had \subseteq Available
            BY <1>1, <1>5, StillAvailable DEF Repacking
        <3>2. Available' = Available /\ ~Planned'
            BY <1>1 DEF Available, Planned
        <3> QED BY <1>1, <3>1, <3>2 DEF CopyLeft, Repacking
    <2> QED BY <1>3, <2>16, <2>17 DEF CopyInv
<1> QED BY <1>4, <1>5

LEMMA CopyStep == Inv /\ CopyInv /\ [Next]_vars => CopyInv'
<1> SUFFICES ASSUME Inv, CopyInv, [Next]_vars PROVE CopyInv'
    OBVIOUS
<1>1. CASE \/ SettingsNext \/ Back \/ Start \/ Cleaned \/ Done \/ Finalize \/ Scan \/ UNCHANGED vars
           \/ \E u \in Urls : Fetch(u) \/ CleanDownload(u)
           \/ \E z \in Zips : CleanRepacked(z)
           \/ \E p \in Places : CleanReduced(p)
           \/ Throw \/ Error \/ Crash
    BY <1>1, QuietStep
<1>2. CASE \/ ProcessedWithoutRepacking \/ RemoveOld \/ Reduced \/ Repacked
           \/ \E z \in Zips : OpenRepacked(z) \/ Rename(z)
    BY <1>2, SameStep
<1>3. CASE \E version \in Targets : Refresh(version)
    BY <1>3, RefreshCopies
<1>4. CASE \E u \in Urls : Verify(u)
    BY <1>4, VerifyCopies
<1>5. CASE Begin
    BY <1>5, BeginCopies
<1>6. CASE \E dst \in Zips, src \in Places : RenameUnpacked(dst, src)
    BY <1>6, RenameUnpackedCopies
<1>7. CASE \E p \in Places : WriteReduced(p)
    BY <1>7, WriteReducedCopies
<1>8. CASE Repack
    BY <1>8, RepackCopies
<1>9. CASE RewriteProvidedManifest
    BY <1>9, RewriteCopies
<1> QED BY <1>1, <1>2, <1>3, <1>4, <1>5, <1>6, <1>7, <1>8, <1>9 DEF Next

\* The copies of each file, hashProvidedCnt, are counted right, and never down to none.
THEOREM CopiesInvariance == Spec => []CopyInv
<1>1. Init => CopyInv
    BY InitCopies
<1>2. Inv /\ CopyInv /\ [Next]_vars => CopyInv'
    BY CopyStep
<1> QED BY <1>1, <1>2, Invariance, PTL DEF Spec

\* A file that was there before an update made for what is on disk can be found in some
\* zip at every step of it, down to the last copy.
THEOREM UpdateLosesNothing == Spec => []NothingLost
<1>1. ASSUME Inv, CopyInv PROVE NothingLost
    <2> SUFFICES ASSUME made = "current", pc \in Working PROVE had \subseteq Available
        BY DEF NothingLost
    <2>1. CASE pc \in Repacking
        BY <1>1, <2>1, StillAvailable
    <2>2. CASE pc = "finalize"
        BY <1>1, <2>2 DEF CopyInv, CopyLeft
    <2>3. CASE pc \in {"download", "verify", "begin"}
        <3>1. Planned /\ Usable
            BY <1>1, <2>3 DEF Inv, Types, Early, Usable
        <3> SUFFICES ASSUME NEW h \in had PROVE h \in Available
            OBVIOUS
        <3>2. PICK f \in LocalFiles : f.hash = h
            BY <1>1, <2>3, <3>1 DEF CopyInv, CopyLeft, Repacking
        <3>3. f.place \in Places /\ f \in ProvidedIn(f.place)
            BY <1>1, <3>2 DEF Inv, Types, LocalFiles, ProvidedIn, FileInfo
        <3>4. Lists(ProvidedIn(f.place), zip[f.place])
            BY <1>1, <3>1, <3>3 DEF Inv, TrueMirror
        <3> QED BY <3>2, <3>3, <3>4, InAvailable
    <2> QED BY <2>1, <2>2, <2>3 DEF Working, Repacking
<1> QED BY <1>1, Invariance, CopiesInvariance, PTL

\* An update that comes to its end has installed just the target, and knows it.
THEOREM UpdateIsRight == Spec => []OutputIsRight
<1>1. ASSUME Inv, CopyInv PROVE OutputIsRight
    <2> SUFFICES ASSUME pc = "finalize"
                 PROVE  /\ made # "outdated" => Installed
                        /\ made = "current" =>
                               {[f EXCEPT !.location = "Local"] : f \in LocalFiles} =
                                   FilesOf(zip, Places, "Local") \cup FilesOf(zipReduced, Places, "Local")
        BY DEF OutputIsRight
    <2>1. made # "outdated" => complete
        BY <1>1 DEF Inv, Finished
    <2>2. made # "outdated" => \A z \in Zips : SameIf(exact, zip[z], target[z])
        BY <1>1, <2>1 DEF Inv, Finished
    <2>3. made # "outdated" => Installed
        BY <2>2, SameFacts DEF Installed
    <2> QED BY <1>1, <2>3 DEF CopyInv, Placed
<1> QED BY <1>1, Invariance, CopiesInvariance, PTL

=============================================================================
