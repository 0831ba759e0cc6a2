--------------------------- MODULE SelfUpdateProofs ---------------------------
(***************************************************************************)
(* Proofs about updates of the binary, for any number of updaters, builds, *)
(* publications, faults and rollbacks.                                     *)
(***************************************************************************)
EXTENDS SelfUpdate, TLAPS

Released == Builds \cup {Old}

(* No damaged download is ever in place or in .bak. *)
OnlyBuilds == {path, bak} \subseteq Builds \cup {Old, Missing}

(* What an updater is about to install has passed the comparison of sums.  *)
Checked ==
    \A u \in Updaters : at[u] \in {"write", "backup", "install"} => data[u] \in Released

UInv == TypeOK /\ OnlyBuilds /\ ACopySurvives /\ Checked

(* What TypeOK and Checked ask of one updater at a place, with the sum and  *)
(* the data it has there.                                                  *)
Fits(place, sum, content) ==
    /\ place \in {"write", "backup", "install"} => content = sum /\ content \in Released
    /\ sum # Damaged
    /\ place \in {"binary", "verify"} => sum # Missing

-----------------------------------------------------------------------------
(* The invariant holds at the start.                                       *)
LEMMA InitUInv == Init => UInv
  <1> SUFFICES ASSUME Init PROVE UInv OBVIOUS
  <1>1. TypeOK
    BY ContentsAssumption, BoundsAssumption DEF Init, TypeOK, Contents, Places
  <1>2. OnlyBuilds /\ ACopySurvives /\ Checked
    BY ContentsAssumption DEF Init, OnlyBuilds, ACopySurvives, Checked
  <1>3. QED BY <1>1, <1>2 DEF UInv

(* Every updater fits its place.                                           *)
LEMMA AllFit ==
    ASSUME UInv, NEW u \in Updaters
    PROVE  Fits(at[u], want[u], data[u])
  BY DEF UInv, TypeOK, Checked, Fits

(* A step that brings one updater to a place where it fits, and leaves     *)
(* released builds in the files, keeps the invariant.                      *)
LEMMA StepUInv ==
    ASSUME UInv, NEW u \in Updaters, NEW place \in Places, Go(u, place),
           NEW sum \in Contents, want' = [want EXCEPT ![u] = sum],
           NEW content \in Contents, data' = [data EXCEPT ![u] = content],
           Fits(place, sum, content),
           path' \in Released \cup {Missing}, bak' \in Released \cup {Missing},
           path' # Missing \/ bak' # Missing,
           faults' \in 0 .. MaxFaults,
           own' \in [Updaters -> Contents \ {Missing}], unsaved' \subseteq Updaters,
           UNCHANGED others
    PROVE  UInv'
  <1>1. /\ at' = [at EXCEPT ![u] = place] /\ at' \in [Updaters -> Places]
        /\ want' \in [Updaters -> Contents] /\ data' \in [Updaters -> Contents]
    BY DEF Go, UInv, TypeOK
  <1>2. \A v \in Updaters : Fits(at'[v], want'[v], data'[v])
    <2> SUFFICES ASSUME NEW v \in Updaters PROVE Fits(at'[v], want'[v], data'[v])
      OBVIOUS
    <2>1. CASE v = u
      <3>1. at'[v] = place /\ want'[v] = sum /\ data'[v] = content
        BY <1>1, <2>1 DEF UInv, TypeOK
      <3>2. QED BY <3>1
    <2>2. CASE v # u
      <3>1. at'[v] = at[v] /\ want'[v] = want[v] /\ data'[v] = data[v]
        BY <1>1, <2>2 DEF UInv, TypeOK
      <3>2. QED BY <3>1, AllFit
    <2>3. QED BY <2>1, <2>2
  <1>3. path' \in Contents /\ bak' \in Contents BY DEF Released, Contents
  <1>4. TypeOK' BY <1>1, <1>2, <1>3 DEF UInv, TypeOK, Fits, others
  <1>5. OnlyBuilds' /\ ACopySurvives'
    BY DEF OnlyBuilds, ACopySurvives, Released
  <1>6. Checked' BY <1>2 DEF Checked, Fits
  <1>7. QED BY <1>4, <1>5, <1>6 DEF UInv

(* The renames lose nothing: each leaves a released build somewhere.       *)
LEMMA Renames ==
    ASSUME UInv, RenameToBak \/ RenameToPath \/ UNCHANGED files
    PROVE  /\ path' \in Released \cup {Missing} /\ bak' \in Released \cup {Missing}
           /\ path' # Missing \/ bak' # Missing
  BY DEF UInv, OnlyBuilds, ACopySurvives, RenameToBak, RenameToPath, Released, files

-----------------------------------------------------------------------------
(* The steps. *)

(* A step of an updater.                                                   *)
LEMMA UpdateUInv ==
    ASSUME UInv, NEW u \in Updaters, Update(u)
    PROVE  UInv'
  <1>1. /\ at \in [Updaters -> Places] /\ own \in [Updaters -> Contents \ {Missing}]
        /\ want \in [Updaters -> Contents] /\ data \in [Updaters -> Contents]
        /\ want[u] \in Contents /\ data[u] \in Contents
        /\ faults \in 0 .. MaxFaults /\ latest \in Released /\ path \in Contents
        /\ Fits(at[u], want[u], data[u]) /\ unsaved \subseteq Updaters
    BY AllFit DEF UInv, TypeOK, Released
  <1>2. Released \subseteq Contents /\ Damaged \in Contents /\ Damaged \notin Released
        /\ Missing \notin Released
    BY ContentsAssumption DEF Released, Contents
  <1>3. /\ Fault => faults' \in 0 .. MaxFaults
        /\ UNCHANGED faults => faults' \in 0 .. MaxFaults
    BY <1>1, BoundsAssumption DEF Fault
  <1>4. UNCHANGED want => want' = [want EXCEPT ![u] = want[u]] BY <1>1
  <1>5. UNCHANGED data => data' = [data EXCEPT ![u] = data[u]] BY <1>1
  <1>6. CASE Start(u)
    <2>1. own' \in [Updaters -> Contents \ {Missing}] BY <1>1, <1>6 DEF Start
    <2>2. Fits("fetch", want[u], data[u]) BY <1>1 DEF Fits
    <2>3. QED
      BY <1>1, <1>3, <1>4, <1>5, <1>6, <2>1, <2>2, Renames, StepUInv DEF Start, Places
  <1>7. CASE GiveUp(u) \/ FetchLatest(u) \/ Again(u) \/ Kill(u) \/ InstallFails(u)
    <2>1. PICK place \in {"failed", "current", "sums", "out", "killed", "restore"} :
             Go(u, place)
      BY <1>7 DEF GiveUp, FetchLatest, Again, Kill, InstallFails
    <2>2. faults' \in 0 .. MaxFaults /\ UNCHANGED <<files, others, own, unsaved, want, data>>
      BY <1>3, <1>7 DEF GiveUp, FetchLatest, Again, Kill, InstallFails
    <2>3. place \in Places /\ Fits(place, want[u], data[u])
      BY <1>1, <2>1 DEF Places, Fits
    <2>4. QED BY <1>1, <1>4, <1>5, <2>1, <2>2, <2>3, Renames, StepUInv
  <1>8. CASE DownloadSums(u)
    <2>1. Fits("binary", latest, data[u]) BY <1>1, <1>2 DEF Fits
    <2>2. QED
      BY <1>1, <1>2, <1>3, <1>5, <1>8, <2>1, Renames, StepUInv DEF DownloadSums, Places
  <1>9. CASE DownloadBinary(u)
    <2>1. PICK content \in {latest, Damaged} : data' = [data EXCEPT ![u] = content]
      BY <1>9 DEF DownloadBinary
    <2>2. content \in Contents /\ faults' \in 0 .. MaxFaults
      BY <1>1, <1>2, <1>3, <1>9, <2>1 DEF DownloadBinary
    <2>3. Fits("verify", want[u], content)
      BY <1>1, <1>9 DEF DownloadBinary, Fits
    <2>4. QED
      BY <1>1, <1>4, <1>9, <2>1, <2>2, <2>3, Renames, StepUInv DEF DownloadBinary, Places
  <1>10. CASE Verify(u)
    <2>1. PICK place \in {"write", "failed"} :
             Go(u, place) /\ (place = "write" => data[u] = want[u])
      BY <1>10 DEF Verify
    <2>2. data[u] = want[u] => data[u] \in Released
      BY <1>1, <1>10 DEF Verify, Fits, Contents, Released
    <2>3. place \in Places /\ Fits(place, want[u], data[u])
      BY <1>1, <2>1, <2>2 DEF Places, Fits
    <2>4. QED
      BY <1>1, <1>3, <1>4, <1>5, <1>10, <2>1, <2>3, Renames, StepUInv DEF Verify
  <1>11. CASE WriteTemp(u)
    <2>1. Fits("backup", want[u], data[u]) BY <1>1, <1>11 DEF WriteTemp, Fits
    <2>2. QED
      BY <1>1, <1>3, <1>4, <1>5, <1>11, <2>1, Renames, StepUInv DEF WriteTemp, Places
  <1>12. CASE Backup(u)
    <2>1. Fits("install", want[u], data[u]) BY <1>1, <1>12 DEF Backup, Fits
    <2>2. RenameToBak \/ UNCHANGED files BY <1>12 DEF Backup
    <2>3. faults' \in 0 .. MaxFaults BY <1>3, <1>12 DEF Backup
    <2>4. QED
      BY <1>1, <1>4, <1>5, <1>12, <2>1, <2>2, <2>3, Renames, StepUInv DEF Backup, Places
  <1>13. CASE Install(u)
    <2>1. data[u] \in Released BY <1>1, <1>13 DEF Install, Fits
    <2>2. path' \in Released /\ bak' \in Released \cup {Missing}
      BY <1>13, <2>1 DEF Install, UInv, OnlyBuilds, Released
    <2>3. Fits("done", want[u], data[u]) BY <1>1 DEF Fits
    <2>4. QED
      BY <1>1, <1>2, <1>3, <1>4, <1>5, <1>13, <2>2, <2>3, StepUInv DEF Install, Places
  <1>14. CASE Restore(u)
    <2>1. Fits("failed", want[u], data[u]) BY <1>1 DEF Fits
    <2>2. RenameToPath \/ UNCHANGED files BY <1>14 DEF Restore
    <2>3. faults' \in 0 .. MaxFaults BY <1>3, <1>14 DEF Restore
    <2>4. QED
      BY <1>1, <1>4, <1>5, <1>14, <2>1, <2>2, <2>3, Renames, StepUInv DEF Restore, Places
  <1>15. QED
    BY <1>6, <1>7, <1>8, <1>9, <1>10, <1>11, <1>12, <1>13, <1>14 DEF Update

(* A publication, a rollback, or nothing.                                  *)
LEMMA AroundUInv ==
    ASSUME UInv, Publish \/ Rollback \/ UNCHANGED vars
    PROVE  UInv'
  <1>1. UNCHANGED <<at, own, unsaved, want, data, faults>>
    BY DEF Publish, Rollback, vars
  <1>2. /\ path' \in Released \cup {Missing} /\ bak' \in Released \cup {Missing}
        /\ path' # Missing \/ bak' # Missing
    <2>1. RenameToPath \/ UNCHANGED files BY DEF Publish, Rollback, vars, files
    <2>2. QED BY <2>1, Renames
  <1>3. /\ latest' \in Builds \cup {Old}
        /\ published' \in 0 .. MaxPublished /\ rollbacks' \in 0 .. MaxRollbacks
    BY BoundsAssumption DEF Publish, Rollback, vars, UInv, TypeOK
  <1>4. path' \in Contents /\ bak' \in Contents BY <1>2 DEF Released, Contents
  <1>5. TypeOK' BY <1>1, <1>3, <1>4 DEF UInv, TypeOK
  <1>6. OnlyBuilds' /\ ACopySurvives'
    BY <1>2 DEF OnlyBuilds, ACopySurvives, Released
  <1>7. Checked' BY <1>1 DEF UInv, Checked
  <1>8. QED BY <1>5, <1>6, <1>7 DEF UInv

-----------------------------------------------------------------------------
(* An update by itself. *)

(* An updater beyond the download has something; it never loses it.        *)
Fetched ==
    \A u \in Updaters :
        at[u] \in {"verify", "write", "backup", "install", "restore", "done"} => data[u] # Missing

(* Nobody but u has ever downloaded a binary, and nobody rolled back: what  *)
(* Alone says, without asking the others to be out.  It stays false once    *)
(* it is.                                                                   *)
Quiet(u) == rollbacks = 0 /\ \A v \in Updaters \ {u} : data[v] = Missing

(* The places before the first rename and those that report an error.       *)
Unswapped == {"fetch", "sums", "binary", "verify", "write", "backup", "failed", "current"}

(* Where the old binary and the new one are at each place of u.             *)
Swapping(u) ==
    /\ at[u] \in Unswapped => path = own[u]
    /\ at[u] = "install" => \/ path = Missing /\ bak = own[u]
                            \/ path = own[u] /\ faults = 1 /\ u \in unsaved
    /\ at[u] = "restore" => path = Missing /\ bak = own[u] /\ faults = 1
    /\ at[u] = "done" => path = want[u] /\ (u \in unsaved \/ bak = own[u])

SInv == UInv /\ Fetched /\ \A u \in Updaters : Quiet(u) /\ faults <= 1 => Swapping(u)

LEMMA InitSInv == Init => SInv
  BY InitUInv DEF SInv, Init, Fetched, Swapping, Unswapped

(* What was downloaded is a content, and only a download changes it.        *)
LEMMA DataMoves ==
    ASSUME UInv, NEW u \in Updaters, Update(u)
    PROVE  /\ \A v \in Updaters \ {u} : data'[v] = data[v] /\ at'[v] = at[v] /\ own'[v] = own[v] /\ want'[v] = want[v]
           /\ data[u] # Missing => data'[u] # Missing
           /\ at'[u] \in {"verify", "write", "backup", "install", "restore", "done"} =>
                  \/ data'[u] # Missing
                  \/ at[u] \in {"verify", "write", "backup", "install"} /\ data'[u] = data[u]
           /\ rollbacks' = rollbacks /\ faults' \in {faults, faults + 1}
           /\ \A v \in Updaters \ {u} : v \in unsaved' <=> v \in unsaved
  <1>1. /\ at \in [Updaters -> Places] /\ own \in [Updaters -> Contents \ {Missing}]
        /\ want \in [Updaters -> Contents] /\ data \in [Updaters -> Contents]
        /\ latest # Missing /\ Damaged # Missing
    BY ContentsAssumption DEF UInv, TypeOK
  <1>2. CASE Start(u) \/ GiveUp(u) \/ FetchLatest(u) \/ DownloadSums(u)
    BY <1>1, <1>2 DEF Start, GiveUp, FetchLatest, DownloadSums, Go, others
  <1>3. CASE DownloadBinary(u)
    BY <1>1, <1>3 DEF DownloadBinary, Go, others, Fault
  <1>4. CASE Verify(u) \/ WriteTemp(u) \/ Backup(u) \/ Install(u)
    BY <1>1, <1>4 DEF Verify, WriteTemp, Backup, Install, Go, others, Fault
  <1>5. CASE InstallFails(u) \/ Restore(u) \/ Kill(u) \/ Again(u)
    BY <1>1, <1>5 DEF InstallFails, Restore, Kill, Again, Go, others, Fault
  <1>6. QED BY <1>2, <1>3, <1>4, <1>5 DEF Update

LEMMA FetchedStays ==
    ASSUME UInv, Fetched, NEW u \in Updaters, Update(u)
    PROVE  Fetched'
  BY DataMoves DEF Fetched

(* A step of u itself.                                                      *)
LEMMA OwnSwapping ==
    ASSUME UInv, NEW u \in Updaters, Update(u), faults' <= 1, Swapping(u)
    PROVE  Swapping(u)'
  <1>1. /\ at \in [Updaters -> Places] /\ own \in [Updaters -> Contents \ {Missing}]
        /\ want \in [Updaters -> Contents] /\ own[u] # Missing
        /\ faults \in Nat
        /\ at[u] = "install" => data[u] = want[u]
    BY BoundsAssumption DEF UInv, TypeOK
  <1>2. CASE Start(u) \/ GiveUp(u) \/ FetchLatest(u) \/ DownloadSums(u)
    BY <1>1, <1>2 DEF Start, GiveUp, FetchLatest, DownloadSums, Go, files, Swapping, Unswapped
  <1>3. CASE DownloadBinary(u) \/ Verify(u) \/ WriteTemp(u)
    BY <1>1, <1>3 DEF DownloadBinary, Verify, WriteTemp, Go, files, Swapping, Unswapped
  <1>4. CASE Backup(u)
    <2>1. path = own[u] /\ at' = [at EXCEPT ![u] = "install"] /\ own' = own
      BY <1>4 DEF Backup, Go, Swapping, Unswapped
    <2>2. CASE RenameToBak
      BY <1>1, <2>1, <2>2 DEF RenameToBak, Swapping, Unswapped
    <2>3. CASE UNCHANGED files /\ Fault
      <3>1. path' = own[u] /\ faults' = 1 /\ u \in unsaved'
        BY <1>1, <1>4, <2>1, <2>3 DEF Backup, Fault, files
      <3>2. QED BY <1>1, <2>1, <3>1 DEF Swapping, Unswapped
    <2>4. QED BY <1>4, <2>2, <2>3 DEF Backup
  <1>5. CASE Install(u)
    <2>1. /\ at'[u] = "done" /\ path' = want[u] /\ UNCHANGED <<bak, own, unsaved, want>>
      BY <1>1, <1>5 DEF Install, Go
    <2>2. u \in unsaved \/ bak = own[u]
      BY <1>5 DEF Install, Swapping
    <2>3. QED BY <2>1, <2>2 DEF Swapping, Unswapped
  <1>6. CASE InstallFails(u)
    <2>1. at'[u] = "restore" /\ UNCHANGED <<path, bak, own>> /\ faults' = faults + 1
      BY <1>1, <1>6 DEF InstallFails, Go, Fault, files
    <2>2. faults = 0 /\ path = Missing /\ bak = own[u]
      BY <1>1, <1>6, <2>1 DEF InstallFails, Swapping
    <2>3. QED BY <2>1, <2>2 DEF Swapping, Unswapped
  <1>7. CASE Restore(u)
    <2>1. faults = 1 /\ path = Missing /\ bak = own[u] /\ at'[u] = "failed" /\ own' = own
      BY <1>1, <1>7 DEF Restore, Go, Swapping
    <2>2. RenameToPath
      BY <1>7, <2>1 DEF Restore, Fault
    <2>3. path' = own[u]
      BY <1>1, <2>1, <2>2 DEF RenameToPath
    <2>4. QED BY <2>1, <2>3 DEF Swapping, Unswapped
  <1>8. CASE Kill(u) \/ Again(u)
    BY <1>1, <1>8 DEF Kill, Again, Go, Swapping, Unswapped
  <1>9. QED
    BY <1>2, <1>3, <1>4, <1>5, <1>6, <1>7, <1>8 DEF Update

(* A step of another updater, which has downloaded nothing yet.             *)
LEMMA OtherSwapping ==
    ASSUME UInv, Fetched, NEW u \in Updaters, NEW v \in Updaters \ {u}, Update(v),
           data'[v] = Missing, faults' <= 1, Swapping(u)
    PROVE  Swapping(u)'
  <1>1. data[v] = Missing /\ faults' \in {faults, faults + 1} /\ faults \in Nat
        /\ at'[u] = at[u] /\ own'[u] = own[u] /\ want'[u] = want[u]
        /\ (u \in unsaved' <=> u \in unsaved)
    BY DataMoves, BoundsAssumption DEF UInv, TypeOK
  <1>2. at[v] \notin {"verify", "write", "backup", "install", "restore", "done"}
    BY <1>1 DEF Fetched
  <1>3. UNCHANGED files
    BY <1>2 DEF Update, Start, GiveUp, FetchLatest, DownloadSums, DownloadBinary, Verify,
                WriteTemp, Backup, Install, InstallFails, Restore, Kill, Again
  <1>4. QED BY <1>1, <1>3 DEF files, Swapping

(* A publication, a rollback, or nothing.                                   *)
LEMMA AroundSInv ==
    ASSUME SInv, Publish \/ Rollback \/ UNCHANGED vars
    PROVE  SInv'
  <1>1. UInv' BY AroundUInv DEF SInv
  <1>2. UNCHANGED <<at, own, unsaved, want, data, faults>>
    BY DEF Publish, Rollback, vars
  <1>3. Fetched' BY <1>2 DEF SInv, Fetched
  <1>4. ASSUME NEW u \in Updaters, Quiet(u)', faults' <= 1
        PROVE  Swapping(u)'
    <2>1. rollbacks' = 0 /\ rollbacks \in Nat
      BY <1>4, BoundsAssumption DEF Quiet, SInv, UInv, TypeOK
    <2>2. ~ Rollback BY <2>1 DEF Rollback
    <2>3. UNCHANGED <<path, bak, rollbacks>>
      BY <2>2 DEF Publish, vars, files
    <2>4. Quiet(u) /\ faults <= 1 BY <1>2, <1>4, <2>3 DEF Quiet
    <2>5. Swapping(u) BY <2>4 DEF SInv
    <2>6. QED BY <1>2, <2>3, <2>5 DEF Swapping
  <1>5. QED BY <1>1, <1>3, <1>4 DEF SInv

LEMMA UpdateSInv ==
    ASSUME SInv, NEW v \in Updaters, Update(v)
    PROVE  SInv'
  <1>1. UInv' BY UpdateUInv DEF SInv
  <1>2. Fetched' BY FetchedStays DEF SInv
  <1>3. ASSUME NEW u \in Updaters, Quiet(u)', faults' <= 1
        PROVE  Swapping(u)'
    <2>1. Quiet(u)
      BY <1>3, DataMoves DEF Quiet, SInv
    <2>2. faults <= 1
      BY <1>3, DataMoves, BoundsAssumption DEF SInv, UInv, TypeOK
    <2>3. Swapping(u) BY <2>1, <2>2 DEF SInv
    <2>4. CASE v = u BY <1>3, <2>3, <2>4, OwnSwapping DEF SInv
    <2>5. CASE v # u
      <3>1. data'[v] = Missing BY <1>3, <2>5 DEF Quiet
      <3>2. QED BY <1>3, <2>3, <2>5, <3>1, OtherSwapping DEF SInv
    <2>6. QED BY <2>4, <2>5
  <1>4. QED BY <1>1, <1>2, <1>3 DEF SInv

-----------------------------------------------------------------------------
(* The refinement. *)

(* The old binary is put back only after an installation that failed.      *)
Blamed == \A u \in Updaters : at[u] = "restore" => faults > 0

RInv == UInv /\ Blamed

LEMMA StepBlamed ==
    ASSUME RInv, [Next]_vars
    PROVE  Blamed'
  <1>1. faults \in Nat /\ MaxFaults \in Nat /\ at \in [Updaters -> Places]
    BY BoundsAssumption DEF RInv, UInv, TypeOK
  <1>2. ASSUME NEW v \in Updaters, Update(v) PROVE Blamed'
    <2>1. at'[v] = "restore" => InstallFails(v)
      BY <1>1, <1>2
      DEF Update, Go, Start, GiveUp, FetchLatest, DownloadSums, DownloadBinary, Verify,
          WriteTemp, Backup, Install, Restore, Kill, Again
    <2>2. InstallFails(v) => faults' > 0 BY <1>1 DEF InstallFails, Fault
    <2>3. \A u \in Updaters \ {v} : at'[u] = at[u]
      BY <1>2, DataMoves DEF RInv
    <2>4. faults' \in {faults, faults + 1} BY <1>2, DataMoves DEF RInv
    <2>5. QED BY <1>1, <2>1, <2>2, <2>3, <2>4 DEF RInv, Blamed
  <1>3. CASE Publish \/ Rollback \/ UNCHANGED vars
    BY <1>3 DEF Publish, Rollback, vars, RInv, Blamed
  <1>4. QED BY <1>2, <1>3 DEF Next

LEMMA RInvariance == Spec => []RInv
  <1>1. Init => RInv BY InitUInv DEF Init, RInv, Blamed
  <1>2. RInv /\ [Next]_vars => RInv'
    BY UpdateUInv, AroundUInv, StepBlamed DEF Next, RInv
  <1>3. QED BY <1>1, <1>2, PTL DEF Spec

LEMMA InitInstallation == Init => Abstract!Init
  BY ContentsAssumption
  DEF Init, Abstract!Init, Current, Spare, Asked, Asking

(* An updater that moves asks for nothing new unless it enters Asking.     *)
LEMMA AskedMoves ==
    ASSUME RInv, NEW u \in Updaters, NEW place, Go(u, place), UNCHANGED want,
           place \in Asking => at[u] \in Asking
    PROVE  /\ Asked' \subseteq Asked
           /\ (at[u] \in Asking <=> place \in Asking) => Asked' = Asked
  <1>1. at \in [Updaters -> Places] /\ at'[u] = place
        /\ \A v \in Updaters \ {u} : at'[v] = at[v]
    BY DEF RInv, UInv, TypeOK, Go
  <1>2. \A v \in Updaters : at'[v] \in Asking => at[v] \in Asking
    BY <1>1
  <1>3. (at[u] \in Asking <=> place \in Asking) =>
           \A v \in Updaters : at'[v] \in Asking <=> at[v] \in Asking
    BY <1>1
  <1>4. QED BY <1>2, <1>3 DEF Asked

(* An updater that leaves the files alone: it asks, ends or goes on.       *)
LEMMA UntouchedInstallation ==
    ASSUME RInv, NEW u \in Updaters, Update(u), UNCHANGED files
    PROVE  [Abstract!Next]_(Abstract!vars)
  <1>1. /\ UNCHANGED <<Current, Spare, latest>> /\ rollbacks' = rollbacks
        /\ faults \in Nat /\ rollbacks \in Nat
        /\ faults' \in {faults, faults + 1}
    BY DataMoves, BoundsAssumption
    DEF files, Current, Spare, RInv, UInv, TypeOK, Update, others, Start, GiveUp,
        FetchLatest, DownloadSums, DownloadBinary, Verify, WriteTemp, Backup, Install,
        InstallFails, Restore, Kill, Again
  <1>2. CASE DownloadSums(u)
    <2>1. at \in [Updaters -> Places] /\ want \in [Updaters -> Contents]
          /\ at[u] = "sums" /\ at'[u] = "binary" /\ want'[u] = latest /\ faults' = faults
          /\ \A v \in Updaters \ {u} : at'[v] = at[v] /\ want'[v] = want[v]
      BY <1>2 DEF DownloadSums, Go, RInv, UInv, TypeOK
    <2>2. Asked' = Asked \cup {latest} BY <2>1 DEF Asked, Asking
    <2>3. Abstract!Ask BY <1>1, <2>1, <2>2 DEF Abstract!Ask
    <2>4. QED BY <2>3 DEF Abstract!Next
  <1>3. CASE ~ DownloadSums(u)
    <2>1. UNCHANGED want
      BY <1>3 DEF Update, Start, GiveUp, FetchLatest, DownloadBinary, Verify, WriteTemp,
                  Backup, Install, InstallFails, Restore, Kill, Again
    <2>2. PICK place : Go(u, place) /\ (place \in Asking => at[u] \in Asking)
      BY <1>3 DEF Update, Start, GiveUp, FetchLatest, DownloadBinary, Verify, WriteTemp,
                  Backup, Install, InstallFails, Restore, Kill, Again, Asking
    <2>3. Asked' \subseteq Asked BY <2>1, <2>2, AskedMoves
    <2>4. faults' + rollbacks' \in {faults + rollbacks, faults + rollbacks + 1}
      <3>1. /\ faults \in Nat /\ rollbacks \in Nat /\ rollbacks' = rollbacks
            /\ faults' \in {faults, faults + 1}
        BY <1>1
      <3>2. CASE faults' = faults BY <3>1, <3>2
      <3>3. CASE faults' = faults + 1
        <4>1. faults' + rollbacks' = faults + rollbacks + 1 BY <3>1, <3>3
        <4>2. QED BY <4>1
      <3>4. QED BY <3>1, <3>2, <3>3
    <2>5. Abstract!Forget BY <1>1, <2>3, <2>4 DEF Abstract!Forget
    <2>6. QED BY <2>5 DEF Abstract!Next
  <1>4. QED BY <1>2, <1>3

(* The rename to .bak drops what was there, the rename back makes the       *)
(* backup current; of a file that is missing neither changes what is found. *)
LEMMA RenamesFound ==
    ASSUME RInv
    PROVE  /\ RenameToBak => /\ Current' = Current
                             /\ Spare' = Spare \/ Spare' = Missing
           /\ RenameToPath => \/ Current' = Current /\ Spare' = Spare
                              \/ /\ Spare # Missing
                                 /\ Current' = Spare /\ Spare' = Missing
  BY DEF RenameToBak, RenameToPath, Current, Spare, files, RInv, UInv, ACopySurvives

(* The renames of an updater, and its installation.                        *)
LEMMA RenamedInstallation ==
    ASSUME RInv, NEW u \in Updaters, Backup(u) \/ Install(u) \/ Restore(u),
           ~ UNCHANGED files
    PROVE  [Abstract!Next]_(Abstract!vars)
  <1>1. /\ UNCHANGED <<latest, faults, rollbacks, want>>
        /\ faults \in Nat /\ rollbacks \in Nat
    BY BoundsAssumption DEF Backup, Install, Restore, others, RInv, UInv, TypeOK
  <1>2. CASE Backup(u)
    <2>1. Go(u, "install") /\ at[u] = "backup" /\ RenameToBak BY <1>2 DEF Backup
    <2>2. Asked' = Asked BY <1>1, <2>1, AskedMoves DEF Asking
    <2>3. Abstract!Discard \/ UNCHANGED Abstract!vars
      BY <1>1, <2>1, <2>2, RenamesFound DEF Abstract!Discard, Abstract!vars
    <2>4. QED BY <2>3 DEF Abstract!Next
  <1>3. CASE Install(u)
    <2>1. Go(u, "done") /\ at[u] = "install" /\ path' = data[u] /\ bak' = bak
      BY <1>3 DEF Install
    <2>2. data[u] = want[u] /\ data[u] # Missing
      BY <2>1, AllFit, ContentsAssumption DEF RInv, Fits, Released
    <2>3. data[u] \in Asked /\ Asked' \subseteq Asked
      BY <1>1, <2>1, <2>2, AskedMoves DEF Asked, Asking
    <2>4. Current' = data[u] /\ Spare' \in {Spare, Current}
      BY <2>1, <2>2 DEF Current, Spare
    <2>5. Abstract!Install BY <1>1, <2>3, <2>4 DEF Abstract!Install
    <2>6. QED BY <2>5 DEF Abstract!Next
  <1>4. CASE Restore(u)
    <2>1. Go(u, "failed") /\ at[u] = "restore" /\ RenameToPath BY <1>4 DEF Restore
    <2>2. Asked' = Asked /\ faults > 0
      BY <1>1, <2>1, AskedMoves DEF Asking, RInv, Blamed
    <2>3. Abstract!Return \/ UNCHANGED Abstract!vars
      BY <1>1, <2>1, <2>2, RenamesFound DEF Abstract!Return, Abstract!vars
    <2>4. QED BY <2>3 DEF Abstract!Next
  <1>5. QED BY <1>2, <1>3, <1>4

(* A publication, a rollback, or nothing.                                  *)
LEMMA AroundInstallation ==
    ASSUME RInv, Publish \/ Rollback \/ UNCHANGED vars
    PROVE  [Abstract!Next]_(Abstract!vars)
  <1>1. UNCHANGED <<at, want, faults>> /\ faults \in Nat /\ rollbacks \in Nat
    BY BoundsAssumption DEF Publish, Rollback, vars, RInv, UInv, TypeOK
  <1>2. Asked' = Asked BY <1>1 DEF Asked
  <1>3. CASE Publish
    <2>1. UNCHANGED <<Current, Spare>> BY <1>3 DEF Publish, files, Current, Spare
    <2>2. Abstract!Publish BY <1>1, <1>2, <1>3, <2>1 DEF Publish, Abstract!Publish
    <2>3. QED BY <2>2 DEF Abstract!Next
  <1>4. CASE Rollback
    <2>1. latest' = latest /\ rollbacks' = rollbacks + 1 /\ RenameToPath
      BY <1>4 DEF Rollback
    <2>2. Abstract!Return \/ Abstract!Forget
      BY <1>1, <1>2, <2>1, RenamesFound DEF Abstract!Return, Abstract!Forget
    <2>3. QED BY <2>2 DEF Abstract!Next
  <1>5. CASE UNCHANGED vars
    BY <1>2, <1>5 DEF vars, Abstract!vars, Current, Spare
  <1>6. QED BY <1>3, <1>4, <1>5

LEMMA NextInstallation ==
    ASSUME RInv, [Next]_vars
    PROVE  [Abstract!Next]_(Abstract!vars)
  <1>1. ASSUME NEW u \in Updaters, Update(u) PROVE [Abstract!Next]_(Abstract!vars)
    <2>1. CASE UNCHANGED files BY <1>1, <2>1, UntouchedInstallation
    <2>2. CASE ~ UNCHANGED files
      <3>1. Backup(u) \/ Install(u) \/ Restore(u)
        BY <1>1, <2>2 DEF Update, Start, GiveUp, FetchLatest, DownloadSums,
                          DownloadBinary, Verify, WriteTemp, InstallFails, Kill, Again
      <3>2. QED BY <2>2, <3>1, RenamedInstallation
    <2>3. QED BY <2>1, <2>2
  <1>2. QED BY <1>1, AroundInstallation DEF Next

-----------------------------------------------------------------------------
(* The invariant holds of every reachable state.                           *)
THEOREM UpdateInvariance == Spec => []UInv
  <1>1. UInv /\ [Next]_vars => UInv'
    BY UpdateUInv, AroundUInv DEF Next
  <1>2. QED BY <1>1, InitUInv, PTL DEF Spec

(* Types, and what an updater holds at each place.                         *)
THEOREM UpdateTypeCorrect == Spec => []TypeOK
  <1>1. UInv => TypeOK BY DEF UInv
  <1>2. QED BY <1>1, UpdateInvariance, PTL

(* An installation puts in place the build whose sum its updater has read,  *)
(* whatever is released between the two downloads; besides that the two    *)
(* files only change places.                                               *)
THEOREM VerifiedBuilds == Spec => OnlyVerified
  <1> DEFINE Moved == \/ path' \in {path, bak, Missing}
                      \/ \E u \in Updaters :
                            at[u] = "install" /\ at'[u] = "done" /\ path' = want[u]
             Kept == bak' \in {bak, path, Missing}
  <1>1. ASSUME UInv, NEW u \in Updaters, Update(u)
        PROVE  Moved /\ Kept
    <2>1. CASE Install(u)
      <3>1. at[u] = "install" /\ path' = data[u] /\ bak' = bak /\ at'[u] = "done"
        BY <1>1, <2>1 DEF Install, Go, UInv, TypeOK
      <3>2. data[u] = want[u] BY <1>1, <3>1 DEF UInv, TypeOK
      <3>3. QED BY <3>1, <3>2
    <2>2. CASE ~ Install(u)
      <3>1. RenameToBak \/ RenameToPath \/ UNCHANGED files
        BY <1>1, <2>2 DEF Update, Start, GiveUp, FetchLatest, DownloadSums, DownloadBinary,
                          Verify, WriteTemp, Backup, InstallFails, Restore, Kill, Again
      <3>2. QED BY <3>1 DEF RenameToBak, RenameToPath, files
    <2>3. QED BY <2>1, <2>2
  <1>2. ASSUME Publish \/ Rollback \/ UNCHANGED vars
        PROVE  Moved /\ Kept
    BY <1>2 DEF Publish, Rollback, RenameToPath, vars, files
  <1>3. UInv /\ [Next]_vars => [Moved /\ Kept]_vars
    BY <1>1, <1>2 DEF Next
  <1>4. QED BY <1>3, UpdateInvariance, PTL DEF Spec, OnlyVerified

(* However updates, rollbacks, failed renames and kills interleave, a      *)
(* binary is in place or in .bak.                                          *)
THEOREM BinarySurvives == Spec => []ACopySurvives
  <1>1. UInv => ACopySurvives BY DEF UInv
  <1>2. QED BY <1>1, UpdateInvariance, PTL

(* An update that nobody disturbs and that meets at most one fault leaves  *)
(* the binary it ran when it reports an error and the new one when it      *)
(* reports success, with the old one in .bak unless the rename that was to *)
(* save it is what failed.                                                 *)
THEOREM UpdateAllOrNothing == Spec => []AllOrNothing
  <1>1. SInv /\ [Next]_vars => SInv'
    BY UpdateSInv, AroundSInv DEF Next
  <1>2. SInv => AllOrNothing
    BY DEF SInv, AllOrNothing, Alone, Quiet, Swapping, Unswapped
  <1>3. QED BY <1>1, <1>2, InitSInv, PTL DEF Spec

(* Updates, rollbacks, failed renames and kills implement Installation: a  *)
(* start that falls back on .bak finds one build at every moment; it is    *)
(* replaced in one step, by a build an update under way has read the sums  *)
(* of, or by its predecessor after something went wrong.                   *)
THEOREM UpdateRefinement == Spec => ImplementsInstallation
  <1>1. QED
    BY InitInstallation, NextInstallation, RInvariance, PTL
    DEF Spec, ImplementsInstallation, Abstract!Spec

=============================================================================
