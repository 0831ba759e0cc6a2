------------------------------ MODULE SelfUpdate ------------------------------
(***************************************************************************)
(* telemux update (internal/selfupdate): learn the latest release,         *)
(* download its checksums and then its binary, compare, write a temporary  *)
(* file, move the running binary to .bak and the new one into its place.   *)
(* Updates may run side by side, and each may be killed between any two    *)
(* steps; files are what they contain, an absent file is Missing.          *)
(***************************************************************************)
EXTENDS Naturals, FiniteSets

CONSTANTS
    Updaters,     \* processes running `telemux update`
    Old,          \* the build installed at first
    Builds,       \* builds that get published, in any order
    Damaged,      \* a download that is no build's content
    Missing,      \* no such file
    MaxPublished, \* bound: publications of a build
    MaxRollbacks, \* bound: calls of Rollback
    MaxFaults     \* bound: damaged downloads, failed renames, kills

ASSUME ContentsAssumption ==
    /\ Old \notin Builds
    /\ Damaged \notin Builds \cup {Old}
    /\ Missing \notin Builds \cup {Old, Damaged}

ASSUME BoundsAssumption ==
    MaxPublished \in Nat /\ MaxRollbacks \in Nat /\ MaxFaults \in Nat

VARIABLES
    path,      \* the file of the binary
    bak,       \* path + ".bak"
    latest,    \* the build the release server serves
    at,        \* where each updater is
    own,       \* the build each updater runs, Options.CurrentVersion
    want,      \* the checksum it has (the build it belongs to)
    data,      \* the binary it downloaded, then its temporary file
    unsaved,   \* the updaters whose rename to .bak failed
    published,
    rollbacks,
    faults

vars == <<path, bak, latest, at, own, want, data, unsaved, published, rollbacks, faults>>

files == <<path, bak>>
others == <<latest, published, rollbacks>>

Contents == Builds \cup {Old, Damaged, Missing}

Fault == faults < MaxFaults /\ faults' = faults + 1

Init ==
    /\ path = Old /\ bak = Missing
    /\ latest = Old /\ published = 0 /\ rollbacks = 0 /\ faults = 0
    /\ at = [u \in Updaters |-> "out"]
    /\ own = [u \in Updaters |-> Old]
    /\ want = [u \in Updaters |-> Missing]
    /\ data = [u \in Updaters |-> Missing]
    /\ unsaved = {}

Go(u, place) == at' = [at EXCEPT ![u] = place]

-----------------------------------------------------------------------------
(* Update. *)

(* The process is started from the file at path. *)
Start(u) ==
    /\ at[u] = "out"
    /\ path # Missing
    /\ own' = [own EXCEPT ![u] = path]
    /\ Go(u, "fetch")
    /\ UNCHANGED <<files, others, unsaved, want, data, faults>>

(* Mutant: whatever fails, the backup is put back. *)
GiveUpRestoring(u) ==
    /\ at[u] \in {"fetch", "sums", "binary", "write"}
    /\ Go(u, "restore")
    /\ UNCHANGED <<files, others, own, unsaved, want, data, faults>>

(* Any failing request, missing asset or missing sum: nothing was touched. *)
GiveUp(u) ==
    /\ at[u] \in {"fetch", "sums", "binary", "write"}
    /\ Go(u, "failed")
    /\ UNCHANGED <<files, others, own, unsaved, want, data, faults>>

FetchLatest(u) ==
    /\ at[u] = "fetch"
    /\ Go(u, IF latest = own[u] THEN "current" ELSE "sums")
    /\ UNCHANGED <<files, others, own, unsaved, want, data, faults>>

(* The two downloads are two requests: the asset may be replaced between. *)
DownloadSums(u) ==
    /\ at[u] = "sums"
    /\ want' = [want EXCEPT ![u] = latest]
    /\ Go(u, "binary")
    /\ UNCHANGED <<files, others, own, unsaved, data, faults>>

DownloadBinary(u) ==
    /\ at[u] = "binary"
    /\ \/ data' = [data EXCEPT ![u] = latest] /\ UNCHANGED faults
       \/ data' = [data EXCEPT ![u] = Damaged] /\ Fault
    /\ Go(u, "verify")
    /\ UNCHANGED <<files, others, own, unsaved, want>>

(* Mutant: what was downloaded is written without a look at its sum. *)
VerifyNothing(u) ==
    /\ at[u] = "verify"
    /\ Go(u, "write")
    /\ UNCHANGED <<files, others, own, unsaved, want, data, faults>>

Verify(u) ==
    /\ at[u] = "verify"
    /\ Go(u, IF data[u] = want[u] THEN "write" ELSE "failed")
    /\ UNCHANGED <<files, others, own, unsaved, want, data, faults>>

-----------------------------------------------------------------------------
(* swapBinary. *)

(* The temporary file is complete before any rename. *)
WriteTemp(u) ==
    /\ at[u] = "write"
    /\ Go(u, "backup")
    /\ UNCHANGED <<files, others, own, unsaved, want, data, faults>>

(* rename: from's content is at to, whatever was there; from is gone.  Of a *)
(* file that is missing it fails and changes nothing.                       *)
RenameToBak == IF path = Missing THEN UNCHANGED files ELSE bak' = path /\ path' = Missing

RenameToPath == IF bak = Missing THEN UNCHANGED files ELSE path' = bak /\ bak' = Missing

(* Mutant: the old binary is removed, not renamed. *)
BackupByRemoval(u) ==
    /\ at[u] = "backup"
    /\ path' = Missing
    /\ Go(u, "install")
    /\ UNCHANGED <<bak, others, own, unsaved, want, data, faults>>

(* Its error is ignored. *)
Backup(u) ==
    /\ at[u] = "backup"
    /\ \/ RenameToBak /\ unsaved' = unsaved \ {u} /\ UNCHANGED faults
       \/ UNCHANGED files /\ unsaved' = unsaved \cup {u} /\ Fault
    /\ Go(u, "install")
    /\ UNCHANGED <<others, own, want, data>>

Install(u) ==
    /\ at[u] = "install"
    /\ path' = data[u]
    /\ Go(u, "done")
    /\ UNCHANGED <<bak, others, own, unsaved, want, data, faults>>

InstallFails(u) ==
    /\ at[u] = "install"
    /\ Fault
    /\ Go(u, "restore")
    /\ UNCHANGED <<files, others, own, unsaved, want, data>>

(* Mutant: a failed installation is reported without putting the old back. *)
RestoreNothing(u) ==
    /\ at[u] = "restore"
    /\ Go(u, "failed")
    /\ UNCHANGED <<files, others, own, unsaved, want, data, faults>>

(* Its error is ignored too. *)
Restore(u) ==
    /\ at[u] = "restore"
    /\ \/ RenameToPath /\ UNCHANGED faults
       \/ UNCHANGED files /\ Fault
    /\ Go(u, "failed")
    /\ UNCHANGED <<others, own, unsaved, want, data>>

-----------------------------------------------------------------------------
(* Around it. *)

(* The process is killed.  (A loss of power, which may also lose what a     *)
(* file was given and never synced, is left out.)                          *)
Kill(u) ==
    /\ at[u] \notin {"out", "done", "failed", "current"}
    /\ Fault
    /\ Go(u, "killed")
    /\ UNCHANGED <<files, others, own, unsaved, want, data>>

(* The operator comes back later. *)
Again(u) ==
    /\ at[u] \in {"done", "failed", "current", "killed"}
    /\ Go(u, "out")
    /\ UNCHANGED <<files, others, own, unsaved, want, data, faults>>

(* A release, or an asset of one uploaded anew. *)
Publish ==
    /\ published < MaxPublished
    /\ published' = published + 1
    /\ latest' \in Builds \ {latest}
    /\ UNCHANGED <<files, at, own, unsaved, want, data, rollbacks, faults>>

(* Rollback, after a health check that failed. *)
Rollback ==
    /\ bak # Missing
    /\ rollbacks < MaxRollbacks
    /\ rollbacks' = rollbacks + 1
    /\ RenameToPath
    /\ UNCHANGED <<latest, published, at, own, unsaved, want, data, faults>>

Update(u) ==
    \/ Start(u) \/ GiveUp(u) \/ FetchLatest(u) \/ DownloadSums(u) \/ DownloadBinary(u)
    \/ Verify(u) \/ WriteTemp(u) \/ Backup(u) \/ Install(u) \/ InstallFails(u)
    \/ Restore(u) \/ Kill(u) \/ Again(u)

Next == (\E u \in Updaters : Update(u)) \/ Publish \/ Rollback

Spec == Init /\ [][Next]_vars

-----------------------------------------------------------------------------
(* Properties. *)

Places == {"out", "fetch", "sums", "binary", "verify", "write", "backup", "install",
           "restore", "done", "failed", "current", "killed"}

TypeOK ==
    /\ path \in Contents /\ bak \in Contents
    /\ latest \in Builds \cup {Old}
    /\ at \in [Updaters -> Places]
    /\ own \in [Updaters -> Contents \ {Missing}]
    /\ want \in [Updaters -> Contents]
    /\ data \in [Updaters -> Contents] /\ unsaved \subseteq Updaters
    /\ published \in 0 .. MaxPublished /\ rollbacks \in 0 .. MaxRollbacks
    /\ faults \in 0 .. MaxFaults
    /\ \A u \in Updaters :
          /\ at[u] \in {"write", "backup", "install"} => data[u] = want[u]
          /\ want[u] # Damaged
          /\ at[u] \in {"binary", "verify"} => want[u] # Missing

(* Whatever the downloads brought, however the updates overlap and wherever *)
(* they are killed: what comes into the binary's place is what was in .bak  *)
(* or, by an installation, the very build whose sum the updater has read,   *)
(* and not one released between its two downloads; what comes into .bak was *)
(* in the binary's place.                                                   *)
OnlyVerified ==
    [][/\ \/ path' \in {path, bak, Missing}
          \/ \E u \in Updaters : at[u] = "install" /\ at'[u] = "done" /\ path' = want[u]
       /\ bak' \in {bak, path, Missing}]_vars

(* A binary survives, in place or in .bak: of every step of every update,   *)
(* rollback, failed rename and kill, none loses the last copy.              *)
ACopySurvives == path # Missing \/ bak # Missing

(* Nobody but u has got as far as a download, and nobody rolled back. *)
Alone(u) ==
    /\ rollbacks = 0
    /\ \A v \in Updaters \ {u} : at[v] = "out" /\ data[v] = Missing

(* An update that reports an error left the binary it ran in its place, one *)
(* that reports success left the new build there and the old one in .bak.   *)
(* One thing going wrong, a failed rename included, does not change that,   *)
(* except that the old one is lost when the rename to .bak is what failed:  *)
(* its error is ignored, and the command still says that it was saved.      *)
AllOrNothing ==
    \A u \in Updaters :
       Alone(u) /\ faults <= 1 =>
          /\ at[u] \in {"failed", "current"} => path = own[u]
          /\ at[u] = "done" => path = want[u] /\ (u \in unsaved \/ bak = own[u])

(* What is found by a start that falls back on .bak, and what is left.      *)
Current == IF path # Missing THEN path ELSE bak

Spare == IF path # Missing THEN bak ELSE Missing

Asking == {"binary", "verify", "write", "backup", "install"}

Asked == {want[u] : u \in {v \in Updaters : at[v] \in Asking}}

Abstract == INSTANCE Installation
            WITH current <- Current, backup <- Spare, asked <- Asked,
                 mishaps <- faults + rollbacks

(* Updates, rollbacks, failed renames and kills implement Installation: the *)
(* two renames are one replacement to whoever falls back on .bak, and no    *)
(* update goes back to a predecessor unless something went wrong.           *)
ImplementsInstallation == Abstract!Spec

(* The documents' claim: the binary is replaced atomically.  Whoever looks, *)
(* the service manager that starts it above all, finds one or the other.    *)
AtomicSwap == path # Missing

=============================================================================
