-------------------------------- MODULE Evidence --------------------------------
(***************************************************************************)
(* `rootsign export` (sdk/export.py, sdk/cli.py) around the verifiers of   *)
(* TrailVerifier: the session is read, then verified by reading it again   *)
(* while its writer may still append; every record gets a chain_status;    *)
(* the bundle's files are written one by one, the manifest last, possibly  *)
(* over an older bundle; and whoever receives the directory checks it      *)
(* against the manifest and the anchor noted at export time.               *)
(*                                                                         *)
(* Of a file only matters which export wrote it: Older, This, or neither   *)
(* (Foreign: not an export's, edited or half-written).  A digest identifies*)
(* its file, so the manifest lists the versions themselves and is its own  *)
(* hash.                                                                   *)
(***************************************************************************)
EXTENDS TrailVerifier, Sequences

CONSTANT MaxWritten    \* bundles are written out for archives of up to MaxWritten records

ASSUME EvidenceAssumption == MaxWritten \in Nat

VARIABLES
    stage,      \* of the export command
    read,       \* the records it read
    status,     \* their chain_status
    left,       \* the files still to be written
    dir,        \* file -> version: evidence-<session_id>/ without its manifest
    manifest,   \* manifest.json
    anchor,     \* the manifest hash printed
    handled     \* somebody changed the directory afterwards

bundleVars == <<status, left, dir, manifest, anchor, handled>>
evidenceVars == <<stage, read, bundleVars>>

Older == "older"
This == "this"
Foreign == "foreign"

NoManifest == [by |-> "none", files |-> << >>]
TornManifest == [by |-> "torn", files |-> << >>]

(* The documents every bundle has, as one; a sync receipt where the session  *)
(* was replayed; the reports that --format asks for.                         *)
Documents == "documents"
Receipt == "sync-receipt.json"
Reports == "reports"

(* Files no export writes: one beside them, and one in a subdirectory.       *)
Stray == "stray"
Nested == "subdirectory/stray"

EvidenceInit ==
    /\ Init
    /\ stage = "idle"
    /\ read = << >>
    /\ status = << >>
    /\ left = << >>
    /\ dir = << >>
    /\ manifest = NoManifest
    /\ anchor = NoManifest
    /\ handled = FALSE

-------------------------------------------------------------------------------
(* Exporting *)

(* load_local_session, load_postgres_session: the records are collected; a   *)
(* malformed line is skipped.  The verifier reads the archive again.         *)
ReadSession ==
    /\ stage = "idle"
    /\ phase = "archive"
    /\ read' = rows
    /\ stage' = "verify"
    /\ UNCHANGED <<archiveVars, phase, walkVars, bundleVars>>

(* Mutant of RecordStatus: what the verdict does not blame is verified.      *)
StatusBlamesOne(n) ==
    IF verdict = VALID \/ first = NoSequence \/ n # first THEN "verified" ELSE "failed"

(* _record_status *)
RecordStatus(n) ==
    IF verdict = VALID \/ first = NoSequence \/ n < first THEN "verified"
    ELSE IF n = first THEN "failed" ELSE "unverified"

(* Mutant of Files: the reports are attached after the manifest was made.    *)
Unattached(receipt, reports) == {Documents} \cup (IF receipt THEN {Receipt} ELSE {})

(* EvidenceBundle.files: what the manifest lists. *)
Files(receipt, reports) ==
    {Documents} \cup (IF receipt THEN {Receipt} ELSE {}) \cup (IF reports THEN {Reports} ELSE {})

(* The order in which write_bundle goes through its files. *)
Ordered(receipt, reports) ==
    <<Documents>> \o (IF receipt THEN <<Receipt>> ELSE << >>)
                  \o (IF reports THEN <<Reports>> ELSE << >>)

ListedBy(version, files) == [by |-> version, files |-> [f \in files |-> version]]

(* The start of write_bundle.  The directory may hold an older bundle of the *)
(* session, of another format or without its receipt, and files of somebody  *)
(* else; only --force writes over it.                                        *)
OpenDirectory(receipt, reports, older, force, strays, files) ==
    /\ dir' = [f \in strays \cup (IF older THEN files ELSE {}) |->
                  IF f \in strays THEN Foreign ELSE Older]
    /\ manifest' = IF older THEN ListedBy(Older, files) ELSE NoManifest
    /\ stage' = IF (older \/ strays # {}) /\ ~force THEN "refused" ELSE "write"
    /\ left' = IF stage' = "write" THEN Ordered(receipt, reports) ELSE << >>

(* build_bundle, and write_bundle as far as its first file.                  *)
BuildBundle ==
    /\ stage = "verify"
    /\ phase = "done"
    /\ status' = [i \in DOMAIN read |-> RecordStatus(read[i].seq)]
    /\ \/ /\ Cardinality(DOMAIN rows) > MaxWritten
          /\ stage' = "built"
          /\ UNCHANGED <<left, dir, manifest>>
       \/ /\ Cardinality(DOMAIN rows) <= MaxWritten
          /\ \E receipt, reports, older, force \in BOOLEAN, strays \in SUBSET {Stray, Nested},
                files \in {Files(x, y) : x, y \in BOOLEAN} :
                  OpenDirectory(receipt, reports, older, force, strays, files)
    /\ UNCHANGED <<archiveVars, phase, walkVars, read, anchor, handled>>

Put(f, version) == dir' = [g \in DOMAIN dir \cup {f} |-> IF g = f THEN version ELSE dir[g]]

WriteFile ==
    /\ stage = "write"
    /\ left # << >>
    /\ Put(Head(left), This)
    /\ left' = Tail(left)
    /\ UNCHANGED <<archiveVars, phase, walkVars, stage, read, status, manifest, anchor, handled>>

(* The manifest of the bundle being written lists its files.                 *)
ThisManifest ==
    LET has(f) == f \in DOMAIN dir /\ dir[f] = This
    IN  ListedBy(This, Files(has(Receipt), has(Reports)))

(* manifest.json is written last and its digest printed. *)
WriteManifest ==
    /\ stage = "write"
    /\ left = << >>
    /\ manifest' = ThisManifest
    /\ anchor' = manifest'
    /\ stage' = "exported"
    /\ UNCHANGED <<archiveVars, phase, walkVars, read, status, left, dir, handled>>

(* The process dies, or the disk is full: before or between two writes,      *)
(* inside a write_text, which has truncated the file it writes, or before    *)
(* the anchor is printed.  Documents that are partly new are nobody's.       *)
ExportCrash ==
    /\ stage = "write"
    /\ stage' = "crashed"
    /\ left' = << >>
    /\ \/ UNCHANGED <<dir, manifest>>
       \/ left # << >> /\ Put(Head(left), Foreign) /\ manifest' = manifest
       \/ left = << >> /\ manifest' \in {TornManifest, ThisManifest} /\ dir' = dir
    /\ UNCHANGED <<archiveVars, phase, walkVars, read, status, anchor, handled>>

(* The directory is changed on its way: a file edited or added, or removed,  *)
(* with or without a manifest made to match.                                 *)
HandleBundle ==
    /\ stage \in {"exported", "crashed"}
    /\ ~handled
    /\ handled' = TRUE
    /\ \E f \in {Documents, Receipt, Reports, Stray, Nested} :
          \/ Put(f, Foreign)
          \/ f \in DOMAIN dir /\ dir' = [g \in DOMAIN dir \ {f} |-> dir[g]]
    /\ manifest' \in {manifest, [by |-> Foreign, files |-> dir']}
    /\ UNCHANGED <<archiveVars, phase, walkVars, stage, read, status, left, anchor>>

(* The writer may go on while the export reads; the archive is not damaged   *)
(* between its two readings.  `rootsign verify` is the verifier alone.       *)
EvidenceNext ==
    \/ stage = "idle" /\ (WriterNext \/ DamageNext \/ VerifierNext) /\ UNCHANGED evidenceVars
    \/ stage = "verify" /\ (AppendRecord \/ LoseRecord \/ VerifierNext) /\ UNCHANGED evidenceVars
    \/ ReadSession \/ BuildBundle
    \/ WriteFile \/ WriteManifest \/ ExportCrash
    \/ HandleBundle

EvidenceSpec == EvidenceInit /\ [][EvidenceNext]_<<vars, evidenceVars>>

-------------------------------------------------------------------------------
(* Checking a bundle *)

(* The files at the top of the directory. *)
TopLevel == DOMAIN dir \ {Nested}

(* check_bundle: the manifest is there and readable, nothing it lists is     *)
(* missing or altered, and no other file is there; subdirectories are not    *)
(* looked into.                                                              *)
Intact ==
    /\ manifest \notin {NoManifest, TornManifest}
    /\ \A f \in DOMAIN manifest.files : f \in DOMAIN dir /\ dir[f] = manifest.files[f]
    /\ TopLevel \subseteq DOMAIN manifest.files

(* Properties *)

Built == stage \notin {"idle", "verify"}

(* "The walk stops at the first break, so records after it are `unverified`  *)
(* - not `verified`" (export.py:20): a record the bundle calls verified is   *)
(* one the verifier walked.                                                  *)
(* It does not hold.                                                         *)
StatusEarned ==
    Built => \A i \in DOMAIN read : status[i] = "verified" => read[i].seq \in seen

(* The same wherever the verifier got as far as its walk, whatever is        *)
(* damaged and whatever was appended after the records were read; and a      *)
(* record whose own hashes do not match is never called verified.            *)
WalkedStatusEarned ==
    Built /\ ~torn /\ ~(verifier = "local" /\ DuplicateSequence(rows)) =>
        \A i \in DOMAIN read : status[i] = "verified" =>
            read[i].seq \in seen /\ read[i].selfOk /\ read[i].bindOk

(* "All three are reported: a listed file whose content changed, a listed    *)
(* file that is gone, and a file that is present but not listed"             *)
(* (export.py:915): a directory with the noted manifest that checks as       *)
(* intact holds the exported files and no others.                            *)
(* It does not hold.                                                         *)
AdditionsShow ==
    stage = "exported" /\ Intact /\ manifest = anchor => DOMAIN dir = DOMAIN anchor.files

(* While nobody touches the directory, whatever the export found there and   *)
(* wherever it died, what checks is one whole bundle: one that died in       *)
(* between leaves the older bundle, its own, or nothing that checks.  One    *)
(* that ended checks unless files it does not remove are left in the         *)
(* directory beside its own.                                                 *)
UntouchedIsWhole ==
    ~handled =>
        /\ stage = "crashed" /\ Intact =>
              \E version \in {Older, This} : \A f \in TopLevel : dir[f] = version
        /\ stage = "exported" => (Intact <=> \A f \in TopLevel : dir[f] = This)

================================================================================
