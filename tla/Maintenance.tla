---------------------------- MODULE Maintenance ----------------------------
(***************************************************************************)
(* The maintenance commands beside a store that goes on writing:           *)
(* audit-archive (compliance/audit_archive.py), sqlite-backup and          *)
(* sqlite-restore (storage/backup.py).  Each is a process that an operator *)
(* starts, one of a kind at a time, and that may be killed between any two *)
(* of its steps or in the middle of writing a file.  Of the database these *)
(* modules keep the audit table, which every transaction writes.           *)
(*                                                                         *)
(* A file is Absent, Torn (cut, or still being written) or Whole; its      *)
(* SHA-256 digest is its content.                                          *)
(***************************************************************************)
EXTENDS AuditChain, Sequences

CONSTANTS
  Limit,        \* --limit of audit-archive
  Overwrite,    \* whether sqlite-restore is given --overwrite
  MaxCommands   \* bound: maintenance commands started

ASSUME MaintenanceAssumption ==
  /\ Limit \in Nat \ {0}
  /\ Overwrite \in BOOLEAN
  /\ MaxCommands \in Nat

VARIABLES
  left,        \* the steps each command has still to take; <<>> when it is not running
  held,        \* what it has in memory
  file,        \* the files: "archive", "backup", "restored"
  manifest,    \* the manifests of "archive" and "backup"
  commands     \* commands started

mvars == <<left, held, file, manifest, commands>>

Commands == {"audit_archive", "sqlite_backup", "sqlite_restore"}

Absent == [is |-> "absent"]

Torn == [is |-> "torn"]

\* The table and, to tell a store from the store before a reset, its epoch.
Whole(table, epoch) == [is |-> "whole", rows |-> table, epoch |-> epoch]

\* The text of an archive, and what its manifest will say of the chain.
Archive(digest, valid, checked, verified_at) ==
  [digest |-> digest, valid |-> valid, checked |-> checked, verified_at |-> verified_at]

Nothing == Archive(Absent, FALSE, 0, 0)

\* Fault: the chain is verified before the entries are listed.
Steps_VerifyFirst ==
  [audit_archive |-> <<"verify", "list", "write", "sign">>,
   sqlite_backup |-> <<"unlink", "begin_copy", "end_copy", "sign">>,
   sqlite_restore |-> <<"copy">>]

\* The statements of write_audit_archive, write_sqlite_backup and
\* restore_sqlite_backup that touch the store or a file, in their order.
Steps ==
  [audit_archive |-> <<"list", "verify", "write", "sign">>,
   sqlite_backup |-> <<"unlink", "begin_copy", "end_copy", "sign">>,
   sqlite_restore |-> <<"copy">>]

MInit ==
  /\ Init
  /\ left = [c \in Commands |-> <<>>]
  /\ held = [c \in Commands |-> Nothing]
  /\ file = [f \in {"archive", "backup", "restored"} |-> Absent]
  /\ manifest = [f \in {"archive", "backup"} |-> Nothing]
  /\ commands = 0

-----------------------------------------------------------------------------

\* Command c takes the step if it is its next one; the first step starts a
\* command that is not running.  The backup commands are about a SQLite file.
At(c, step) ==
  LET starts == left[c] = <<>>
      steps == IF starts THEN Steps[c] ELSE left[c]
  IN /\ Head(steps) = step
     /\ starts => commands < MaxCommands /\ (c # "audit_archive" => backend = "sqlite")
     /\ commands' = IF starts THEN commands + 1 ELSE commands
     /\ left' = [left EXCEPT ![c] = Tail(steps)]

\* What command c has in memory from now on.
Holds(c, r) == held' = [held EXCEPT ![c] = r]

Forgets(c) == held' = [held EXCEPT ![c] = Nothing]

\* list_audit_entries: the newest entries, oldest of them first.
ListAuditEntries(table, limit) ==
  {r \in table : Cardinality({q \in table : r.sequence <= q.sequence}) <= limit}

\* verify_audit_chain's entries_checked.
EntriesChecked(table) ==
  IF Valid(table) THEN Cardinality(table) ELSE FailureSequence(table) - 1

ArchiveLists ==
  /\ At("audit_archive", "list")
  /\ LET now == held["audit_archive"] IN
     Holds("audit_archive", Archive(Whole(ListAuditEntries(rows, Limit), resets),
                                    now.valid, now.checked, now.verified_at))
  /\ UNCHANGED <<file, manifest>>

ArchiveVerifies ==
  /\ At("audit_archive", "verify")
  /\ Holds("audit_archive",
           Archive(held["audit_archive"].digest, Valid(rows), EntriesChecked(rows), resets))
  /\ UNCHANGED <<file, manifest>>

ArchiveWrites ==
  /\ At("audit_archive", "write")
  /\ file' = [file EXCEPT !["archive"] = held["audit_archive"].digest]
  /\ UNCHANGED <<held, manifest>>

\* The digest is taken of the text in memory, not of the file.
ArchiveSigns ==
  /\ At("audit_archive", "sign")
  /\ manifest' = [manifest EXCEPT !["archive"] = held["audit_archive"]]
  /\ Forgets("audit_archive")
  /\ UNCHANGED file

\* The old backup goes first; its manifest stays.
BackupUnlinks ==
  /\ At("sqlite_backup", "unlink")
  /\ file' = [file EXCEPT !["backup"] = Absent]
  /\ UNCHANGED <<held, manifest>>

\* Fault: the database file is copied without a read transaction.
Snapshot_Dirty == Whole(rows \cup Uncommitted, resets)

\* What one read transaction of the source sees.
Snapshot == Whole(rows, resets)

BackupBeginsCopy ==
  /\ At("sqlite_backup", "begin_copy")
  /\ Holds("sqlite_backup", [snapshot |-> Snapshot])
  /\ file' = [file EXCEPT !["backup"] = Torn]
  /\ UNCHANGED manifest

BackupEndsCopy ==
  /\ At("sqlite_backup", "end_copy")
  /\ file' = [file EXCEPT !["backup"] = held["sqlite_backup"].snapshot]
  /\ Forgets("sqlite_backup")
  /\ UNCHANGED manifest

\* The digests, the integrity check and the manifest, of the file as it is now.
BackupSigns ==
  /\ At("sqlite_backup", "sign")
  /\ manifest' = [manifest EXCEPT !["backup"] = [digest |-> file["backup"]]]
  /\ UNCHANGED <<held, file>>

\* A backup that is missing, or a restore path that exists, raises.
RestoreRefuses == file["backup"] = Absent \/ (file["restored"] # Absent /\ ~Overwrite)

\* Whatever the backup file is at the moment is copied, or a part of it if the
\* command is killed.  It then compares the digests of the two files; it does
\* not read the manifest.
RestoreCopies ==
  /\ At("sqlite_restore", "copy")
  /\ ~RestoreRefuses
  /\ \E content \in {file["backup"], Torn} : file' = [file EXCEPT !["restored"] = content]
  /\ UNCHANGED <<held, manifest>>

\* A command is killed, an archive perhaps while it writes.
Killed(c) ==
  /\ left[c] # <<>>
  /\ left' = [left EXCEPT ![c] = <<>>]
  /\ Forgets(c)
  /\ \/ UNCHANGED file
     \/ Head(left[c]) = "write" /\ file' = [file EXCEPT !["archive"] = Torn]
  /\ UNCHANGED <<manifest, commands>>

Maintains ==
  \/ \E c \in Commands : Killed(c)
  \/ ArchiveLists \/ ArchiveVerifies \/ ArchiveWrites \/ ArchiveSigns
  \/ BackupUnlinks \/ BackupBeginsCopy \/ BackupEndsCopy \/ BackupSigns
  \/ RestoreCopies

MNext ==
  \/ Next /\ UNCHANGED mvars
  \/ Maintains /\ UNCHANGED vars

MSpec == MInit /\ [][MNext]_<<vars, mvars>>

MFairSpec == MSpec /\ Fairness

-----------------------------------------------------------------------------
(* Properties.                                                             *)

Last(table) == IF table = {} THEN 0 ELSE Newest(table).sequence

\* Entries that follow each other, each with its own hash and the hash of the
\* one before.
IsSegment(table) ==
  \A r \in table :
    /\ HashHolds(r)
    /\ \A q \in table : q.sequence + 1 = r.sequence => r.previous = q.hash
    /\ r.sequence = Last(table) \/ \E q \in table : q.sequence = r.sequence + 1

\* An archive whose digest its manifest carries is an unbroken piece of the
\* chain, and when the manifest calls the chain valid, every archived entry was
\* among those checked (unless the store was reset between the two reads),
\* however many were appended meanwhile and wherever earlier commands were killed.
ArchiveIsVerified ==
  LET archived == file["archive"]
      signed == manifest["archive"]
  IN archived # Absent /\ signed.digest = archived =>
       /\ archived.is = "whole" /\ IsSegment(archived.rows)
       /\ signed.valid
       /\ archived.epoch = signed.verified_at => Last(archived.rows) <= signed.checked
       /\ archived.epoch = resets => archived.rows \subseteq rows

\* A restored file with the digest of the backup's manifest is a database the
\* store really was, with whole transactions: its chain verifies and, unless
\* the store was reset since, it is the live table up to an entry.  (Without the manifest
\* this is not so: sqlite-restore calls the copy of a cut backup verified.  Nor is it said
\* of two backups to one path at once, where one could sign what the other half wrote.)
RestoredIsAPastStore ==
  LET restored == file["restored"] IN
  restored # Absent /\ manifest["backup"].digest = restored =>
    /\ restored.is = "whole" /\ Valid(restored.rows)
    /\ restored.epoch = resets =>
         restored.rows = {r \in rows : r.sequence <= Last(restored.rows)}
=============================================================================
