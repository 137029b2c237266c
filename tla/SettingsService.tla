-------------------------- MODULE SettingsService --------------------------
(***************************************************************************)
(* The server side of the settings: commit, token wipe and reset behind    *)
(* the settings_operation wrapper (routes/settings_api.py), with the files *)
(* and the receipts ConfigManager keeps (config_loader.py).                *)
(*                                                                         *)
(* Every handler runs inside settings_transaction, so each is one action.  *)
(* Two controls stand for all: `model`, an ordinary field of a provider,   *)
(* and `key`, its token, which lives in a file of its own and is shown     *)
(* masked.  A value the user typed is the number of that edit, so that a   *)
(* value tells when it was typed; Default is the field's default and Empty *)
(* no token.  Which drafts validation refuses is a constant.  Left out are  *)
(* the epoch, which changes only when the application restarts, page       *)
(* included, and the digest of a request: the page sends an id with one    *)
(* body only.                                                              *)
(***************************************************************************)
EXTENDS Integers, Sequences

CONSTANTS Ids,         \* ids a page can make up for its operations
          Retained,    \* RETAINED_RECEIPTS (64)
          Refused,     \* typed values of `model` that validation refuses
          MaxMishaps   \* bound on failing writes

ASSUME ServiceAssumption ==
  /\ Ids \subseteq Nat \ {0} /\ Refused \subseteq Nat \ {0}
  /\ Retained \in Nat \ {0} /\ MaxMishaps \in Nat

VARIABLES
  disk,             \* settings.json: is it there, can it be read, the value of `model`
  token,            \* the token file
  backups,          \* the backup files, in the order of their names
  backup_path,      \* the number of the backup the last reset named, or NoBackup
  revision, expired_through, receipts, token_wipes, reset_revision,
  mishaps,          \* how many writes have failed
  executed,         \* history: how often an id was dealt with as new
  applied           \* history: ids whose operation reached the disk whole

fileVars == <<disk, token, backups, backup_path>>
operationVars == <<revision, expired_through, receipts, token_wipes, reset_revision>>
serviceVars == <<fileVars, operationVars, mishaps, executed, applied>>

Default == 0
Empty == 0
Mask == -1
NoBackup == 0
Controls == {"model", "key"}
Statuses == {"success", "error", "superseded", "fatal", "unknown"}

File(there, broken, model) == [there |-> there, broken |-> broken, model |-> model]
DefaultsFile == File(TRUE, FALSE, Default)
NoFile == File(FALSE, FALSE, Default)

\* settings_snapshot; a file that cannot be read is shown as the defaults.
settings_snapshot ==
  [revision |-> revision,
   model |-> IF disk.broken THEN Default ELSE disk.model, broken |-> disk.broken,
   key |-> IF token = Empty THEN Empty ELSE Mask,
   token_wipes |-> token_wipes, reset_revision |-> reset_revision, backup_path |-> backup_path]

Init ==
  /\ disk \in {DefaultsFile, File(TRUE, TRUE, Default)}
  /\ token = Empty /\ backups = << >> /\ backup_path = NoBackup
  /\ revision = 0 /\ expired_through = -1 /\ receipts = << >>
  /\ token_wipes = 0 /\ reset_revision = 0 /\ mishaps = 0
  /\ executed = [id \in Ids |-> 0] /\ applied = {}

-----------------------------------------------------------------------------
(* The wrapper: receipts and revisions *)

\* The receipts are an ordered dictionary: one receipt for an id.
Receipts(op) == {i \in DOMAIN receipts : receipts[i].id = op.id}
Receipt(op) == receipts[CHOOSE i \in Receipts(op) : TRUE]

\* Mutant: a request is new whenever there is no receipt for it.
IsNewWithoutReceipt(op) == Receipts(op) = {}

IsNew(op) == Receipts(op) = {} /\ op.base > expired_through

\* The wrapper answers from the receipt, with the settings as they are now.
Repeated(op) ==
  /\ Receipts(op) # {}
  /\ UNCHANGED serviceVars

\* No receipt, and one of an operation as old as this has been dropped.
Forgotten(op) ==
  /\ Receipts(op) = {} /\ ~IsNew(op)
  /\ UNCHANGED serviceVars

Remember(op, status) ==
  LET all == Append(receipts, [id |-> op.id, status |-> status, base |-> op.base])
  IN  IF Len(all) <= Retained
      THEN receipts' = all /\ UNCHANGED expired_through
      ELSE /\ receipts' = Tail(all)
           /\ expired_through' = IF all[1].base > expired_through THEN all[1].base
                                 ELSE expired_through

\* What follows every handler, whatever it answered.
Settle(op, status) ==
  /\ revision' = revision + 1
  /\ token_wipes' = IF op.kind = "wipe" /\ status = "success" THEN revision + 1 ELSE token_wipes
  /\ reset_revision' = IF op.kind = "reset" THEN revision + 1 ELSE reset_revision
  /\ Remember(op, status)
  /\ executed' = [executed EXCEPT ![op.id] = @ + 1]
  /\ applied' = IF status = "success" THEN applied \cup {op.id} ELSE applied

Mishap == mishaps < MaxMishaps /\ mishaps' = mishaps + 1

-----------------------------------------------------------------------------
(* commit_settings *)

Outdated(op) == op.kind = "commit" /\ op.base # revision

Superseded(op) ==
  /\ IsNew(op) /\ Outdated(op)
  /\ UNCHANGED <<fileVars, mishaps>>
  /\ Settle(op, "superseded")

Commits(op) == op.kind = "commit" /\ IsNew(op) /\ ~Outdated(op)
Edited(op) == DOMAIN op.edits
NewModel(op) == IF "model" \in Edited(op) THEN op.edits.model ELSE disk.model

\* real_token_updates: an emptied or masked token field changes nothing.
NewToken(op) == IF "key" \in Edited(op) /\ op.edits.key > 0 THEN op.edits.key ELSE token
WritesToken(op) == NewToken(op) # token

Valid(op) == ~disk.broken /\ NewModel(op) \notin Refused

CommitRefused(op) ==
  /\ Commits(op) /\ ~Valid(op)
  /\ UNCHANGED <<fileVars, mishaps>>
  /\ Settle(op, "error")

Saved(op) == disk' = File(TRUE, FALSE, NewModel(op)) /\ UNCHANGED backups

\* The settings file first, then the token file.
Commit(op) ==
  /\ Commits(op) /\ Valid(op)
  /\ Saved(op) /\ token' = NewToken(op) /\ backup_path' = NoBackup
  /\ UNCHANGED mishaps
  /\ Settle(op, "success")

SettingsNotSaved(op) ==
  /\ Commits(op) /\ Valid(op) /\ Mishap
  /\ UNCHANGED fileVars
  /\ Settle(op, "fatal")

TokenNotSaved(op) ==
  /\ Commits(op) /\ Valid(op) /\ WritesToken(op) /\ Mishap
  /\ Saved(op)
  /\ UNCHANGED <<token, backup_path>>
  /\ Settle(op, "fatal")

-----------------------------------------------------------------------------
(* wipe_token *)

Wipes(op) == op.kind = "wipe" /\ IsNew(op)

WipeToken(op) ==
  /\ Wipes(op)
  /\ token' = Empty
  /\ UNCHANGED <<disk, backups, backup_path, mishaps>>
  /\ Settle(op, "success")

TokenNotWiped(op) ==
  /\ Wipes(op) /\ Mishap
  /\ UNCHANGED fileVars
  /\ Settle(op, "fatal")

-----------------------------------------------------------------------------
(* reset_settings *)

Resets(op) == op.kind = "reset" /\ IsNew(op)

\* Mutant: a backup named before is enough, whatever has been saved since.
AlreadyResetSinceBackup == backup_path \in DOMAIN backups

\* Reset again over the defaults of the last one: its backup is the one to name.
AlreadyReset == backup_path \in DOMAIN backups /\ disk = DefaultsFile

FreeBackup == Len(backups) + 1

MovedAside ==
  backups' = IF AlreadyReset \/ ~disk.there THEN backups ELSE Append(backups, disk)

ResetSettings(op) ==
  /\ Resets(op)
  /\ MovedAside /\ disk' = DefaultsFile
  /\ backup_path' = IF AlreadyReset THEN backup_path ELSE FreeBackup
  /\ UNCHANGED <<token, mishaps>>
  /\ Settle(op, "success")

\* The file cannot be renamed, or the defaults cannot be written after it was.
NotMoved(op) ==
  /\ Resets(op) /\ ~AlreadyReset /\ disk.there /\ Mishap
  /\ UNCHANGED fileVars
  /\ Settle(op, "error")

DefaultsNotSaved(op) ==
  /\ Resets(op) /\ Mishap
  /\ MovedAside /\ disk' = IF AlreadyReset THEN disk ELSE NoFile
  /\ UNCHANGED <<token, backup_path>>
  /\ Settle(op, "error")

-----------------------------------------------------------------------------
Succeeds(op) == Commit(op) \/ WipeToken(op) \/ ResetSettings(op)
Errs(op) == CommitRefused(op) \/ NotMoved(op) \/ DefaultsNotSaved(op)
Fails(op) == SettingsNotSaved(op) \/ TokenNotSaved(op) \/ TokenNotWiped(op)

=============================================================================
