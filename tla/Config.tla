---------------------------------- MODULE Config ----------------------------------
(***************************************************************************)
(* The configuration: what config.validate accepts in a mode, and what the *)
(* program makes of it (api.SetupStorage, getWriteExt).                    *)
(*                                                                         *)
(* A text field is reduced to the values the code tells apart: a group of  *)
(* required fields that are all set or not is a BOOLEAN, a duration a      *)
(* number or Unparsable.  Environment expansion, JSON and YAML decoding    *)
(* and the fields no check looks at are left out.                          *)
(***************************************************************************)
EXTENDS Integers

Unparsable == -1
Nil == -1
Modes == {"receive", "serve"}    \* the modes of the daemon

MainConfigs == [listen_port: {0, 1}, directory: BOOLEAN]
ReceiverConfigs == [slot: BOOLEAN, sync_interval: {Unparsable, 0, 1}, max_concurrency: {0, 1}]
\* s3, sftp: the required fields are set; auth: what the sftp section offers.
StorageConfigs ==
    [name: {"", "local", "LOCAL", "s3", "S3", "sftp", "other"}, s3: BOOLEAN, sftp: BOOLEAN,
     auth: SUBSET {"pass", "pkey_path"},
     compression: {"", "gzip", "zstd", "other"},
     encryption: {"", "aes-256-gcm", "other"}, pass: BOOLEAN]
RetentionConfigs ==
    [enable: BOOLEAN, type: {"", "recovery_window", "other"}, value: {Unparsable, 0, 1},
     keep_last: {Nil, 0, 1}]
Crons == {"", "valid", "invalid"}    \* backup.cron, as cron.AddFunc takes it
LogConfigs == [level: {"", "info", "INFO", "other"}, format: {"", "json", "other"}]

\* IsLocalStor: strings.EqualFold, where checkStorageConfig compares exactly.
IsLocalStor(s) == s.name \in {"", "local", "LOCAL"}
NeedsUploader(s) == ~IsLocalStor(s) \/ s.compression # "" \/ s.encryption # ""

-----------------------------------------------------------------------------
(***************************************************************************)
(* The checks.  Only the mode receive looks at its own section.            *)
(***************************************************************************)
checkMainConfig(m) == m.listen_port # 0 /\ m.directory
checkReceiverConfig(r, s, md) ==
    md = "receive" =>
        /\ r.slot
        /\ NeedsUploader(s) => r.sync_interval # Unparsable /\ r.max_concurrency > 0

\* Mutant: an algorithm nobody knows is no error.
checkStorageModifiersConfigLax(s) == s.encryption # "" => s.pass

checkStorageModifiersConfig(s) ==
    /\ s.compression \in {"", "gzip", "zstd"}
    /\ s.encryption # "" => s.encryption = "aes-256-gcm" /\ s.pass
checkStorageConfig(s) ==
    \/ s.name \in {"", "local"}
    \/ s.name = "s3" /\ s.s3
    \/ s.name = "sftp" /\ s.sftp /\ s.auth # {}
checkRetentionConfig(t) ==
    t.enable =>
        /\ t.type \in {"", "recovery_window"}
        /\ t.value # Unparsable /\ t.value > 0
        /\ t.keep_last # Nil => t.keep_last > 0
checkLogConfig(l) == l.level \in {"", "info", "INFO"} /\ l.format \in {"", "json"}
checkBackupConfig(cron) == cron # ""

-----------------------------------------------------------------------------
(***************************************************************************)
(* What is made of it.  The sftp client knows private keys only.           *)
(***************************************************************************)
SetupStorage(s) ==
    CASE IsLocalStor(s) -> "local"
      [] s.name = "sftp" -> IF "pkey_path" \in s.auth THEN "sftp" ELSE "nokey"
      [] s.name \in {"s3", "S3"} -> "s3"
      [] OTHER -> "unknown"

getWriteExt(s) ==
    [compression |-> IF s.compression \in {"gzip", "zstd"} THEN s.compression ELSE "",
     aes |-> s.encryption = "aes-256-gcm"]

\* The interval and the number of workers of the archive supervisor: both have defaults.
uploadInterval(r) == IF r.sync_interval > 0 THEN r.sync_interval ELSE 1
workerCount(r) == IF r.max_concurrency > 0 THEN r.max_concurrency ELSE 1

\* The configuration as the running program meets it; plain: a wish that is not met.
Use(r, s, t, cron) ==
    [backend |-> SetupStorage(s), cron |-> cron,
     ext |-> getWriteExt(s),
     plain |-> \/ s.compression # getWriteExt(s).compression
               \/ (s.encryption # "") # getWriteExt(s).aes
               \/ s.encryption # "" /\ ~s.pass,
     works |-> /\ uploadInterval(r) > 0 /\ workerCount(r) > 0
               /\ t.enable => t.value > 0 /\ t.keep_last # 0]

\* validate: the sections nothing else depends on, and what the others come to.
ValidElsewhere == \E m \in MainConfigs, l \in LogConfigs :
    checkMainConfig(m) /\ checkLogConfig(l)

Accepted(md) ==
    LET storages == {s \in StorageConfigs :
                       checkStorageConfig(s) /\ checkStorageModifiersConfig(s)}
        retentions == {t \in RetentionConfigs : checkRetentionConfig(t)}
        crons == {cron \in Crons : checkBackupConfig(cron)}
        sections == {x \in ReceiverConfigs \X storages \X retentions \X crons :
                       checkReceiverConfig(x[1], x[2], md)}
    IN  IF ValidElsewhere THEN {Use(x[1], x[2], x[3], x[4]) : x \in sections} ELSE {}

acceptedReceive == Accepted("receive")
acceptedServe == Accepted("serve")
validate(md) == IF md = "receive" THEN acceptedReceive ELSE acceptedServe
=================================================================================
