------------------------------- MODULE Config -------------------------------
(***************************************************************************)
(* config.Load and validateConfig (internal/config): which file is read,   *)
(* and which settings are accepted.  Both are functions of the command     *)
(* line, the environment and the file system, so the module has operators  *)
(* and no state; Lifecycle starts a node with them.                        *)
(***************************************************************************)

\* What a path leads to: nothing, something os.Stat cannot look at, a file that
\* is not a readable YAML document, or a configuration file.
FileStates == {"absent", "hidden", "malformed", "valid"}

\* The --config flag and $LATENT_CONFIG_PATH may also be empty.
Options == FileStates \cup {"unset"}

\* Flag, then variable, then the system's file if os.Stat finds one.
ActivePath(flag, env, system) ==
    IF flag # "unset" THEN flag
    ELSE IF env # "unset" THEN env
    ELSE IF system \in {"malformed", "valid"} THEN system ELSE "none"

\* Every problem of the active file ends Load; without one the defaults and the
\* environment are the configuration.
FileAccepted(flag, env, system) == ActivePath(flag, env, system) \in {"none", "valid"}

\* storage.provider as it may be written; the others that Load validates, by
\* whether they are set: the bucket of the provider, host and name of the
\* database, and the first Valkey endpoint.
Spellings == {"", "s3", "S3", "gcs", "GCS", "other"}

Settings == [provider : Spellings, bucket : BOOLEAN, database : BOOLEAN, endpoint : BOOLEAN]

\* strings.ToLower
Lower(p) == IF p = "S3" THEN "s3" ELSE IF p = "GCS" THEN "gcs" ELSE p

Validate(c) == /\ Lower(c.provider) \in {"s3", "gcs"}
               /\ c.bucket
               /\ c.database
               /\ c.endpoint
=============================================================================
