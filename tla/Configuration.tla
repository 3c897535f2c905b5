---------------------------- MODULE Configuration ----------------------------
(***************************************************************************)
(* Loading the listener's configuration (pkg/config/config.go): where the  *)
(* value of a key comes from, and which configurations Load refuses.       *)
(*                                                                         *)
(* A path is the name of a certificate or key file, or Unset, the empty    *)
(* string.  Load and LoadBytes differ in where the file values come from   *)
(* and not in what becomes of them.                                        *)
(***************************************************************************)
CONSTANTS
  Path,     \* file names
  Present,  \* the files that exist
  Unset     \* the empty string, which is also the default of both keys

ASSUME PathAssumption == Present \subseteq Path /\ Unset \notin Path

(* One configuration as its two sources give it. *)
Source == [certFile : Path \cup {Unset}, keyFile : Path \cup {Unset}]

(* AutomaticEnv and BindEnv: a variable of the environment that is not     *)
(* empty wins over the file, which wins over the default.                  *)
Effective(env, file) == IF env # Unset THEN env ELSE file

Unmarshal(env, file) ==
  [certFile |-> Effective(env.certFile, file.certFile),
   keyFile  |-> Effective(env.keyFile, file.keyFile)]

(* os.Stat of the files that are named. *)
FilesExist(cfg) == {cfg.certFile, cfg.keyFile} \subseteq Present \cup {Unset}

(* Mutation of Loads: only the certificate is looked at. *)
LoadsHalfPair(cfg) == FilesExist(cfg)

(* loadFromViper returns no error. *)
Loads(cfg) ==
  /\ (cfg.certFile = Unset) <=> (cfg.keyFile = Unset)
  /\ FilesExist(cfg)

(* New serves a generated pair if either name is missing. *)
IsDevelopment(cfg) == cfg.certFile = Unset \/ cfg.keyFile = Unset
==============================================================================
