----------------------------- MODULE Certificates -----------------------------
(***************************************************************************)
(* The certificates of the tunnel listener (pkg/tunnel/tunnel.go): what    *)
(* New loads, what the listener captures, and the watcher that reloads     *)
(* the pair when the certificate file is written.                          *)
(*                                                                         *)
(* A pair is named by the number of its renewal, its generation.  The two  *)
(* files are renewed by an operator, one after the other and in either     *)
(* order; the certificate in place, which truncates it first, or by        *)
(* renaming a new file over it.                                            *)
(***************************************************************************)
EXTENDS Naturals, Configuration

CONSTANT MaxGen  \* bound on the renewals of each file

ASSUME MaxGenAssumption == MaxGen \in Nat \ {0}

VARIABLES
  config,         \* the names of the two files, as loaded
  certFile,       \* generation of the certificate file
  torn,           \* the certificate file is truncated and not yet rewritten
  keyFile,        \* generation of the key file
  watched,        \* the watch is on the file that certFile names now
  notified,       \* a Write event waits in watcher.Events
  watcher,        \* where watchCerts is
  gotCert,        \* generation of the certificate a load has read
  tlsConfig,      \* generation of the pair in s.tlsConfig
  listenerConfig  \* generation of the pair the listener was started with

certVars == <<config, certFile, torn, keyFile, watched, notified, watcher,
              gotCert, tlsConfig, listenerConfig>>

NoPair == 0
DevPair == MaxGen + 1  \* the pair of generateDevCertificate
Gen == 1 .. MaxGen

CertTypeOK ==
  /\ config \in Source
  /\ certFile \in Gen
  /\ torn \in BOOLEAN
  /\ keyFile \in Gen
  /\ watched \in BOOLEAN
  /\ notified \in BOOLEAN
  /\ watcher \in {"off", "adding", "waiting", "loading", "exited"}
  /\ gotCert \in {NoPair} \cup Gen
  /\ tlsConfig \in Gen \cup {DevPair}
  /\ listenerConfig \in {NoPair, DevPair} \cup Gen

(* New has loaded the configuration and the pair and started watchCerts.   *)
(* A pair that does not load ends New with an error, and there is no       *)
(* server.                                                                 *)
CertInit ==
  /\ certFile = 1
  /\ torn = FALSE
  /\ keyFile = 1
  /\ watched = FALSE
  /\ notified = FALSE
  /\ gotCert = NoPair
  /\ listenerConfig = NoPair
  /\ \E env, file \in Source : config = Unmarshal(env, file)
  /\ Loads(config)
  /\ tlsConfig = IF IsDevelopment(config) THEN DevPair ELSE 1
  /\ watcher = IF IsDevelopment(config) THEN "off" ELSE "adding"

-----------------------------------------------------------------------------
(***************************************************************************)
(* The operator.                                                           *)
(***************************************************************************)

(* The watch is on the certificate file only. *)
RenewKey ==
  /\ keyFile < MaxGen
  /\ keyFile' = keyFile + 1
  /\ UNCHANGED <<config, certFile, torn, watched, notified, watcher, gotCert,
                 tlsConfig, listenerConfig>>

TruncateCert ==
  /\ ~torn
  /\ certFile < MaxGen
  /\ certFile' = certFile + 1
  /\ torn' = TRUE
  /\ notified' = (notified \/ watched)
  /\ UNCHANGED <<config, keyFile, watched, watcher, gotCert, tlsConfig,
                 listenerConfig>>

WriteCert ==
  /\ torn
  /\ torn' = FALSE
  /\ notified' = (notified \/ watched)
  /\ UNCHANGED <<config, certFile, keyFile, watched, watcher, gotCert,
                 tlsConfig, listenerConfig>>

(* The old file goes, and the watch with it; a rename is no Write event. *)
RenameCert ==
  /\ ~torn
  /\ certFile < MaxGen
  /\ certFile' = certFile + 1
  /\ watched' = FALSE
  /\ UNCHANGED <<config, torn, keyFile, notified, watcher, gotCert, tlsConfig,
                 listenerConfig>>

-----------------------------------------------------------------------------
(***************************************************************************)
(* The server.                                                             *)
(***************************************************************************)

(* Start: tls.Listen keeps the configuration it is given. *)
CaptureConfig == listenerConfig' = tlsConfig

(* watcher.Add, some time after New has returned. *)
AddWatch ==
  /\ watcher = "adding"
  /\ watcher' = "waiting"
  /\ watched' = TRUE
  /\ UNCHANGED <<config, certFile, torn, keyFile, notified, gotCert, tlsConfig,
                 listenerConfig>>

(* A Write event; LoadX509KeyPair reads the certificate first, *)
ReadCert ==
  /\ watcher = "waiting"
  /\ notified
  /\ notified' = FALSE
  /\ watcher' = "loading"
  /\ gotCert' = IF torn THEN NoPair ELSE certFile
  /\ UNCHANGED <<config, certFile, torn, keyFile, watched, tlsConfig,
                 listenerConfig>>

(* Mutation of LoadPair: the watcher returns when a pair does not load. *)
LoadPairOrReturn ==
  /\ watcher = "loading"
  /\ watcher' = IF gotCert = keyFile THEN "waiting" ELSE "exited"
  /\ gotCert' = NoPair
  /\ tlsConfig' = IF gotCert = keyFile THEN gotCert ELSE tlsConfig
  /\ UNCHANGED <<config, certFile, torn, keyFile, watched, notified,
                 listenerConfig>>

(* and then the key; a pair that does not match is an error, which is      *)
(* logged.                                                                 *)
LoadPair ==
  /\ watcher = "loading"
  /\ watcher' = "waiting"
  /\ gotCert' = NoPair
  /\ tlsConfig' = IF gotCert = keyFile THEN gotCert ELSE tlsConfig
  /\ UNCHANGED <<config, certFile, torn, keyFile, watched, notified,
                 listenerConfig>>

(* The context is done. *)
WatcherExits ==
  /\ watcher = "waiting"
  /\ watcher' = "exited"
  /\ watched' = FALSE
  /\ UNCHANGED <<config, certFile, torn, keyFile, notified, gotCert, tlsConfig,
                 listenerConfig>>
==============================================================================
