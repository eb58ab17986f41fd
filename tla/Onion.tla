-------------------------------- MODULE Onion -------------------------------
(***************************************************************************)
(* The identity and its publication (src/src/tor.rs): the key file, the    *)
(* Tor daemon with the control connection that keeps the onion service     *)
(* alive (detach = false), and the supervisor that republishes it.         *)
(***************************************************************************)
EXTENDS Files

CONSTANTS
  Key,    \* secret keys; a key is its onion address
  NoKey

ASSUME KeyAssumption == Absent \notin Key /\ Torn \notin Key /\ NoKey \notin Key

VARIABLES
  keyFile,     \* the identity file
  key,         \* the key of the running process
  tor,         \* the Tor daemon runs
  control,     \* the process's control connection
  service,     \* the onion Tor publishes for this host
  supervisor,  \* what the supervisor task does
  announced    \* history: addresses published since the key was last deleted

onionVars == <<keyFile, key, tor, control, service, supervisor, announced>>

OnionTypeOK ==
  /\ keyFile \in Key \cup {Absent, Torn}
  /\ key \in Key \cup {NoKey}
  /\ tor \in BOOLEAN
  /\ control \in {"none", "live", "dead"}
  /\ service \in Key \cup {NoKey}
  /\ supervisor \in {"none", "watch", "retry"}
  /\ announced \subseteq Key
  /\ service # NoKey => service = key /\ control = "live" /\ tor

OnionInit ==
  /\ keyFile = Absent
  /\ key = NoKey
  /\ tor \in BOOLEAN
  /\ control = "none"
  /\ service = NoKey
  /\ supervisor = "none"
  /\ announced = {}

-----------------------------------------------------------------------------
(* load_or_generate_key.  A torn or unreadable file is an error: the start *)
(* ends with nothing changed.                                              *)

LoadKey ==
  /\ keyFile \in Key
  /\ key' = keyFile
  /\ UNCHANGED <<keyFile, tor, control, service, supervisor, announced>>

GenerateKey ==
  /\ keyFile = Absent
  /\ key' \in Key
  /\ UNCHANGED <<keyFile, tor, control, service, supervisor, announced>>

OpenKeyFile ==
  /\ Open(keyFile)
  /\ UNCHANGED <<key, tor, control, service, supervisor, announced>>

WriteKeyFile ==
  /\ WriteAll(keyFile, key)
  /\ UNCHANGED <<key, tor, control, service, supervisor, announced>>

-----------------------------------------------------------------------------
(* connect_and_publish and supervise.                                      *)

\* A control connection, authenticated, on which ADD_ONION succeeded.
connect_and_publish ==
  /\ tor
  /\ control' = "live"
  /\ service' = key
  /\ announced' = announced \cup {key}
  /\ supervisor' = "watch"
  /\ UNCHANGED <<keyFile, key, tor>>

\* Fault: the supervisor returns when the connection is lost.
ProbeGivesUp ==
  /\ supervisor = "watch"
  /\ control = "dead"
  /\ supervisor' = "none"
  /\ UNCHANGED <<keyFile, key, tor, control, service, announced>>

\* noop() fails on a dead connection; on a live one nothing changes.
Probe ==
  /\ supervisor = "watch"
  /\ control = "dead"
  /\ supervisor' = "retry"
  /\ UNCHANGED <<keyFile, key, tor, control, service, announced>>

\* An attempt that fails leaves all as it is, for the next one.
Republish == supervisor = "retry" /\ connect_and_publish

supervise == Probe \/ Republish

-----------------------------------------------------------------------------
(* Tor, and the user's hand on the key file.                               *)

TorStarts ==
  /\ ~tor
  /\ tor' = TRUE
  /\ UNCHANGED <<keyFile, key, control, service, supervisor, announced>>

\* The connection dies, by itself or with the daemon, and the service with it.
ConnectionDies ==
  /\ tor' \in {tor, FALSE}
  /\ control' = IF control = "live" THEN "dead" ELSE control
  /\ service' = NoKey
  /\ UNCHANGED <<keyFile, key, supervisor, announced>>

\* Fault: the service is published with detach = true.
TearDownDetached ==
  /\ key' = NoKey
  /\ control' = "none"
  /\ supervisor' = "none"
  /\ UNCHANGED <<keyFile, tor, service, announced>>

\* The process ends: its connection closes and Tor tears the service down.
TearDown ==
  /\ key' = NoKey
  /\ control' = "none"
  /\ service' = NoKey
  /\ supervisor' = "none"
  /\ UNCHANGED <<keyFile, tor, announced>>

\* The documented way to a new address, and out of a torn file.
DeleteKey ==
  /\ keyFile # Absent
  /\ keyFile' = Absent
  /\ announced' = {}
  /\ UNCHANGED <<key, tor, control, service, supervisor>>
=============================================================================
