------------------------------ MODULE MCSessions ------------------------------
(* The small components for TLC: the meeting bridge's lock table (NameLock,    *)
(* whose names are this module's own), the transcript sync, the ambient        *)
(* bridge's connections and the two halves of the Codex bridge.  They share no *)
(* state, so one run checks them side by side: MCInit picks one, which moves   *)
(* while the others stay put, and the states are the sum of theirs instead of  *)
(* the product.                                                                *)
EXTENDS NameLock

CONSTANTS
    MaxTurns, MaxPersists, MaxAttempts, MaxPostFaults,   \* of TranscriptSync
    Connections, DarkThreshold, MaxDark,                 \* of AmbientListen
    StateDirs, Builds, Pythons, MaxUpdates,              \* of CodexRelay
    Versions, Incompatible, MaxNpm, MaxSyncFaults        \* of CodexManaged

(* Counts are numbers, a first attempt is made, a dark period takes time, and  *)
(* the names that stand for nobody are nobody's.                               *)
ASSUME SyncAssumption == MaxTurns \in Nat /\ MaxPersists \in Nat /\ MaxAttempts \in Nat \ {0}
ASSUME ListenAssumption == DarkThreshold \in Nat \ {0} /\ MaxDark \in Nat /\ "none" \notin Connections
ASSUME RelayAssumption == "nobody" \notin StateDirs

VARIABLES
    turns, sessionId, base, lastTurnCount, posts, persists, postFaults, transcripts, fallback, unsaved, alive,
    handler, socket, cloud, mode, pointer, clients, dark, darkCounted, darkEvents, darkPeriods,
    native, helper, backups, python, relayConfig, op, helperLock, updates,
    installed, torn, settings, published, syncing, unitOn, retryDue, remove, npms, syncFaults,
    which  \* the component that moves

Sync == INSTANCE TranscriptSync
Listen == INSTANCE AmbientListen WITH Handlers <- Connections
Relay == INSTANCE CodexRelay WITH UpdatesAnytime <- FALSE
Managed == INSTANCE CodexManaged

syncVars == <<turns, sessionId, base, lastTurnCount, posts, persists, postFaults, transcripts, fallback,
              unsaved, alive>>
listenVars == <<handler, socket, cloud, mode, pointer, clients, dark, darkCounted, darkEvents, darkPeriods>>
relayVars == <<native, helper, backups, python, relayConfig, op, helperLock, updates>>
managedVars == <<installed, torn, settings, published, syncing, unitOn, retryDue, remove, npms, syncFaults>>
mcVars == <<which, vars, syncVars, listenVars, relayVars, managedVars>>

(* A component with several initial states varies while it is the one.         *)
MCInit ==
    /\ which \in {"lock", "sync", "listen", "relay", "managed"}
    /\ Init /\ Sync!Init /\ Listen!Init /\ Relay!Init /\ Managed!Init
    /\ which # "relay" => native = (CHOOSE b \in Builds : TRUE) /\ python = (CHOOSE p \in Pythons : TRUE)
    /\ which # "managed" => installed = CHOOSE b \in Versions : TRUE

MCNext ==
    \/ which = "lock" /\ Next /\ UNCHANGED <<which, syncVars, listenVars, relayVars, managedVars>>
    \/ which = "sync" /\ Sync!Next /\ UNCHANGED <<which, vars, listenVars, relayVars, managedVars>>
    \/ which = "listen" /\ Listen!Next /\ UNCHANGED <<which, vars, syncVars, relayVars, managedVars>>
    \/ which = "relay" /\ Relay!Next /\ UNCHANGED <<which, vars, syncVars, listenVars, managedVars>>
    \/ which = "managed" /\ Managed!Next /\ UNCHANGED <<which, vars, syncVars, listenVars, relayVars>>
MCSpec == MCInit /\ [][MCNext]_mcVars /\ Fairness /\ Listen!Fairness

-----------------------------------------------------------------------------
(* The modules' properties, each stated where it is defined.                   *)

(* Every variable of every component stays within its type.                    *)
TypesOK == TypeOK /\ Sync!TypeOK /\ Listen!TypeOK /\ Relay!TypeOK /\ Managed!TypeOK

(* TranscriptSync: no turn handed over is lost while the process lives and     *)
(* files can be written, and none reaches Genesis twice.                       *)
EachTurnOnce == Sync!EachTurnOnce

(* AmbientListen: overlapping connections confuse neither pointer nor counts.  *)
OverlapHarmless == Listen!OverlapHarmless

(* AmbientListen: while the mode stays passive every cloud session is closed.  *)
CloudEnds == Listen!CloudEnds

(* CodexRelay: a replaced helper keeps its original, beside it.               *)
OriginalKept == Relay!OriginalKept

(* CodexManaged: what the launcher starts is whole and qualified.              *)
PreparedBuilds == Managed!PreparedBuilds
=============================================================================
