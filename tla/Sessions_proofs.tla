---------------------------- MODULE Sessions_proofs ----------------------------
(***************************************************************************)
(* Proofs about the components that MCSessions checks side by side: the    *)
(* transcript sync, the ambient connections, the Codex relay's installer   *)
(* and its managed updater, for any number of turns, posts, connections,   *)
(* builds, state directories and faults.                                   *)
(***************************************************************************)
EXTENDS MCSessions, NameLock_proofs

\* A step of the whole is a step of each component, or leaves it alone.
LEMMA StepOfEach ==
  ASSUME [MCNext]_mcVars
  PROVE  /\ [Next]_vars /\ [Sync!Next]_syncVars /\ [Listen!Next]_listenVars
         /\ [Relay!Next]_relayVars /\ [Managed!Next]_managedVars
         /\ UNCHANGED which
BY DEF MCNext, mcVars, vars, syncVars, listenVars, relayVars, managedVars

-----------------------------------------------------------------------------
(* CodexManaged: the managed updater *)

Configs ==
  [enabled : BOOLEAN, ready : Versions \cup {0}, status : {"pending", "ready", "held", "disabled"},
   attempted : Versions \cup {0}]
Syncs ==
  [step : {"none", "begin", "prepare", "published", "qualify"}, build : Versions \cup {0}, cfg : Configs]

\* What a configuration calls ready is published.
Published(c) == c.ready # 0 => c.ready \in published

\* The updater's own copy of the configuration is no further than the disk, and past the
\* rename, or where a build is only checked again, its build is published.
ManagedInv ==
  /\ installed \in Versions /\ published \subseteq Versions \ Incompatible
  /\ settings \in Configs /\ syncing \in Syncs
  /\ remove \in {"none", "disabled", "stopped", "restored", "done", "died"}
  /\ Published(settings) /\ Published(syncing.cfg)
  /\ syncing.step \in {"published", "qualify"} => syncing.build \in published
  /\ syncing.step = "prepare" => syncing.build \in Versions

LEMMA ManagedInit == Managed!Init => ManagedInv
BY DEF Managed!Init, ManagedInv, Managed!NoSync, Managed!NoBuild, Configs, Syncs, Published

\* Every command keeps the invariant, npm's included, which may replace the package at any time.
LEMMA ManagedStep == ManagedInv /\ [Managed!Next]_managedVars => ManagedInv'
<1> SUFFICES ASSUME ManagedInv, [Managed!Next]_managedVars PROVE ManagedInv'
  OBVIOUS
<1>0. /\ syncing.step \in {"none", "begin", "prepare", "published", "qualify"}
      /\ syncing.build \in Versions \cup {0} /\ syncing.cfg \in Configs
      /\ syncing.cfg.ready \in Versions \cup {0}
  BY DEF ManagedInv, Syncs, Configs
<1>1. ASSUME NEW c \in Configs, NEW s \in {"pending", "held", "ready"}
      PROVE  [c EXCEPT !.status = s] \in Configs /\ [c EXCEPT !.status = s].ready = c.ready
  BY DEF Configs
\* The configuration that a sync writes at its end.
<1>2. ASSUME NEW s \in {"pending", "held"}, Managed!Done(Managed!Outcome(s)), UNCHANGED published,
             UNCHANGED <<installed, remove>>
      PROVE  ManagedInv'
  <2>1. settings' \in Configs /\ settings'.ready = syncing.cfg.ready
    BY <1>0, <1>1, <1>2 DEF Managed!Done, Managed!Outcome
  <2>2. syncing' = Managed!NoSync
    BY <1>2 DEF Managed!Done
  <2> QED
    BY <1>2, <2>1, <2>2 DEF ManagedInv, Managed!NoSync, Managed!NoBuild, Configs, Syncs, Published
<1>3. ASSUME Managed!Done(Managed!Ready), syncing.build \in published, UNCHANGED published,
             UNCHANGED <<installed, remove>>
      PROVE  ManagedInv'
  <2>1. syncing.build \in Versions
    BY <1>3 DEF ManagedInv
  <2>2. settings' = [syncing.cfg EXCEPT !.ready = syncing.build, !.status = "ready"]
    BY <1>3 DEF Managed!Done, Managed!Ready
  <2>3. settings' \in Configs /\ settings'.ready = syncing.build
    BY <1>0, <2>1, <2>2 DEF Configs
  <2>4. syncing' = Managed!NoSync
    BY <1>3 DEF Managed!Done
  <2> QED
    BY <1>3, <2>3, <2>4 DEF ManagedInv, Managed!NoSync, Managed!NoBuild, Configs, Syncs, Published
<1>4. ASSUME Managed!Start PROVE syncing' \in Syncs /\ syncing'.cfg = settings /\ syncing'.step = "begin"
  BY <1>4 DEF Managed!Start, ManagedInv, Managed!NoBuild, Syncs
<1>5. ASSUME syncing' = Managed!NoSync
      PROVE  syncing' \in Syncs /\ syncing'.cfg.ready = 0 /\ syncing'.step = "none"
  BY <1>5 DEF Managed!NoSync, Managed!NoBuild, Syncs, Configs
<1>6. ASSUME UNCHANGED <<installed, published, settings, remove>>, syncing' \in {syncing, Managed!NoSync}
      PROVE  ManagedInv'
  BY <1>5, <1>6 DEF ManagedInv, Published
<1>7. ASSUME Managed!TornPackage, UNCHANGED published, UNCHANGED <<installed, remove>> PROVE ManagedInv'
  BY <1>2, <1>7 DEF Managed!TornPackage
<1>8. CASE \E b \in Versions : Managed!NpmBegins(b)
  BY <1>8 DEF Managed!NpmBegins, ManagedInv, Published
<1>9. CASE Managed!NpmEnds
  BY <1>6, <1>9 DEF Managed!NpmEnds
<1>10. CASE Managed!Launch
  <2>1. CASE Managed!Start
    BY <1>4, <1>10, <2>1 DEF Managed!Launch, ManagedInv, Published
  <2>2. CASE UNCHANGED syncing
    BY <1>6, <1>10, <2>2 DEF Managed!Launch
  <2> QED
    BY <1>10, <2>1, <2>2 DEF Managed!Launch, Managed!RequestSync
<1>11. CASE Managed!Retry
  BY <1>4, <1>11 DEF Managed!Retry, ManagedInv, Published
<1>12. CASE Managed!SyncBegin
  <2>0. UNCHANGED <<installed, remove, published>>
    BY <1>12 DEF Managed!SyncBegin, Managed!SyncKeeps
  <2>1. CASE Managed!Quit
    BY <1>6, <2>0, <2>1 DEF Managed!Quit
  <2>2. CASE Managed!TornPackage
    BY <1>7, <2>0, <2>2
  <2>3. CASE /\ syncing' = [step |-> IF installed \in published THEN "qualify" ELSE "prepare",
                            build |-> installed, cfg |-> [syncing.cfg EXCEPT !.attempted = installed]]
             /\ UNCHANGED settings
    <3>1. installed \in Versions
      BY DEF ManagedInv
    <3>2. /\ [syncing.cfg EXCEPT !.attempted = installed] \in Configs
          /\ [syncing.cfg EXCEPT !.attempted = installed].ready = syncing.cfg.ready
      BY <1>0, <3>1 DEF Configs
    <3>3. /\ syncing'.step \in {"prepare", "qualify"} /\ syncing'.build = installed
          /\ syncing'.step = "qualify" => installed \in published
          /\ syncing'.cfg = [syncing.cfg EXCEPT !.attempted = installed]
      BY <2>3
    <3>4. syncing' \in Syncs
      BY <2>3, <3>1, <3>2 DEF Syncs
    <3>5. syncing'.cfg.ready = syncing.cfg.ready
      BY <3>2, <3>3
    <3>6. UNCHANGED <<settings, published, installed, remove>>
      BY <2>0, <2>3
    <3> QED
      BY <3>1, <3>3, <3>4, <3>5, <3>6 DEF ManagedInv, Published
  <2> QED
    BY <1>12, <2>1, <2>2, <2>3 DEF Managed!SyncBegin
<1>13. CASE Managed!SyncPrepare
  <2>0. UNCHANGED <<installed, remove>> /\ syncing.step = "prepare"
    BY <1>13 DEF Managed!SyncPrepare, Managed!SyncKeeps
  <2>1. CASE Managed!Qualifies /\ Managed!Publish
    <3>1. syncing.build \in Versions \ Incompatible
      BY <2>0, <2>1 DEF ManagedInv, Managed!Qualifies
    <3>2. syncing' = [syncing EXCEPT !.step = "published"]
      BY <2>1 DEF Managed!Publish
    <3>3. syncing' \in Syncs /\ syncing'.cfg = syncing.cfg /\ syncing'.build = syncing.build
          /\ syncing'.step = "published"
      BY <3>2 DEF ManagedInv, Syncs
    <3> QED
      BY <2>0, <2>1, <3>1, <3>3 DEF ManagedInv, Managed!Publish, Published
  <2>2. CASE \E s \in {"pending", "held"} : Managed!Done(Managed!Outcome(s)) /\ UNCHANGED published
    BY <1>2, <2>0, <2>2
  <2>3. CASE Managed!TornPackage /\ UNCHANGED published
    BY <1>7, <2>0, <2>3
  <2> QED
    BY <1>13, <2>1, <2>2, <2>3 DEF Managed!SyncPrepare
<1>14. CASE Managed!SyncPublished
  <2>1. UNCHANGED <<installed, remove, published>> /\ syncing.build \in published
    BY <1>14 DEF Managed!SyncPublished, Managed!SyncKeeps, ManagedInv
  <2> QED
    BY <1>2, <1>3, <1>7, <1>14, <2>1 DEF Managed!SyncPublished
<1>15. CASE Managed!SyncQualify
  <2>1. UNCHANGED <<installed, remove, published>> /\ syncing.build \in published
    BY <1>15 DEF Managed!SyncQualify, Managed!SyncKeeps, ManagedInv
  <2> QED
    BY <1>3, <1>15, <2>1 DEF Managed!SyncQualify
<1>16. CASE Managed!SyncFails
  BY <1>2, <1>16 DEF Managed!SyncFails
<1>17. CASE Managed!SyncDies
  BY <1>6, <1>17 DEF Managed!SyncDies, Managed!Dies
<1>18. CASE Managed!Disable \/ Managed!SaveDisabled
  <2>1. settings' \in Configs /\ settings'.ready = settings.ready
    BY <1>18 DEF Managed!Disable, Managed!SaveDisabled, ManagedInv, Configs
  <2> QED
    BY <1>18, <2>1 DEF Managed!Disable, Managed!SaveDisabled, ManagedInv, Published
<1>19. CASE Managed!StopUnit
  BY <1>5, <1>19 DEF Managed!StopUnit, ManagedInv, Published
<1>20. CASE Managed!RestoreLauncher \/ Managed!UnmanageFails
  BY <1>20 DEF Managed!RestoreLauncher, Managed!UnmanageFails, ManagedInv, Published
<1>21. CASE UNCHANGED managedVars
  BY <1>21 DEF managedVars, ManagedInv, Published
<1> QED
  BY <1>8, <1>9, <1>10, <1>11, <1>12, <1>13, <1>14, <1>15, <1>16, <1>17, <1>18, <1>19, <1>20, <1>21
     DEF Managed!Next

LEMMA ManagedSuffices == ManagedInv => Managed!TypeOK /\ Managed!PreparedBuilds
BY DEF ManagedInv, Published, Configs, Syncs, Managed!TypeOK, Managed!PreparedBuilds,
       Managed!ReadyIsPublished, Managed!OnlyQualified, Managed!NoBuild

(***************************************************************************)
(* CodexManaged: whatever npm installs, and wherever a crash cuts the      *)
(* updater or unmanage, the build that config.json has the launcher start  *)
(* is published, whole, and none that does not qualify ever is.            *)
(***************************************************************************)
THEOREM BuildsPrepared == MCSpec => []PreparedBuilds
<1>1. MCInit => ManagedInv
  BY ManagedInit DEF MCInit
<1>2. ManagedInv /\ [MCNext]_mcVars => ManagedInv'
  BY StepOfEach, ManagedStep
<1>3. ManagedInv => PreparedBuilds
  BY ManagedSuffices DEF PreparedBuilds
<1> QED
  BY <1>1, <1>2, <1>3, PTL DEF MCSpec

-----------------------------------------------------------------------------
(* CodexRelay: installing and removing the relay *)

RelayConfigs == [build : Builds, launcher : StateDirs \X Pythons]
Ops ==
  [step : {"none", "probed", "checked", "backed", "configured", "restored"}, build : Builds \cup {0},
   ours : BOOLEAN]

RelayTypes ==
  /\ native \in Builds /\ backups \subseteq Builds /\ python \in Pythons
  /\ \/ \E b \in Builds : helper = Relay!Original(b)
     \/ \E l \in StateDirs \X Pythons : helper = Relay!Relay(l)
  /\ relayConfig \in [StateDirs -> RelayConfigs \cup {Relay!NoConfig}]
  /\ op \in [StateDirs -> Ops]
  /\ helperLock \in StateDirs \cup {"nobody"}

\* A launcher names the state directory that wrote it.
NamesItself(d) == relayConfig[d] # Relay!NoConfig => relayConfig[d].launcher[1] = d

\* How far a command has come: past its check it holds the lock beside the helper; it works
\* on the installed build, keeps the original before it says so, and says so before it
\* replaces the helper.  A removal forgets its configuration only once the original is back.
CommandInv(d) ==
  /\ op[d].step \in {"checked", "backed", "configured", "restored"} => helperLock = d
  /\ op[d].step \in {"probed", "checked", "backed", "configured"} => op[d].build = native
  /\ op[d].step \in {"backed", "configured"} => native \in backups
  /\ op[d].step = "configured" => relayConfig[d] # Relay!NoConfig /\ relayConfig[d].build = native
  /\ op[d].step = "restored" => helper = Relay!Original(native)

RelayInv ==
  /\ RelayTypes
  /\ \A d \in StateDirs : NamesItself(d) /\ CommandInv(d)
  /\ Relay!OriginalKept

LEMMA Helpers ==
  ASSUME NEW b, NEW l
  PROVE  /\ Relay!Original(b).kind = "original" /\ Relay!Original(b).by = b
         /\ Relay!Relay(l).kind = "relay" /\ Relay!Relay(l).by = l
         /\ Relay!Original(b) # Relay!Relay(l)
<1>1. Relay!Original(b).kind = "original" /\ Relay!Relay(l).kind = "relay"
  BY DEF Relay!Original, Relay!Relay
<1> QED
  BY <1>1 DEF Relay!Original, Relay!Relay

LEMMA RelayInit == Relay!Init => RelayInv
<1> SUFFICES ASSUME Relay!Init PROVE RelayInv
  OBVIOUS
<1>1. Relay!NoOp \in Ops /\ Relay!NoOp.step = "none"
  BY DEF Relay!NoOp, Ops
<1>2. RelayTypes
  BY <1>1 DEF Relay!Init, RelayTypes, Relay!Nobody
<1>3. \A d \in StateDirs : NamesItself(d) /\ CommandInv(d)
  BY <1>1 DEF Relay!Init, NamesItself, CommandInv
<1>4. Relay!OriginalKept
  BY DEF Relay!Init, Relay!OriginalKept
<1> QED
  BY <1>2, <1>3, <1>4 DEF RelayInv

\* The command of one state directory moves on; the others' facts hold if the lock is its own,
\* or if it leaves the helper and what lies beside it alone.
LEMMA CommandMoves ==
  ASSUME RelayInv, NEW d \in StateDirs, UNCHANGED <<native, python>>,
         op' \in [StateDirs -> Ops], relayConfig' \in [StateDirs -> RelayConfigs \cup {Relay!NoConfig}],
         \A e \in StateDirs \ {d} : op'[e] = op[e] /\ relayConfig'[e] = relayConfig[e],
         backups \subseteq backups', backups' \subseteq Builds,
         NamesItself(d)', CommandInv(d)',
         \/ UNCHANGED <<helper, helperLock>>
         \/ UNCHANGED helper /\ {helperLock, helperLock'} \subseteq {d, "nobody"}
         \/ /\ {helperLock, helperLock'} \subseteq {d, "nobody"}
            /\ \/ helper' = Relay!Original(native)
               \/ \E l \in StateDirs \X Pythons : helper' = Relay!Relay(l),
         Relay!OriginalKept'
  PROVE  RelayInv'
<1>1. RelayTypes'
  BY RelayAssumption DEF RelayInv, RelayTypes
<1>2. ASSUME NEW e \in StateDirs \ {d} PROVE NamesItself(e)' /\ CommandInv(e)'
  <2>1. NamesItself(e) /\ CommandInv(e) /\ op'[e] = op[e] /\ relayConfig'[e] = relayConfig[e]
    BY DEF RelayInv
  <2>2. NamesItself(e)'
    BY <2>1 DEF NamesItself
  <2>3. e # "nobody"
    BY RelayAssumption
  <2>4. CASE op[e].step \in {"checked", "backed", "configured", "restored"}
    <3>1. helperLock = e
      BY <2>1, <2>4 DEF CommandInv
    <3>2. UNCHANGED <<helper, helperLock>>
      BY <2>3, <3>1
    <3> QED
      BY <2>1, <2>2, <3>2 DEF CommandInv
  <2>5. CASE op[e].step \notin {"checked", "backed", "configured", "restored"}
    BY <2>1, <2>2, <2>5 DEF CommandInv
  <2> QED
    BY <2>4, <2>5
<1> QED
  BY <1>1, <1>2 DEF RelayInv

LEMMA RelayStep == RelayInv /\ [Relay!Next]_relayVars => RelayInv'
<1> SUFFICES ASSUME RelayInv, [Relay!Next]_relayVars PROVE RelayInv'
  OBVIOUS
<1> USE RelayAssumption
<1>0. RelayTypes /\ Relay!OriginalKept /\ \A d \in StateDirs : NamesItself(d) /\ CommandInv(d)
  BY DEF RelayInv
<1>1. Relay!NoOp \in Ops /\ Relay!NoOp.step = "none" /\ Relay!NoOp.build = 0
  BY DEF Relay!NoOp, Ops
\* The command moves to step s, its build and all else as they were.
<1>2. ASSUME NEW d \in StateDirs, NEW s \in {"backed", "configured", "restored"}, Relay!SetStep(d, s)
      PROVE  /\ op' \in [StateDirs -> Ops] /\ \A e \in StateDirs \ {d} : op'[e] = op[e]
             /\ op'[d].step = s /\ op'[d].build = op[d].build
  BY <1>0, <1>2 DEF Relay!SetStep, RelayTypes, Ops
<1>3. ASSUME NEW d \in StateDirs, Relay!Release(d)
      PROVE  /\ op' \in [StateDirs -> Ops] /\ \A e \in StateDirs \ {d} : op'[e] = op[e]
             /\ op'[d].step = "none"
             /\ helperLock' = IF helperLock = d THEN "nobody" ELSE helperLock
  BY <1>0, <1>1, <1>3 DEF Relay!Release, RelayTypes, Relay!Nobody
<1>4. ASSUME NEW d \in StateDirs, Relay!Probe(d) PROVE RelayInv'
  <2>1. op' = [op EXCEPT ![d] = [Relay!NoOp EXCEPT !.step = "probed", !.build = native]]
    BY <1>4 DEF Relay!Probe
  <2>2. /\ [Relay!NoOp EXCEPT !.step = "probed", !.build = native] \in Ops
        /\ [Relay!NoOp EXCEPT !.step = "probed", !.build = native].step = "probed"
        /\ [Relay!NoOp EXCEPT !.step = "probed", !.build = native].build = native
    BY <1>0 DEF RelayTypes, Relay!NoOp, Ops
  <2>3. /\ op' \in [StateDirs -> Ops] /\ \A e \in StateDirs \ {d} : op'[e] = op[e]
        /\ op'[d].step = "probed" /\ op'[d].build = native
    BY <1>0, <2>1, <2>2 DEF RelayTypes
  <2>4. UNCHANGED <<native, helper, backups, relayConfig, python, helperLock>>
    BY <1>4 DEF Relay!Probe, Relay!files
  <2>5. NamesItself(d)' /\ CommandInv(d)' /\ Relay!OriginalKept'
    BY <1>0, <2>3, <2>4 DEF NamesItself, CommandInv, Relay!OriginalKept
  <2> QED
    BY <1>0, <2>3, <2>4, <2>5, CommandMoves DEF RelayTypes
<1>5. ASSUME NEW d \in StateDirs, Relay!InstallCheck(d) PROVE RelayInv'
  <2>1. op' = [op EXCEPT ![d].step = "checked", ![d].ours = Relay!Owns(d)]
    BY <1>5 DEF Relay!InstallCheck
  <2>2. /\ op' \in [StateDirs -> Ops] /\ \A e \in StateDirs \ {d} : op'[e] = op[e]
        /\ op'[d].step = "checked" /\ op'[d].build = op[d].build
    <3> DEFINE o == Relay!Owns(d)
    <3>1. o \in BOOLEAN
      BY DEF Relay!Owns
    <3>2. op' = [op EXCEPT ![d] = [op[d] EXCEPT !.step = "checked", !.ours = o]]
      BY <2>1
    <3> HIDE DEF o
    <3>3. /\ [op[d] EXCEPT !.step = "checked", !.ours = o] \in Ops
          /\ [op[d] EXCEPT !.step = "checked", !.ours = o].step = "checked"
          /\ [op[d] EXCEPT !.step = "checked", !.ours = o].build = op[d].build
      BY <1>0, <3>1 DEF RelayTypes, Ops
    <3> QED
      BY <1>0, <3>2, <3>3 DEF RelayTypes
  <2>3. /\ UNCHANGED <<native, helper, backups, relayConfig, python>>
        /\ helperLock = "nobody" /\ helperLock' = d /\ op[d].step = "probed"
    BY <1>5 DEF Relay!InstallCheck, Relay!files, Relay!Nobody
  <2>4. NamesItself(d)' /\ CommandInv(d)' /\ Relay!OriginalKept'
    BY <1>0, <2>2, <2>3 DEF NamesItself, CommandInv, Relay!OriginalKept
  <2> QED
    BY <1>0, <2>2, <2>3, <2>4, CommandMoves DEF RelayTypes
<1>6. ASSUME NEW d \in StateDirs, Relay!InstallBackup(d) PROVE RelayInv'
  <2>1. /\ op' \in [StateDirs -> Ops] /\ \A e \in StateDirs \ {d} : op'[e] = op[e]
        /\ op'[d].step = "backed" /\ op'[d].build = op[d].build
    BY <1>2, <1>6 DEF Relay!InstallBackup
  <2>2. /\ UNCHANGED <<native, helper, python, relayConfig, helperLock>> /\ op[d].step = "checked"
        /\ backups' = backups \cup {op[d].build}
    BY <1>6 DEF Relay!InstallBackup
  <2>3. op[d].build = native /\ helperLock = d /\ native \in Builds
    BY <1>0, <2>2 DEF CommandInv, RelayTypes
  <2>4. NamesItself(d)' /\ CommandInv(d)' /\ Relay!OriginalKept'
    BY <1>0, <2>1, <2>2, <2>3 DEF NamesItself, CommandInv, Relay!OriginalKept
  <2>5. backups \subseteq backups' /\ backups' \subseteq Builds
    BY <1>0, <2>2, <2>3 DEF RelayTypes
  <2> QED
    BY <1>0, <2>1, <2>2, <2>4, <2>5, CommandMoves DEF RelayTypes
<1>7. ASSUME NEW d \in StateDirs, Relay!InstallConfig(d) PROVE RelayInv'
  <2>1. /\ op' \in [StateDirs -> Ops] /\ \A e \in StateDirs \ {d} : op'[e] = op[e]
        /\ op'[d].step = "configured" /\ op'[d].build = op[d].build
    BY <1>2, <1>7 DEF Relay!InstallConfig
  <2>2. /\ UNCHANGED <<native, helper, python, backups, helperLock>> /\ op[d].step = "backed"
        /\ relayConfig' = [relayConfig EXCEPT ![d] = [build |-> op[d].build, launcher |-> <<d, python>>]]
    BY <1>7 DEF Relay!InstallConfig, Relay!Launcher
  <2>3. op[d].build = native /\ helperLock = d /\ native \in backups /\ native \in Builds /\ python \in Pythons
    BY <1>0, <2>2 DEF CommandInv, RelayTypes
  <2> DEFINE c == [build |-> op[d].build, launcher |-> <<d, python>>]
  <2>4. c \in RelayConfigs /\ c.build = native /\ c.launcher = <<d, python>> /\ c.launcher[1] = d
    BY <2>3 DEF RelayConfigs
  <2>5. c # Relay!NoConfig
    BY <2>4 DEF Relay!NoConfig
  <2> HIDE DEF c
  <2>6. /\ relayConfig' \in [StateDirs -> RelayConfigs \cup {Relay!NoConfig}] /\ relayConfig'[d] = c
        /\ \A e \in StateDirs \ {d} : relayConfig'[e] = relayConfig[e]
    BY <1>0, <2>2, <2>4 DEF RelayTypes, c
  <2>7. NamesItself(d)' /\ CommandInv(d)'
    BY <2>1, <2>2, <2>3, <2>4, <2>5, <2>6 DEF NamesItself, CommandInv
  <2>8. Relay!OriginalKept'
    <3> SUFFICES ASSUME helper # Relay!Original(native)
                 PROVE  helper.kind = "relay" /\ native \in backups /\ relayConfig'[helper.by[1]].build = native
      BY <2>2 DEF Relay!OriginalKept, Relay!Original
    <3>1. helper.kind = "relay" /\ native \in backups /\ relayConfig[helper.by[1]].build = native
      BY <1>0 DEF Relay!OriginalKept
    <3>2. PICK l \in StateDirs \X Pythons : helper = Relay!Relay(l)
      BY <1>0, <3>1, Helpers DEF RelayTypes
    <3>3. helper.by[1] \in StateDirs
      BY <3>2, Helpers
    <3> QED
      BY <2>4, <2>6, <3>1, <3>3
  <2> QED
    BY <1>0, <2>1, <2>2, <2>6, <2>7, <2>8, CommandMoves DEF RelayTypes
<1>8. ASSUME NEW d \in StateDirs, Relay!InstallHelper(d) PROVE RelayInv'
  <2>1. /\ op' \in [StateDirs -> Ops] /\ \A e \in StateDirs \ {d} : op'[e] = op[e]
        /\ op'[d].step = "none"
        /\ helperLock' = IF helperLock = d THEN "nobody" ELSE helperLock
    BY <1>3, <1>8 DEF Relay!InstallHelper
  <2>2. /\ UNCHANGED <<native, python, backups, relayConfig>> /\ op[d].step = "configured"
        /\ helper' = Relay!Relay(relayConfig[d].launcher)
    BY <1>8 DEF Relay!InstallHelper
  <2>3. /\ relayConfig[d] # Relay!NoConfig /\ relayConfig[d].build = native /\ helperLock = d
        /\ native \in backups
    BY <1>0, <2>2 DEF CommandInv
  <2>4. relayConfig[d].launcher \in StateDirs \X Pythons /\ relayConfig[d].launcher[1] = d
    BY <1>0, <2>3 DEF NamesItself, RelayTypes, RelayConfigs
  <2>5. helper'.kind = "relay" /\ helper'.by[1] = d
    BY <2>2, <2>4, Helpers
  <2>6. NamesItself(d)' /\ CommandInv(d)' /\ Relay!OriginalKept'
    BY <1>0, <2>1, <2>2, <2>3, <2>5 DEF NamesItself, CommandInv, Relay!OriginalKept
  <2>7. \A e \in StateDirs \ {d} : relayConfig'[e] = relayConfig[e]
    BY <2>2
  <2>8. relayConfig' \in [StateDirs -> RelayConfigs \cup {Relay!NoConfig}] /\ backups \subseteq Builds
    BY <1>0, <2>2 DEF RelayTypes
  <2> QED
    BY <2>1, <2>2, <2>3, <2>4, <2>6, <2>7, <2>8, CommandMoves
<1>9. ASSUME NEW d \in StateDirs, Relay!Uninstall(d) PROVE RelayInv'
  <2>1. /\ op' \in [StateDirs -> Ops] /\ \A e \in StateDirs \ {d} : op'[e] = op[e]
        /\ op'[d].step = "restored"
    BY <1>2, <1>9 DEF Relay!Uninstall
  <2>2. /\ UNCHANGED <<native, python, backups, relayConfig>> /\ relayConfig[d] # Relay!NoConfig
        /\ helperLock = "nobody" /\ helperLock' = d
    BY <1>9 DEF Relay!Uninstall, Relay!Nobody
  <2>3. helper' = Relay!Original(native)
    <3>1. CASE Relay!Owns(d)
      <4>1. helper = Relay!Relay(relayConfig[d].launcher) /\ relayConfig[d].launcher[1] = d
        BY <1>0, <3>1 DEF Relay!Owns, NamesItself
      <4>2. relayConfig[d].build = native
        BY <1>0, <4>1, Helpers DEF Relay!OriginalKept
      <4> QED
        BY <1>9, <3>1, <4>2 DEF Relay!Uninstall
    <3>2. CASE ~Relay!Owns(d)
      <4>1. UNCHANGED helper /\ \E b : helper = Relay!Original(b)
        BY <1>9, <3>2 DEF Relay!Uninstall
      <4> QED
        BY <1>0, <4>1, Helpers DEF Relay!OriginalKept
    <3> QED
      BY <3>1, <3>2
  <2>4. NamesItself(d)' /\ CommandInv(d)' /\ Relay!OriginalKept'
    BY <1>0, <2>1, <2>2, <2>3 DEF NamesItself, CommandInv, Relay!OriginalKept, Relay!Original
  <2>5. /\ \A e \in StateDirs \ {d} : relayConfig'[e] = relayConfig[e]
        /\ relayConfig' \in [StateDirs -> RelayConfigs \cup {Relay!NoConfig}] /\ backups \subseteq Builds
    BY <1>0, <2>2 DEF RelayTypes
  <2> QED
    BY <2>1, <2>2, <2>3, <2>4, <2>5, CommandMoves
<1>10. ASSUME NEW d \in StateDirs, Relay!Forget(d) PROVE RelayInv'
  <2>1. /\ op' \in [StateDirs -> Ops] /\ \A e \in StateDirs \ {d} : op'[e] = op[e]
        /\ op'[d].step = "none"
        /\ helperLock' = IF helperLock = d THEN "nobody" ELSE helperLock
    BY <1>3, <1>10 DEF Relay!Forget
  <2>2. /\ UNCHANGED <<native, helper, python, backups>> /\ op[d].step = "restored"
        /\ relayConfig' = [relayConfig EXCEPT ![d] = Relay!NoConfig]
    BY <1>10 DEF Relay!Forget
  <2>3. helper = Relay!Original(native) /\ helperLock = d
    BY <1>0, <2>2 DEF CommandInv
  <2>4. /\ relayConfig' \in [StateDirs -> RelayConfigs \cup {Relay!NoConfig}]
        /\ relayConfig'[d] = Relay!NoConfig
        /\ \A e \in StateDirs \ {d} : relayConfig'[e] = relayConfig[e]
    BY <1>0, <2>2 DEF RelayTypes
  <2>5. NamesItself(d)' /\ CommandInv(d)' /\ Relay!OriginalKept'
    BY <1>0, <2>1, <2>2, <2>3, <2>4 DEF NamesItself, CommandInv, Relay!OriginalKept, Relay!Original
  <2>6. backups \subseteq Builds
    BY <1>0 DEF RelayTypes
  <2> QED
    BY <2>1, <2>2, <2>3, <2>4, <2>5, <2>6, CommandMoves
<1>11. ASSUME NEW d \in StateDirs, Relay!Abort(d) PROVE RelayInv'
  <2>1. /\ op' \in [StateDirs -> Ops] /\ \A e \in StateDirs \ {d} : op'[e] = op[e]
        /\ op'[d].step = "none"
        /\ helperLock' = IF helperLock = d THEN "nobody" ELSE helperLock
    BY <1>3, <1>11 DEF Relay!Abort
  <2>2. UNCHANGED <<native, helper, python, backups, relayConfig>>
    BY <1>11 DEF Relay!Abort, Relay!files
  <2>3. NamesItself(d)' /\ CommandInv(d)' /\ Relay!OriginalKept'
    BY <1>0, <2>1, <2>2 DEF NamesItself, CommandInv, Relay!OriginalKept
  <2>4. /\ \A e \in StateDirs \ {d} : relayConfig'[e] = relayConfig[e]
        /\ relayConfig' \in [StateDirs -> RelayConfigs \cup {Relay!NoConfig}] /\ backups \subseteq Builds
    BY <1>0, <2>2 DEF RelayTypes
  <2> QED
    BY <2>1, <2>2, <2>3, <2>4, CommandMoves
<1>12. ASSUME NEW b \in Builds, Relay!NpmInstall(b) PROVE RelayInv'
  <2>1. /\ \A d \in StateDirs : op[d].step = "none"
        /\ native' = b /\ helper' = Relay!Original(b) /\ backups' = {} /\ helperLock' = "nobody"
        /\ UNCHANGED <<python, relayConfig, op>>
    BY <1>1, <1>12 DEF Relay!NpmInstall, Relay!Nobody
  <2>2. RelayTypes'
    BY <1>0, <2>1 DEF RelayTypes, Relay!Original, Relay!Relay
  <2>3. \A d \in StateDirs : NamesItself(d)' /\ CommandInv(d)'
    BY <1>0, <2>1 DEF NamesItself, CommandInv
  <2>4. Relay!OriginalKept'
    BY <2>1 DEF Relay!OriginalKept, Relay!Original
  <2> QED
    BY <2>2, <2>3, <2>4 DEF RelayInv
<1>13. ASSUME Relay!NewPython PROVE RelayInv'
  <2>1. python' \in Pythons /\ UNCHANGED <<native, helper, backups, relayConfig, op, helperLock>>
    BY <1>13 DEF Relay!NewPython, Relay!files
  <2> QED
    BY <2>1 DEF RelayInv, RelayTypes, NamesItself, CommandInv, Relay!OriginalKept, Relay!Original, Relay!Relay
<1>14. ASSUME UNCHANGED relayVars PROVE RelayInv'
  BY <1>14 DEF relayVars, RelayInv, RelayTypes, NamesItself, CommandInv, Relay!OriginalKept,
               Relay!Original, Relay!Relay
<1> QED
  BY <1>4, <1>5, <1>6, <1>7, <1>8, <1>9, <1>10, <1>11, <1>12, <1>13, <1>14 DEF Relay!Next

LEMMA RelaySuffices == RelayInv => Relay!TypeOK
BY Helpers, RelayAssumption
   DEF RelayInv, RelayTypes, RelayConfigs, Relay!TypeOK, Relay!NoConfig, Relay!Nobody

(***************************************************************************)
(* CodexRelay: as long as npm does not run within a command, a helper that *)
(* is not the package's own has its original beside it, and the state      *)
(* directory that put it there still knows, wherever a crash cuts an       *)
(* installation or a removal.                                              *)
(***************************************************************************)
THEOREM OriginalsKept == MCSpec => []OriginalKept
<1>1. MCInit => RelayInv
  BY RelayInit DEF MCInit
<1>2. RelayInv /\ [MCNext]_mcVars => RelayInv'
  BY StepOfEach, RelayStep
<1>3. RelayInv => OriginalKept
  BY DEF RelayInv, OriginalKept
<1> QED
  BY <1>1, <1>2, <1>3, PTL DEF MCSpec

-----------------------------------------------------------------------------
(* AmbientListen: overlapping connections and the dark periods between them *)

HandlerStates == {"none", "waiting", "starting", "ending", "closing", "flushing"}

ListenTypes ==
  /\ handler \in [Connections -> HandlerStates]
  /\ socket \in [Connections -> {"live", "dead", "closed"}]
  /\ cloud \in [Connections -> {"none", "opening", "open"}]
  /\ mode \in {"active", "passive"} /\ pointer \in Connections \cup {"none"}
  /\ IsFiniteSet(Listen!Served) /\ clients = Cardinality(Listen!Served)

\* A dark period that has reached the threshold is counted, or will be by the next tick or
\* connection; none is under way while somebody is connected.
DarkAt(n, d, counted, events, periods) ==
  /\ d \in -1 .. DarkThreshold /\ counted \in BOOLEAN
  /\ events \in Nat /\ periods \in 0 .. MaxDark
  /\ n > 0 => d = -1
  /\ d < DarkThreshold => counted = FALSE /\ events = periods
  /\ d = DarkThreshold => periods = events + IF counted = TRUE THEN 0 ELSE 1

DarkInv == DarkAt(clients, dark, darkCounted, darkEvents, darkPeriods)

ListenInv == ListenTypes /\ DarkInv /\ Listen!PointerTrue

\* No dark period, or one that has just begun.
LEMMA DarkBegins ==
  ASSUME NEW n \in Nat, NEW e \in 0 .. MaxDark
  PROVE  DarkAt(n, -1, FALSE, e, e) /\ DarkAt(0, 0, FALSE, e, e)
<1>1. -1 \in -1 .. DarkThreshold /\ -1 < DarkThreshold /\ -1 # DarkThreshold
  BY ListenAssumption
<1>2. 0 \in -1 .. DarkThreshold /\ 0 < DarkThreshold /\ 0 # DarkThreshold
  BY ListenAssumption
<1>3. e \in Nat
  BY ListenAssumption
<1> QED
  BY <1>1, <1>2, <1>3 DEF DarkAt

LEMMA ListenInit == Listen!Init => ListenInv
<1> SUFFICES ASSUME Listen!Init PROVE ListenInv
  OBVIOUS
<1>1. Listen!Served = {}
  BY DEF Listen!Init, Listen!Served, Listen!Absent
<1>2. ListenTypes
  BY <1>1, FS_EmptySet DEF Listen!Init, ListenTypes, HandlerStates, Listen!Absent
<1>3. DarkInv
  <2>1. 0 \in Nat /\ 0 \in 0 .. MaxDark
    BY ListenAssumption
  <2>2. DarkAt(0, -1, FALSE, 0, 0)
    BY <2>1, DarkBegins
  <2> QED
    BY <2>2 DEF Listen!Init, DarkInv, Listen!Unset
<1> QED
  BY <1>2, <1>3 DEF ListenInv, Listen!Init, Listen!PointerTrue

LEMMA ListenStep == ListenInv /\ [Listen!Next]_listenVars => ListenInv'
<1> SUFFICES ASSUME ListenInv, [Listen!Next]_listenVars PROVE ListenInv'
  OBVIOUS
<1> USE ListenAssumption
<1>0. ListenTypes /\ DarkInv /\ Listen!PointerTrue
  BY DEF ListenInv
<1>1. clients \in Nat /\ \A c \in Connections : handler[c] # "none" => clients > 0
  <2>1. clients \in Nat
    BY <1>0, FS_CardinalityType DEF ListenTypes
  <2>2. ASSUME NEW c \in Connections, handler[c] # "none" PROVE clients # 0
    <3>1. c \in Listen!Served
      BY <2>2 DEF Listen!Served, Listen!Absent
    <3> QED
      BY <1>0, <3>1, FS_EmptySet DEF ListenTypes
  <2> QED
    BY <2>1, <2>2
\* A step within a connection: those who are served stay so.
<1>2. ASSUME NEW c \in Connections, handler[c] # "none", NEW s \in HandlerStates \ {"none"},
             handler' \in {handler, [handler EXCEPT ![c] = s]},
             socket' \in [Connections -> {"live", "dead", "closed"}],
             cloud' \in [Connections -> {"none", "opening", "open"}],
             pointer' \in Connections \cup {"none"}, UNCHANGED <<mode, clients>>
      PROVE  ListenTypes'
  <2>1. handler' \in [Connections -> HandlerStates]
    BY <1>0, <1>2 DEF ListenTypes
  <2>2. Listen!Served' = Listen!Served
    BY <1>0, <1>2 DEF ListenTypes, Listen!Served, Listen!Absent
  <2> QED
    BY <1>0, <1>2, <2>1, <2>2 DEF ListenTypes
<1>3. ASSUME UNCHANGED <<clients, dark, darkCounted, darkEvents, darkPeriods>> PROVE DarkInv'
  BY <1>0, <1>3 DEF DarkInv
<1>4. ASSUME NEW c \in Connections, Listen!Release(c)
      PROVE  /\ cloud' \in [Connections -> {"none", "opening", "open"}]
             /\ pointer' \in Connections \cup {"none"} /\ Listen!PointerTrue'
  BY <1>0, <1>4 DEF Listen!Release, ListenTypes, Listen!PointerTrue, Listen!Absent
<1>5. ASSUME NEW c \in Connections, Listen!Connect(c) PROVE ListenInv'
  <2>1. /\ handler[c] = "none" /\ handler' = [handler EXCEPT ![c] = "waiting"]
        /\ socket' = [socket EXCEPT ![c] = "live"] /\ clients' = clients + 1
        /\ UNCHANGED <<cloud, mode, pointer>>
    BY <1>5 DEF Listen!Connect, Listen!Absent
  <2>2. Listen!Served' = Listen!Served \cup {c} /\ c \notin Listen!Served
    BY <1>0, <2>1 DEF ListenTypes, Listen!Served, Listen!Absent
  <2>3. IsFiniteSet(Listen!Served') /\ clients' = Cardinality(Listen!Served')
    BY <1>0, <2>1, <2>2, FS_AddElement DEF ListenTypes
  <2>4. ListenTypes'
    BY <1>0, <2>1, <2>3 DEF ListenTypes, HandlerStates
  <2>5. CASE clients = 0
    <3>1. Listen!OnConnect
      BY <1>5, <2>5 DEF Listen!Connect
    <3>2. /\ darkEvents' = darkEvents + (IF dark >= DarkThreshold /\ ~darkCounted THEN 1 ELSE 0)
          /\ dark' = -1 /\ darkCounted' = FALSE /\ UNCHANGED darkPeriods
      BY <3>1 DEF Listen!OnConnect, Listen!Unset
    <3>3. darkEvents' = darkPeriods /\ darkPeriods \in 0 .. MaxDark
      BY <1>0, <3>2 DEF DarkInv, DarkAt
    <3>4. DarkInv'
      <4>0. clients + 1 \in Nat /\ darkPeriods \in 0 .. MaxDark
        BY <1>1, <3>3
      <4>1. DarkAt(clients + 1, -1, FALSE, darkPeriods, darkPeriods)
        BY <4>0, DarkBegins
      <4> QED
        BY <2>1, <3>2, <3>3, <4>1 DEF DarkInv
    <3> QED
      BY <1>0, <2>1, <2>4, <3>4 DEF ListenInv, Listen!PointerTrue
  <2>6. CASE clients # 0
    <3>1. UNCHANGED <<dark, darkCounted, darkEvents, darkPeriods>>
      BY <1>5, <2>6 DEF Listen!Connect, Listen!telemetry
    <3> QED
      BY <1>0, <1>1, <2>1, <2>4, <2>6, <3>1 DEF ListenInv, DarkInv, DarkAt, Listen!PointerTrue
  <2> QED
    BY <2>5, <2>6
<1>6. ASSUME NEW c \in Connections, Listen!Dies(c) \/ Listen!Closed(c) PROVE ListenInv'
  <2>1. /\ handler[c] # "none" /\ UNCHANGED <<handler, cloud, mode, pointer, clients>>
        /\ UNCHANGED <<dark, darkCounted, darkEvents, darkPeriods>>
    BY <1>6 DEF Listen!Dies, Listen!Closed, Listen!telemetry, Listen!Absent
  <2>2. socket' \in [Connections -> {"live", "dead", "closed"}]
    BY <1>0, <1>6 DEF Listen!Dies, Listen!Closed, ListenTypes
  <2> QED
    BY <1>0, <1>2, <1>3, <2>1, <2>2 DEF ListenInv, ListenTypes, Listen!PointerTrue, HandlerStates
<1>7. ASSUME NEW c \in Connections, Listen!Frame(c) PROVE ListenInv'
  <2>1. /\ handler[c] = "waiting" /\ UNCHANGED <<socket, mode, pointer, clients>>
        /\ UNCHANGED <<dark, darkCounted, darkEvents, darkPeriods>>
    BY <1>7 DEF Listen!Frame, Listen!telemetry
  <2>2. \E s \in {"starting", "closing", "ending"} : handler' \in {handler, [handler EXCEPT ![c] = s]}
    BY <1>7 DEF Listen!Frame
  <2>3. \/ UNCHANGED cloud
        \/ cloud[c] = "none" /\ cloud' = [cloud EXCEPT ![c] = "opening"]
    BY <1>7 DEF Listen!Frame, Listen!Absent
  <2>4. cloud' \in [Connections -> {"none", "opening", "open"}] /\ Listen!PointerTrue'
    BY <1>0, <2>1, <2>3 DEF ListenTypes, Listen!PointerTrue, Listen!Absent
  <2>5. ListenTypes'
    BY <1>0, <1>2, <2>1, <2>2, <2>4 DEF ListenTypes, HandlerStates
  <2> QED
    BY <1>3, <2>1, <2>4, <2>5 DEF ListenInv
<1>8. ASSUME NEW c \in Connections, Listen!Started(c) PROVE ListenInv'
  <2>1. /\ handler[c] = "starting" /\ UNCHANGED <<socket, mode, clients>>
        /\ UNCHANGED <<dark, darkCounted, darkEvents, darkPeriods>>
        /\ \E s \in {"waiting", "closing"} : handler' = [handler EXCEPT ![c] = s]
        /\ \/ cloud' = [cloud EXCEPT ![c] = "open"] /\ pointer' = c
           \/ UNCHANGED <<cloud, pointer>>
    BY <1>8 DEF Listen!Started, Listen!telemetry
  <2>2. /\ cloud' \in [Connections -> {"none", "opening", "open"}]
        /\ pointer' \in Connections \cup {"none"} /\ Listen!PointerTrue'
    BY <1>0, <2>1 DEF ListenTypes, Listen!PointerTrue, Listen!Absent
  <2>3. ListenTypes'
    BY <1>0, <1>2, <2>1, <2>2 DEF ListenTypes, HandlerStates
  <2> QED
    BY <1>3, <2>1, <2>2, <2>3 DEF ListenInv
<1>9. ASSUME NEW c \in Connections, Listen!Ended(c) \/ Listen!Finalize(c) PROVE ListenInv'
  <2>1. /\ handler[c] # "none" /\ UNCHANGED <<socket, mode, clients>>
        /\ UNCHANGED <<dark, darkCounted, darkEvents, darkPeriods>>
        /\ \E s \in {"waiting", "flushing"} : handler' = [handler EXCEPT ![c] = s]
        /\ Listen!Release(c)
    BY <1>9 DEF Listen!Ended, Listen!Finalize, Listen!telemetry
  <2>2. ListenTypes'
    BY <1>0, <1>2, <1>4, <2>1 DEF ListenTypes, HandlerStates
  <2> QED
    BY <1>3, <1>4, <2>1, <2>2 DEF ListenInv
<1>10. ASSUME NEW c \in Connections, Listen!Gone(c) PROVE ListenInv'
  <2>1. /\ handler[c] # "none" /\ UNCHANGED <<socket, cloud, mode, pointer, clients>>
        /\ UNCHANGED <<dark, darkCounted, darkEvents, darkPeriods>>
        /\ handler' = [handler EXCEPT ![c] = "closing"]
    BY <1>10 DEF Listen!Gone, Listen!telemetry
  <2>2. ListenTypes'
    BY <1>0, <1>2, <2>1 DEF ListenTypes, HandlerStates
  <2> QED
    BY <1>0, <1>3, <2>1, <2>2 DEF ListenInv, Listen!PointerTrue
<1>11. ASSUME NEW c \in Connections, Listen!Flushed(c) PROVE ListenInv'
  <2>1. /\ handler[c] = "flushing" /\ handler' = [handler EXCEPT ![c] = "none"]
        /\ socket' = [socket EXCEPT ![c] = "closed"] /\ clients' = clients - 1
        /\ UNCHANGED <<cloud, mode, pointer>>
    BY <1>11 DEF Listen!Flushed, Listen!Absent
  <2>2. Listen!Served' = Listen!Served \ {c} /\ c \in Listen!Served
    BY <1>0, <2>1 DEF ListenTypes, Listen!Served, Listen!Absent
  <2>3. IsFiniteSet(Listen!Served') /\ clients' = Cardinality(Listen!Served')
    BY <1>0, <2>1, <2>2, FS_RemoveElement DEF ListenTypes
  <2>4. ListenTypes'
    BY <1>0, <2>1, <2>3 DEF ListenTypes, HandlerStates
  <2>5. /\ dark = -1 /\ darkEvents = darkPeriods /\ clients \in Nat \ {0}
        /\ darkPeriods \in 0 .. MaxDark
    BY <1>0, <1>1, <2>1 DEF DarkInv, DarkAt
  <2>6. CASE clients = 1
    <3>1. dark' = 0 /\ darkCounted' = FALSE /\ UNCHANGED <<darkEvents, darkPeriods>>
      BY <1>11, <2>6 DEF Listen!Flushed, Listen!OnDisconnect
    <3>2. DarkAt(0, 0, FALSE, darkPeriods, darkPeriods)
      BY <2>5, DarkBegins
    <3>3. clients' = 0 /\ darkEvents' = darkPeriods
      BY <2>1, <2>5, <2>6, <3>1
    <3>4. DarkInv'
      BY <3>1, <3>2, <3>3 DEF DarkInv
    <3> QED
      BY <1>0, <2>1, <2>4, <3>4 DEF ListenInv, Listen!PointerTrue
  <2>7. CASE clients # 1
    <3>1. UNCHANGED <<dark, darkCounted, darkEvents, darkPeriods>>
      BY <1>11, <2>7 DEF Listen!Flushed, Listen!telemetry
    <3> QED
      BY <1>0, <2>1, <2>4, <2>5, <3>1 DEF ListenInv, DarkInv, DarkAt, Listen!PointerTrue
  <2> QED
    BY <2>6, <2>7
<1>12. ASSUME Listen!SetMode PROVE ListenInv'
  BY <1>0, <1>3, <1>12
     DEF Listen!SetMode, Listen!conns, Listen!telemetry, ListenInv, ListenTypes, Listen!Served,
         Listen!PointerTrue
<1>13. ASSUME Listen!Tick \/ Listen!TimePasses PROVE ListenInv'
  <2>1. UNCHANGED <<handler, socket, cloud, mode, pointer, clients>>
    BY <1>13 DEF Listen!Tick, Listen!TimePasses, Listen!conns
  <2>2. CASE Listen!Tick
    <3>1. /\ dark = DarkThreshold /\ ~darkCounted /\ darkEvents' = darkEvents + 1 /\ darkCounted' = TRUE
          /\ UNCHANGED <<dark, darkPeriods>>
      BY <1>0, <2>2 DEF Listen!Tick, DarkInv, DarkAt
    <3> QED
      BY <1>0, <2>1, <3>1 DEF ListenInv, ListenTypes, DarkInv, DarkAt, Listen!Served, Listen!PointerTrue
  <2>3. CASE Listen!TimePasses
    <3>1. /\ dark \in 0 .. DarkThreshold - 1 /\ darkPeriods < MaxDark /\ dark' = dark + 1
          /\ darkPeriods' = darkPeriods + (IF dark' = DarkThreshold THEN 1 ELSE 0)
          /\ UNCHANGED <<darkCounted, darkEvents>>
      BY <2>3 DEF Listen!TimePasses
    <3>2. DarkInv'
      BY <1>0, <2>1, <3>1 DEF DarkInv, DarkAt
    <3> QED
      BY <1>0, <2>1, <3>2 DEF ListenInv, ListenTypes, Listen!Served, Listen!PointerTrue
  <2> QED
    BY <1>13, <2>2, <2>3
<1>14. ASSUME UNCHANGED listenVars PROVE ListenInv'
  BY <1>0, <1>3, <1>14 DEF listenVars, ListenInv, ListenTypes, Listen!Served, Listen!PointerTrue
<1> QED
  BY <1>5, <1>6, <1>7, <1>8, <1>9, <1>10, <1>11, <1>12, <1>13, <1>14
     DEF Listen!Next, Listen!HandlerStep

LEMMA ListenCardinality == \A S : Listen!Cardinality(S) = Cardinality(S)
BY DEF Listen!Cardinality, Cardinality

LEMMA ListenSuffices == ListenInv => Listen!TypeOK /\ Listen!OverlapHarmless
<1> SUFFICES ASSUME ListenInv PROVE Listen!TypeOK /\ Listen!OverlapHarmless
  OBVIOUS
<1> USE ListenAssumption
<1>1. Listen!DarkOnce
  BY DEF ListenInv, DarkInv, DarkAt, Listen!DarkOnce
<1>2. darkEvents \in 0 .. MaxDark + 1
  BY DEF ListenInv, DarkInv, DarkAt
<1>3. dark \in -1 .. DarkThreshold /\ darkCounted \in BOOLEAN /\ darkPeriods \in 0 .. MaxDark
  BY DEF ListenInv, DarkInv, DarkAt
<1>4. Listen!TypeOK
  <2>1. \A c \in Connections :
          /\ handler[c] \in {"none", "waiting", "starting", "ending", "closing", "flushing"}
          /\ socket[c] \in {"live", "dead", "closed"} /\ cloud[c] \in {"none", "opening", "open"}
    BY DEF ListenInv, ListenTypes, HandlerStates
  <2>2. /\ mode \in {"active", "passive"} /\ pointer \in Connections \cup {"none"}
        /\ clients = Cardinality(Listen!Served)
    BY DEF ListenInv, ListenTypes
  <2> QED
    BY <1>2, <1>3, <2>1, <2>2, ListenCardinality DEF Listen!TypeOK, Listen!Absent
<1> QED
  BY <1>1, <1>4 DEF ListenInv, Listen!OverlapHarmless

(***************************************************************************)
(* AmbientListen: however connections of the device overlap, /marker never *)
(* writes into a released session, and every dark period that lasts is     *)
(* counted once.                                                           *)
(***************************************************************************)
THEOREM OverlapIsHarmless == MCSpec => []OverlapHarmless
<1>1. MCInit => ListenInv
  BY ListenInit DEF MCInit
<1>2. ListenInv /\ [MCNext]_mcVars => ListenInv'
  BY StepOfEach, ListenStep
<1>3. ListenInv => OverlapHarmless
  BY ListenSuffices DEF OverlapHarmless
<1> QED
  BY <1>1, <1>2, <1>3, PTL DEF MCSpec

-----------------------------------------------------------------------------
(* TranscriptSync: every turn to Genesis once *)

Posts == [id : Nat, session : 1 .. MaxPersists, from : Nat, to : Nat, attempt : 1 .. MaxAttempts]

SyncTypes ==
  /\ turns \in 0 .. MaxTurns /\ persists \in 0 .. MaxPersists /\ sessionId \in 0 .. persists
  /\ base \in Nat /\ lastTurnCount \in Nat
  /\ base <= lastTurnCount /\ lastTurnCount <= turns
  /\ sessionId = 0 => lastTurnCount = 0
  /\ posts \subseteq Posts /\ fallback \subseteq 1 .. turns
  /\ unsaved \subseteq 1 .. turns /\ alive \in BOOLEAN
  /\ transcripts \in [1 .. MaxPersists -> Seq(Nat)]

\* Session s is about the turns after first[s] up to last[s]: the sessions follow one
\* another, and the current one reaches to the last turn handed over.
Cuts(first, last) ==
  /\ \A s \in 1 .. sessionId : first[s] <= last[s] /\ last[s] <= lastTurnCount
  /\ \A s, t \in 1 .. sessionId : s < t => last[s] <= first[t]
  /\ sessionId > 0 => first[sessionId] = base /\ last[sessionId] = lastTurnCount

\* A post starts where its session does.
PostsIn(first, last) ==
  \A p \in posts : /\ p.session \in 1 .. sessionId
                   /\ p.from = first[p.session] /\ p.from < p.to /\ p.to <= last[p.session]

\* Genesis holds, of each session, the turns from its start on.
HeldIn(first, last) ==
  \A s \in 1 .. MaxPersists :
    LET n == Len(transcripts[s]) IN
    /\ n > 0 => s \in 1 .. sessionId /\ first[s] + n <= last[s]
    /\ \A i \in 1 .. n : transcripts[s][i] = first[s] + i

Held(t) == \E s \in 1 .. MaxPersists : \E i \in 1 .. Len(transcripts[s]) : transcripts[s][i] = t

\* Every turn that was handed over is held, given up on, or in a post.
TurnsCovered ==
  \A t \in 1 .. lastTurnCount : Held(t) \/ t \in fallback \cup unsaved \/ \E p \in posts : p.from < t /\ t <= p.to

SyncInv ==
  /\ SyncTypes /\ TurnsCovered
  /\ \E first, last \in [1 .. MaxPersists -> Nat] :
       Cuts(first, last) /\ PostsIn(first, last) /\ HeldIn(first, last)

LEMMA SyncInit == Sync!Init => SyncInv
<1> SUFFICES ASSUME Sync!Init PROVE SyncInv
  OBVIOUS
<1> USE SyncAssumption
<1>1. transcripts = [s \in 1 .. MaxPersists |-> <<>>]
  BY DEF Sync!Init, Sync!Sessions
<1>2. SyncTypes
  BY <1>1 DEF Sync!Init, SyncTypes
<1> DEFINE z == [s \in 1 .. MaxPersists |-> 0]
<1>3. Cuts(z, z) /\ PostsIn(z, z)
  BY DEF Sync!Init, Cuts, PostsIn
<1>4. HeldIn(z, z)
  BY <1>1 DEF HeldIn
<1>5. z \in [1 .. MaxPersists -> Nat]
  OBVIOUS
<1>6. TurnsCovered
  BY DEF Sync!Init, TurnsCovered
<1> QED
  BY <1>2, <1>3, <1>4, <1>5, <1>6 DEF SyncInv

LEMMA PastIs ==
  ASSUME NEW q \in Seq(Nat), NEW n \in Nat, n < Len(q)
  PROVE  LET x == SubSeq(q, n + 1, Len(q)) IN
         x \in Seq(Nat) /\ Len(x) = Len(q) - n /\ \A i \in 1 .. Len(q) - n : x[i] = q[n + i]
<1>1. SubSeq(q, n + 1, Len(q)) \in Seq(Nat)
  OBVIOUS
<1>2. Len(SubSeq(q, n + 1, Len(q))) = Len(q) - n
  OBVIOUS
<1>3. \A i \in 1 .. Len(q) - n : SubSeq(q, n + 1, Len(q))[i] = q[n + i]
  OBVIOUS
<1> QED
  BY <1>1, <1>2, <1>3

\* What Genesis holds of a session once it has a post of it.
LEMMA AppendedIs ==
  ASSUME SyncTypes, NEW p \in Posts, p.from < p.to,
         \A i \in 1 .. Len(transcripts[p.session]) : transcripts[p.session][i] = p.from + i
  PROVE  LET a == Sync!Appended(p)
             n == Len(transcripts[p.session])
             k == IF n < p.to - p.from THEN p.to - p.from ELSE n
         IN  a \in Seq(Nat) /\ Len(a) = k /\ \A i \in 1 .. k : a[i] = p.from + i
<1> DEFINE held == transcripts[p.session]
           n == Len(held)
           m == p.to - p.from
           y == Sync!Payload(p)
<1>1. p.from \in Nat /\ p.to \in Nat /\ m \in Nat /\ held \in Seq(Nat) /\ n \in Nat
  BY DEF SyncTypes, Posts
<1>2. y \in Seq(Nat) /\ Len(y) = m /\ \A i \in 1 .. m : y[i] = p.from + i
  <2>1. y = [i \in 1 .. m |-> p.from + i]
    BY DEF Sync!Payload
  <2>2. \A i \in 1 .. m : p.from + i \in Nat
    BY <1>1
  <2> HIDE DEF y, m
  <2> QED
    BY <1>1, <2>1, <2>2
<1> HIDE DEF y, m
<1>3. CASE m <= n
  <2>1. Sync!Appended(p) = held
    BY <1>2, <1>3 DEF Sync!Appended, y
  <2> QED
    BY <1>1, <1>3, <2>1 DEF m
<1>4. CASE n < m
  <2> DEFINE x == SubSeq(y, n + 1, m)
  <2>1. Sync!Appended(p) = held \o x
    <3>1. ~(Len(y) <= n)
      BY <1>1, <1>2, <1>4
    <3>2. Sync!Appended(p) = held \o SubSeq(y, n + 1, Len(y))
      BY <3>1, Zenon DEF Sync!Appended, y
    <3> QED
      BY <1>2, <3>2
  <2>2. x \in Seq(Nat) /\ Len(x) = m - n /\ \A i \in 1 .. m - n : x[i] = y[n + i]
    <3>1. x = SubSeq(y, n + 1, Len(y)) /\ n < Len(y) /\ Len(y) = m
      BY <1>2, <1>4
    <3>2. y \in Seq(Nat) /\ n \in Nat
      BY <1>1, <1>2
    <3> HIDE DEF n
    <3>3. /\ SubSeq(y, n + 1, Len(y)) \in Seq(Nat) /\ Len(SubSeq(y, n + 1, Len(y))) = Len(y) - n
          /\ \A i \in 1 .. Len(y) - n : SubSeq(y, n + 1, Len(y))[i] = y[n + i]
      BY <3>1, <3>2, PastIs
    <3> HIDE DEF x
    <3> QED
      BY <3>1, <3>3
  <2> HIDE DEF x
  <2>3. held \o x \in Seq(Nat) /\ Len(held \o x) = m
    BY <1>1, <2>2
  <2>4. \A i \in 1 .. m : (held \o x)[i] = IF i <= n THEN held[i] ELSE x[i - n]
    BY <1>1, <2>2
  <2>5. \A i \in 1 .. m : (held \o x)[i] = p.from + i
    <3> TAKE i \in 1 .. m
    <3>1. CASE i <= n
      <4>1. i \in 1 .. n
        BY <1>1, <3>1
      <4>2. (held \o x)[i] = held[i]
        BY <2>4, <3>1
      <4> QED
        BY <4>1, <4>2
    <3>2. CASE ~(i <= n)
      <4>1. i - n \in 1 .. m - n /\ n + (i - n) = i
        BY <1>1, <3>2
      <4>2. x[i - n] = y[i]
        BY <2>2, <4>1
      <4>3. (held \o x)[i] = x[i - n]
        BY <2>4, <3>2
      <4> QED
        BY <1>2, <4>2, <4>3
    <3> QED
      BY <3>1, <3>2
  <2> QED
    BY <1>1, <1>4, <2>1, <2>3, <2>5 DEF m
<1>5. m <= n \/ n < m
  BY <1>1
<1> QED
  BY <1>3, <1>4, <1>5

\* A post that Genesis stores extends what it holds of the session to the end of the post.
LEMMA StoreKeeps ==
  ASSUME SyncTypes, NEW first \in [1 .. MaxPersists -> Nat], NEW last \in [1 .. MaxPersists -> Nat],
         PostsIn(first, last), HeldIn(first, last),
         NEW p \in posts, Sync!Stored(p) \/ UNCHANGED transcripts, UNCHANGED sessionId
  PROVE  /\ transcripts' \in [1 .. MaxPersists -> Seq(Nat)]
         /\ HeldIn(first, last)'
         /\ \A t : Held(t) => Held(t)'
         /\ Sync!Stored(p) => \A t \in Nat : p.from < t /\ t <= p.to => Held(t)'
<1> DEFINE a == Sync!Appended(p)
           n == Len(transcripts[p.session])
           k == IF n < p.to - p.from THEN p.to - p.from ELSE n
<1>1. /\ p \in Posts /\ p.session \in 1 .. MaxPersists /\ p.from \in Nat /\ p.to \in Nat
      /\ transcripts[p.session] \in Seq(Nat) /\ n \in Nat
  BY DEF SyncTypes, Posts
<1>2. /\ p.session \in 1 .. sessionId /\ p.from = first[p.session] /\ p.from < p.to
      /\ p.to <= last[p.session]
  BY DEF PostsIn
<1>3. /\ n > 0 => first[p.session] + n <= last[p.session]
      /\ \A i \in 1 .. n : transcripts[p.session][i] = p.from + i
  BY <1>1, <1>2 DEF HeldIn
<1>4. a \in Seq(Nat) /\ Len(a) = k /\ \A i \in 1 .. k : a[i] = p.from + i
  BY <1>1, <1>2, <1>3, AppendedIs
<1>5. k \in Nat /\ n <= k /\ p.to - p.from <= k /\ k > 0 /\ first[p.session] + k <= last[p.session]
  BY SMTT(30), <1>1, <1>2, <1>3
<1>6. ASSUME UNCHANGED transcripts
      PROVE  /\ transcripts' \in [1 .. MaxPersists -> Seq(Nat)] /\ HeldIn(first, last)'
             /\ \A t : Held(t) => Held(t)'
  BY <1>6 DEF SyncTypes, HeldIn, Held
<1> HIDE DEF a, n, k
<1>7. ASSUME Sync!Stored(p)
      PROVE  /\ transcripts' \in [1 .. MaxPersists -> Seq(Nat)] /\ HeldIn(first, last)'
             /\ \A t : Held(t) => Held(t)'
             /\ \A t \in Nat : p.from < t /\ t <= p.to => Held(t)'
  <2>1. transcripts' = [transcripts EXCEPT ![p.session] = a]
    BY <1>7 DEF Sync!Stored, a
  <2>2. /\ transcripts' \in [1 .. MaxPersists -> Seq(Nat)] /\ transcripts'[p.session] = a
        /\ \A s \in 1 .. MaxPersists : s # p.session => transcripts'[s] = transcripts[s]
    BY <1>1, <1>4, <2>1 DEF SyncTypes
  <2>3. HeldIn(first, last)'
    <3> SUFFICES ASSUME NEW s \in 1 .. MaxPersists
                 PROVE  /\ Len(transcripts'[s]) > 0 =>
                             s \in 1 .. sessionId /\ first[s] + Len(transcripts'[s]) <= last[s]
                        /\ \A i \in 1 .. Len(transcripts'[s]) : transcripts'[s][i] = first[s] + i
      BY DEF HeldIn
    <3>1. CASE s = p.session
      BY <1>2, <1>4, <1>5, <2>2, <3>1
    <3>2. CASE s # p.session
      BY <2>2, <3>2 DEF HeldIn
    <3> QED
      BY <3>1, <3>2
  <2>4. ASSUME NEW t, Held(t) PROVE Held(t)'
    <3>0. PICK s \in 1 .. MaxPersists : \E i \in 1 .. Len(transcripts[s]) : transcripts[s][i] = t
      BY <2>4 DEF Held
    <3>1. PICK i \in 1 .. Len(transcripts[s]) : transcripts[s][i] = t
      BY <3>0
    <3>2. CASE s = p.session
      <4>1. i \in 1 .. n /\ i \in 1 .. k
        BY <1>1, <1>5, <3>1, <3>2 DEF n
      <4>2. a[i] = t
        BY <1>3, <1>4, <3>1, <3>2, <4>1
      <4> QED
        BY <1>1, <1>4, <2>2, <4>1, <4>2 DEF Held
    <3>3. CASE s # p.session
      BY <2>2, <3>1, <3>3 DEF Held
    <3> QED
      BY <3>2, <3>3
  <2>5. ASSUME NEW t \in Nat, p.from < t, t <= p.to PROVE Held(t)'
    <3>1. t - p.from \in 1 .. k /\ p.from + (t - p.from) = t
      BY <1>1, <1>5, <2>5
    <3>2. a[t - p.from] = t
      BY <1>4, <3>1
    <3> QED
      BY <1>1, <1>4, <2>2, <3>1, <3>2 DEF Held
  <2> QED
    BY <2>2, <2>3, <2>4, <2>5
<1> QED
  BY <1>6, <1>7

\* A post ends: what it carried is held, in a file or known not to be, or is posted again.
LEMMA PostEnds ==
  ASSUME SyncInv, NEW p \in posts, Sync!Stored(p) \/ UNCHANGED transcripts,
         UNCHANGED <<turns, sessionId, base, lastTurnCount, persists>>,
         UNCHANGED alive,
         \/ posts' = posts \ {p} /\ Sync!Stored(p) /\ UNCHANGED <<fallback, unsaved>>
         \/ posts' = posts \ {p} /\ Sync!Saved(p)
         \/ /\ p.attempt # MaxAttempts /\ UNCHANGED <<fallback, unsaved>>
            /\ posts' = (posts \ {p}) \cup {[p EXCEPT !.attempt = p.attempt + 1]}
  PROVE  SyncInv'
<1> USE SyncAssumption
<1> DEFINE q == [p EXCEPT !.attempt = p.attempt + 1]
<1>0. SyncTypes /\ p \in Posts /\ p.from \in Nat /\ p.to \in Nat
  BY DEF SyncInv, SyncTypes, Posts
<1>1. PICK first, last \in [1 .. MaxPersists -> Nat] :
        Cuts(first, last) /\ PostsIn(first, last) /\ HeldIn(first, last)
  BY DEF SyncInv
<1>2. /\ transcripts' \in [1 .. MaxPersists -> Seq(Nat)]
      /\ HeldIn(first, last)'
      /\ \A t : Held(t) => Held(t)'
      /\ Sync!Stored(p) => \A t \in Nat : p.from < t /\ t <= p.to => Held(t)'
  BY <1>0, <1>1, StoreKeeps
<1>3. Cuts(first, last)'
  BY <1>1 DEF Cuts
<1>4. /\ q.session = p.session /\ q.from = p.from /\ q.to = p.to
      /\ p.attempt # MaxAttempts => q \in Posts
  <2>1. p.attempt # MaxAttempts => p.attempt + 1 \in 1 .. MaxAttempts
    BY <1>0 DEF Posts
  <2> QED
    BY <1>0, <2>1 DEF Posts
<1> HIDE DEF q
<1>5. posts' \subseteq posts \cup {q} /\ posts \ {p} \subseteq posts'
  BY DEF q
<1>c. /\ fallback \cup unsaved \subseteq fallback' \cup unsaved'
      /\ fallback' \subseteq fallback \cup (p.from + 1 .. p.to)
      /\ unsaved' \subseteq unsaved \cup (p.from + 1 .. p.to)
      /\ \/ posts' = posts \ {p} /\ Sync!Stored(p)
         \/ p.from + 1 .. p.to \subseteq fallback' \cup unsaved'
         \/ q \in posts'
  BY DEF q, Sync!Saved, Sync!Carried
<1>6. PostsIn(first, last)'
  BY <1>1, <1>4, <1>5 DEF PostsIn
<1>7. /\ p.session \in 1 .. sessionId /\ p.from < p.to /\ p.to <= lastTurnCount
  BY SMTT(30), <1>0, <1>1 DEF PostsIn, Cuts, SyncTypes, Posts
<1>8. fallback' \subseteq 1 .. turns /\ unsaved' \subseteq 1 .. turns
  <2>1. p.from + 1 .. p.to \subseteq 1 .. turns
    BY <1>0, <1>7 DEF SyncTypes
  <2> QED
    BY <1>0, <1>c, <2>1 DEF SyncTypes
<1>9. posts' \subseteq Posts
  BY <1>0, <1>4, <1>5 DEF SyncTypes, q
<1>10. SyncTypes'
  BY <1>0, <1>2, <1>8, <1>9 DEF SyncTypes
<1>11. TurnsCovered'
  <2> SUFFICES ASSUME NEW t \in 1 .. lastTurnCount
               PROVE  Held(t)' \/ t \in fallback' \cup unsaved' \/ \E x \in posts' : x.from < t /\ t <= x.to
    BY DEF TurnsCovered
  <2>1. t \in Nat
    BY <1>0 DEF SyncTypes
  <2>2. Held(t) \/ t \in fallback \cup unsaved \/ \E x \in posts : x.from < t /\ t <= x.to
    BY DEF SyncInv, TurnsCovered
  <2>3. CASE Held(t) \/ t \in fallback \cup unsaved
    BY <1>2, <1>c, <2>3
  <2>4. CASE \E x \in posts \ {p} : x.from < t /\ t <= x.to
    BY <1>5, <2>4
  <2>5. CASE p.from < t /\ t <= p.to
    <3>1. t \in p.from + 1 .. p.to
      BY <1>0, <2>1, <2>5
    <3>2. CASE q \in posts'
      BY <1>4, <2>5, <3>2
    <3> QED
      BY <1>2, <1>c, <2>1, <2>5, <3>1, <3>2
  <2> QED
    BY <2>2, <2>3, <2>4, <2>5
<1> QED
  BY <1>1, <1>2, <1>3, <1>6, <1>10, <1>11 DEF SyncInv

\* A disconnect goes on with the current transcript, or begins one where the last one ended.
LEMMA ConversationKeeps ==
  ASSUME SyncInv, NEW gap \in BOOLEAN, Sync!SyncConversation(gap)
  PROVE  SyncInv'
<1> USE SyncAssumption
<1> DEFINE n == IF gap \/ sessionId = 0 THEN sessionId + 1 ELSE sessionId
           b == IF gap THEN lastTurnCount ELSE base
           new == [id |-> persists, session |-> n, from |-> b, to |-> turns, attempt |-> 1]
<1>0. SyncTypes /\ TurnsCovered
  BY DEF SyncInv
<1>1. /\ turns \in Nat \ {0} /\ turns <= MaxTurns /\ persists \in Nat /\ sessionId \in Nat
      /\ sessionId <= persists /\ lastTurnCount \in Nat /\ lastTurnCount <= turns
      /\ base \in Nat /\ base <= lastTurnCount /\ persists + 1 <= MaxPersists
  BY DEF SyncInv, SyncTypes, Sync!SyncConversation
<1>2. PICK first, last \in [1 .. MaxPersists -> Nat] :
        Cuts(first, last) /\ PostsIn(first, last) /\ HeldIn(first, last)
  BY DEF SyncInv
<1>3. /\ persists' = persists + 1 /\ sessionId' = n /\ base' = b /\ lastTurnCount' = turns
      /\ posts' = IF b = turns THEN posts ELSE posts \cup {new}
      /\ UNCHANGED <<turns, transcripts, fallback, unsaved, alive>>
  BY DEF Sync!SyncConversation, Sync!NewBase, Sync!kept
<1>4. /\ n \in 1 .. MaxPersists /\ n <= persists + 1 /\ sessionId <= n
      /\ b \in Nat /\ b <= lastTurnCount
      /\ n = sessionId \/ (n = sessionId + 1 /\ b = lastTurnCount)
      /\ n = sessionId => b = base
  <2>1. sessionId = 0 => lastTurnCount = 0
    BY <1>0 DEF SyncTypes
  <2>2. CASE gap
    BY <1>1, <2>2
  <2>3. CASE ~gap
    BY <1>1, <2>1, <2>3
  <2> QED
    BY <2>2, <2>3
<1>5. new.session = n /\ new.from = b /\ new.to = turns
  OBVIOUS
<1>6. b # turns => new \in Posts
  BY <1>1, <1>4 DEF Posts
<1> HIDE DEF n, b, new
<1>7. SyncTypes'
  <2>1. posts' \subseteq Posts
    BY <1>0, <1>3, <1>6 DEF SyncTypes
  <2> QED
    BY <1>0, <1>1, <1>3, <1>4, <2>1 DEF SyncTypes
\* Session n starts at b, or did already, and reaches to the turns of now.
<1>8. PICK f, l \in [1 .. MaxPersists -> Nat] :
        /\ f[n] = b /\ l[n] = turns
        /\ \A s \in 1 .. MaxPersists : s # n => f[s] = first[s] /\ l[s] = last[s]
  <2>1. [first EXCEPT ![n] = b] \in [1 .. MaxPersists -> Nat]
    BY <1>4
  <2>2. [last EXCEPT ![n] = turns] \in [1 .. MaxPersists -> Nat]
    BY <1>1
  <2> QED
    BY <1>1, <1>4, <2>1, <2>2
<1>9. \A s \in 1 .. sessionId : s # n => first[s] <= last[s] /\ last[s] <= b
  <2> SUFFICES ASSUME NEW s \in 1 .. sessionId, s # n PROVE first[s] <= last[s] /\ last[s] <= b
    OBVIOUS
  <2>1. s \in 1 .. MaxPersists /\ sessionId \in 1 .. sessionId /\ sessionId > 0
    BY <1>1
  <2>2. first[s] <= last[s] /\ last[s] <= lastTurnCount
    BY <1>2 DEF Cuts
  <2>3. CASE n = sessionId
    <3>1. s < sessionId
      BY <1>1, <2>3
    <3>2. last[s] <= first[sessionId] /\ first[sessionId] = base
      BY <1>2, <2>1, <3>1 DEF Cuts
    <3> QED
      BY <1>4, <2>2, <2>3, <3>2
  <2> QED
    BY <1>4, <2>2, <2>3
<1>10. n = sessionId => first[n] = b /\ last[n] = lastTurnCount
  BY <1>2, <1>4 DEF Cuts
<1>11. \A s \in 1 .. n : s \in 1 .. MaxPersists /\ (s # n => s \in 1 .. sessionId)
  BY <1>1, <1>4
<1>12. Cuts(f, l)'
  <2>1. \A s \in 1 .. n : f[s] <= l[s] /\ l[s] <= turns
    <3> TAKE s \in 1 .. n
    <3>1. CASE s = n
      BY <1>1, <1>4, <1>8, <3>1
    <3>2. CASE s # n
      <4>1. f[s] = first[s] /\ l[s] = last[s] /\ first[s] \in Nat /\ last[s] \in Nat
        BY <1>8, <1>11, <3>2
      <4> QED
        BY <1>1, <1>4, <1>9, <1>11, <3>2, <4>1
    <3> QED
      BY <3>1, <3>2
  <2>2. \A s, t \in 1 .. n : s < t => l[s] <= f[t]
    <3> SUFFICES ASSUME NEW s \in 1 .. n, NEW t \in 1 .. n, s < t PROVE l[s] <= f[t]
      OBVIOUS
    <3>1. s # n /\ s \in 1 .. sessionId /\ s \in 1 .. MaxPersists /\ l[s] = last[s]
      BY <1>1, <1>4, <1>8, <1>11
    <3>2. CASE t = n
      BY <1>8, <1>9, <3>1, <3>2
    <3>3. CASE t # n
      <4>1. t \in 1 .. sessionId /\ f[t] = first[t]
        BY <1>8, <1>11, <3>3
      <4> QED
        BY <1>2, <3>1, <4>1 DEF Cuts
    <3> QED
      BY <3>2, <3>3
  <2> QED
    BY <1>3, <1>8, <2>1, <2>2 DEF Cuts
<1>13. PostsIn(f, l)'
  <2> SUFFICES ASSUME NEW p \in posts'
               PROVE  /\ p.session \in 1 .. n /\ p.from = f[p.session] /\ p.from < p.to
                      /\ p.to <= l[p.session]
    BY <1>3 DEF PostsIn
  <2>1. CASE p \in posts
    <3>1. /\ p.session \in 1 .. sessionId /\ p.from = first[p.session] /\ p.from < p.to
          /\ p.to <= last[p.session] /\ p.from \in Nat /\ p.to \in Nat
          /\ p.session \in 1 .. MaxPersists
      BY <1>0, <1>2, <2>1 DEF PostsIn, SyncTypes, Posts
    <3>2. p.session \in 1 .. n
      BY <1>1, <1>4, <3>1
    <3>3. CASE p.session # n
      BY <1>8, <3>1, <3>2, <3>3
    <3>4. CASE p.session = n
      <4>1. n = sessionId
        BY <1>1, <1>4, <3>1, <3>4
      <4>2. p.from = b /\ p.to <= lastTurnCount
        BY <1>10, <3>1, <3>4, <4>1
      <4>3. f[p.session] = b /\ l[p.session] = turns
        BY <1>8, <3>4
      <4>4. p.to <= turns
        BY <1>1, <3>1, <4>2
      <4> QED
        BY <3>1, <3>2, <4>2, <4>3, <4>4
    <3> QED
      BY <3>3, <3>4
  <2>2. CASE p = new /\ b # turns
    BY <1>1, <1>4, <1>5, <1>8, <2>2
  <2> QED
    BY <1>3, <2>1, <2>2
<1>14. HeldIn(f, l)'
  <2> SUFFICES ASSUME NEW s \in 1 .. MaxPersists
               PROVE  /\ Len(transcripts[s]) > 0 =>
                           s \in 1 .. n /\ f[s] + Len(transcripts[s]) <= l[s]
                      /\ \A i \in 1 .. Len(transcripts[s]) : transcripts[s][i] = f[s] + i
    BY <1>3 DEF HeldIn
  <2>1. /\ Len(transcripts[s]) > 0 =>
             s \in 1 .. sessionId /\ first[s] + Len(transcripts[s]) <= last[s]
        /\ \A i \in 1 .. Len(transcripts[s]) : transcripts[s][i] = first[s] + i
    BY <1>2 DEF HeldIn
  <2>2. Len(transcripts[s]) \in Nat
    BY <1>0 DEF SyncTypes
  <2>3. CASE s # n
    <3>1. f[s] = first[s] /\ l[s] = last[s]
      BY <1>8, <2>3
    <3>2. s \in 1 .. sessionId => s \in 1 .. n
      BY <1>1, <1>4
    <3> QED
      BY <2>1, <3>1, <3>2
  <2>4. CASE s = n /\ n = sessionId
    <3>1. f[s] = first[s] /\ l[s] = turns /\ last[s] = lastTurnCount
      BY <1>8, <1>10, <2>4
    <3>2. s \in 1 .. n
      BY <1>4, <2>4
    <3>3. ASSUME Len(transcripts[s]) > 0 PROVE f[s] + Len(transcripts[s]) <= l[s]
      <4>1. first[s] \in Nat
        OBVIOUS
      <4> QED
        BY SMTT(30), <1>1, <2>1, <2>2, <3>1, <3>3, <4>1
    <3> QED
      BY <2>1, <3>1, <3>2, <3>3
  <2>5. CASE s = n /\ n # sessionId
    <3>1. s \notin 1 .. sessionId
      BY <1>1, <1>4, <2>5
    <3>2. Len(transcripts[s]) = 0
      BY <2>1, <2>2, <3>1
    <3> QED
      BY <3>2
  <2> QED
    BY <2>3, <2>4, <2>5
<1>15. TurnsCovered'
  <2> SUFFICES ASSUME NEW t \in 1 .. turns
               PROVE  Held(t)' \/ t \in fallback' \cup unsaved' \/ \E p \in posts' : p.from < t /\ t <= p.to
    BY <1>3 DEF TurnsCovered
  <2>1. posts \subseteq posts'
    BY <1>3
  <2>2. CASE t \in 1 .. lastTurnCount
    <3>1. Held(t) \/ t \in fallback \cup unsaved \/ \E p \in posts : p.from < t /\ t <= p.to
      BY <1>0, <2>2 DEF TurnsCovered
    <3>2. Held(t) => Held(t)'
      BY <1>3 DEF Held
    <3> QED
      BY <1>3, <2>1, <3>1, <3>2
  <2>3. CASE t > lastTurnCount
    <3>1. b < t /\ t <= turns /\ b # turns
      BY <1>1, <1>4, <2>3
    <3>2. new \in posts'
      BY <1>3, <3>1
    <3> QED
      BY <1>5, <3>1, <3>2
  <2> QED
    BY <1>1, <2>2, <2>3
<1> QED
  BY <1>7, <1>8, <1>12, <1>13, <1>14, <1>15 DEF SyncInv

LEMMA SyncStep == SyncInv /\ [Sync!Next]_syncVars => SyncInv'
<1> SUFFICES ASSUME SyncInv, [Sync!Next]_syncVars PROVE SyncInv'
  OBVIOUS
<1> USE SyncAssumption
<1>1. ASSUME UNCHANGED <<sessionId, base, lastTurnCount, posts, persists, transcripts, fallback, unsaved>>,
             turns' \in turns .. MaxTurns, alive' \in BOOLEAN
      PROVE  SyncInv'
  <2>0. SyncTypes /\ turns \in Nat
    BY DEF SyncInv, SyncTypes
  <2>1. SyncTypes'
    BY <1>1, <2>0 DEF SyncTypes
  <2>2. TurnsCovered'
    BY <1>1 DEF SyncInv, TurnsCovered, Held
  <2>3. PICK first, last \in [1 .. MaxPersists -> Nat] :
          Cuts(first, last) /\ PostsIn(first, last) /\ HeldIn(first, last)
    BY DEF SyncInv
  <2>4. Cuts(first, last)' /\ PostsIn(first, last)' /\ HeldIn(first, last)'
    BY <1>1, <2>3 DEF Cuts, PostsIn, HeldIn
  <2> QED
    BY <2>1, <2>2, <2>3, <2>4 DEF SyncInv
<1>2. CASE Sync!Talk
  <2>1. turns' \in turns .. MaxTurns /\ alive' \in BOOLEAN
    BY <1>2 DEF Sync!Talk, SyncInv, SyncTypes
  <2> QED
    BY <1>1, <1>2, <2>1 DEF Sync!Talk, Sync!kept
<1>3. CASE \E gap \in BOOLEAN : Sync!SyncConversation(gap)
  BY <1>3, ConversationKeeps
<1>4. ASSUME NEW p \in posts, Sync!PostAccepted(p) PROVE SyncInv'
  BY <1>4, PostEnds DEF Sync!PostAccepted, Sync!PostKeeps, Sync!kept
<1>5. ASSUME NEW p \in posts, Sync!PostFails(p) PROVE SyncInv'
  BY <1>5, PostEnds DEF Sync!PostFails, Sync!PostKeeps, Sync!OutOfAttempts, Sync!kept
<1>6. ASSUME NEW p \in posts, Sync!PostRefused(p) PROVE SyncInv'
  BY <1>6, PostEnds DEF Sync!PostRefused, Sync!PostKeeps
<1>7. CASE UNCHANGED syncVars \/ Sync!Killed
  <2>1. turns \in turns .. MaxTurns /\ alive \in BOOLEAN
    BY DEF SyncInv, SyncTypes
  <2> QED
    BY <1>1, <1>7, <2>1 DEF syncVars, Sync!Killed, Sync!kept
<1> QED
  BY <1>2, <1>3, <1>4, <1>5, <1>6, <1>7 DEF Sync!Next

LEMMA SyncCardinality == \A S : Sync!Cardinality(S) = Cardinality(S)
BY DEF Sync!Cardinality, Cardinality

\* The sessions' ranges are apart, so a turn has one place; and it has one, or is on its way.
LEMMA SyncSuffices == SyncInv => Sync!TypeOK /\ Sync!EachTurnOnce
<1> SUFFICES ASSUME SyncInv PROVE Sync!TypeOK /\ Sync!EachTurnOnce
  OBVIOUS
<1> USE SyncAssumption
<1>0. SyncTypes /\ TurnsCovered
  BY DEF SyncInv
<1>1. PICK first, last \in [1 .. MaxPersists -> Nat] :
        Cuts(first, last) /\ PostsIn(first, last) /\ HeldIn(first, last)
  BY DEF SyncInv
<1>2. Sync!TypeOK
  <2>1. \A p \in posts : p.session \in 1 .. MaxPersists /\ p.from < p.to /\ p.attempt \in 1 .. MaxAttempts
    BY <1>0, <1>1 DEF SyncTypes, Posts, PostsIn
  <2>2. /\ turns \in 0 .. MaxTurns /\ base \in 0 .. turns /\ lastTurnCount \in 0 .. turns
        /\ sessionId \in 0 .. MaxPersists /\ fallback \subseteq 1 .. turns
        /\ unsaved \subseteq 1 .. turns /\ alive \in BOOLEAN
    BY <1>0 DEF SyncTypes
  <2> QED
    BY <2>1, <2>2 DEF Sync!TypeOK, Sync!Sessions
<1>3. ASSUME NEW s \in 1 .. MaxPersists, NEW i \in 1 .. Len(transcripts[s])
      PROVE  /\ s \in 1 .. sessionId /\ transcripts[s][i] = first[s] + i
             /\ first[s] + i <= last[s] /\ last[s] <= MaxTurns /\ i \in 1 .. MaxTurns
  <2>1. Len(transcripts[s]) \in Nat /\ Len(transcripts[s]) > 0 /\ first[s] \in Nat /\ last[s] \in Nat
    BY <1>0, <1>3 DEF SyncTypes
  <2>2. /\ s \in 1 .. sessionId /\ first[s] + Len(transcripts[s]) <= last[s]
        /\ transcripts[s][i] = first[s] + i
    BY <1>1, <2>1 DEF HeldIn
  <2>3. last[s] <= lastTurnCount /\ lastTurnCount \in Nat /\ lastTurnCount <= MaxTurns
    BY <1>0, <1>1, <2>2 DEF Cuts, SyncTypes
  <2> QED
    BY SMTT(30), <2>1, <2>2, <2>3
<1>4. ASSUME NEW t \in 1 .. turns PROVE Sync!Cardinality(Sync!Holding(t)) <= 1
  <2>1. ASSUME NEW x \in Sync!Holding(t), NEW y \in Sync!Holding(t) PROVE x = y
    <3>1. /\ x \in (1 .. MaxPersists) \X (1 .. MaxTurns) /\ x[2] <= Len(transcripts[x[1]])
          /\ transcripts[x[1]][x[2]] = t
      BY <2>1 DEF Sync!Holding, Sync!Sessions
    <3>2. /\ y \in (1 .. MaxPersists) \X (1 .. MaxTurns) /\ y[2] <= Len(transcripts[y[1]])
          /\ transcripts[y[1]][y[2]] = t
      BY <2>1 DEF Sync!Holding, Sync!Sessions
    <3>3. PICK s \in 1 .. MaxPersists, i \in 1 .. MaxTurns : x = <<s, i>>
      BY <3>1
    <3>4. PICK u \in 1 .. MaxPersists, j \in 1 .. MaxTurns : y = <<u, j>>
      BY <3>2
    <3>5. Len(transcripts[s]) \in Nat /\ Len(transcripts[u]) \in Nat
      BY <1>0 DEF SyncTypes
    <3>6. i \in 1 .. Len(transcripts[s]) /\ transcripts[s][i] = t
      BY SMTT(30), <3>1, <3>3, <3>5
    <3>7. j \in 1 .. Len(transcripts[u]) /\ transcripts[u][j] = t
      BY <3>2, <3>4, <3>5
    <3>8. /\ s \in 1 .. sessionId /\ t = first[s] + i /\ t <= last[s]
          /\ u \in 1 .. sessionId /\ t = first[u] + j /\ t <= last[u]
          /\ first[s] \in Nat /\ last[s] \in Nat /\ first[u] \in Nat /\ last[u] \in Nat
      BY SMTT(30), <1>3, <3>6, <3>7
    <3>9. s = u
      <4>1. ~(s < u)
        BY <1>1, <3>8 DEF Cuts
      <4>2. ~(u < s)
        BY <1>1, <3>8 DEF Cuts
      <4> QED
        BY <4>1, <4>2
    <3> QED
      BY <3>3, <3>4, <3>8, <3>9
  <2>2. CASE Sync!Holding(t) = {}
    <3>1. Cardinality({}) = 0
      BY FS_EmptySet
    <3> QED
      BY <2>2, <3>1, SyncCardinality
  <2>3. CASE Sync!Holding(t) # {}
    <3>1. PICK x : x \in Sync!Holding(t)
      BY <2>3
    <3>2. Sync!Holding(t) = {x}
      BY <2>1, <3>1
    <3>3. Cardinality({x}) = 1
      BY FS_Singleton
    <3> QED
      BY <3>2, <3>3, SyncCardinality
  <2> QED
    BY <2>2, <2>3
<1>5. ASSUME NEW t \in 1 .. turns, t <= lastTurnCount
      PROVE  Sync!Holding(t) # {} \/ t \in fallback \cup unsaved \/ \E p \in posts : t \in Sync!Carried(p)
  <2>1. t \in 1 .. lastTurnCount
    BY <1>0, <1>5 DEF SyncTypes
  <2>2. Held(t) \/ t \in fallback \cup unsaved \/ \E p \in posts : t \in Sync!Carried(p)
    <3>1. \A p \in posts : p.from \in Nat /\ p.to \in Nat
      BY <1>0 DEF SyncTypes, Posts
    <3>2. Held(t) \/ t \in fallback \cup unsaved \/ \E p \in posts : p.from < t /\ t <= p.to
      BY <1>0, <2>1 DEF TurnsCovered
    <3> QED
      BY <2>1, <3>1, <3>2 DEF Sync!Carried
  <2>3. CASE Held(t)
    <3>1. PICK s \in 1 .. MaxPersists : \E i \in 1 .. Len(transcripts[s]) : transcripts[s][i] = t
      BY <2>3 DEF Held
    <3>2. PICK i \in 1 .. Len(transcripts[s]) : transcripts[s][i] = t
      BY <3>1
    <3>3. <<s, i>> \in Sync!Holding(t)
      BY <1>3, <3>2 DEF Sync!Holding, Sync!Sessions
    <3> QED
      BY <3>3
  <2> QED
    BY <2>2, <2>3
<1>6. Sync!EachTurnOnce
  BY <1>4, <1>5 DEF Sync!EachTurnOnce
<1> QED
  BY <1>2, <1>6

(***************************************************************************)
(* TranscriptSync: no turn reaches Genesis twice, and none that a          *)
(* disconnect handed over is lost, however posts overlap, fail after they  *)
(* were stored or are retried, and wherever the sessions are cut; but for  *)
(* a file that could not be written (_write_fallback only logs that), and  *)
(* a post under way when the process was killed.                           *)
(***************************************************************************)
THEOREM TurnsOnce == MCSpec => []EachTurnOnce
<1>1. MCInit => SyncInv
  BY SyncInit DEF MCInit
<1>2. SyncInv /\ [MCNext]_mcVars => SyncInv'
  BY StepOfEach, SyncStep
<1>3. SyncInv => EachTurnOnce
  BY SyncSuffices DEF EachTurnOnce
<1> QED
  BY <1>1, <1>2, <1>3, PTL DEF MCSpec

-----------------------------------------------------------------------------
(***************************************************************************)
(* Every variable of the five components stays within its type.            *)
(***************************************************************************)
THEOREM TypesCorrect == MCSpec => []TypesOK
<1>1. MCInit => LockTableInv /\ SyncInv /\ ListenInv /\ RelayInv /\ ManagedInv
  BY InvariantInit, SyncInit, ListenInit, RelayInit, ManagedInit DEF MCInit
<1>2. /\ LockTableInv /\ SyncInv /\ ListenInv /\ RelayInv /\ ManagedInv
      /\ [MCNext]_mcVars
      => (LockTableInv /\ SyncInv /\ ListenInv /\ RelayInv /\ ManagedInv)'
  BY StepOfEach, InvariantStep, SyncStep, ListenStep, RelayStep, ManagedStep
<1>3. LockTableInv /\ SyncInv /\ ListenInv /\ RelayInv /\ ManagedInv => TypesOK
  BY SyncSuffices, ListenSuffices, RelaySuffices, ManagedSuffices DEF TypesOK, LockTableInv
<1> QED
  BY <1>1, <1>2, <1>3, PTL DEF MCSpec
=============================================================================
