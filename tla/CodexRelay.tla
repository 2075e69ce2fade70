------------------------------ MODULE CodexRelay ------------------------------
(* Installing and removing the Codex voice relay (bridges/codex_voice/         *)
(* bridge.py install, uninstall, run): the packaged helper is replaced by a    *)
(* launcher, its original kept beside it, and a config file in the state       *)
(* directory says what was done.  Each file is written atomically, in an order *)
(* that a crash may cut; npm replaces the whole package at any time it is run. *)
EXTENDS Integers, FiniteSets

CONSTANTS
    StateDirs,      \* state directories that may install
    Builds,         \* builds npm may install
    Pythons,        \* interpreters, which the launcher's text names
    MaxUpdates,     \* bound: npm installs
    UpdatesAnytime  \* npm may run while an installer does

VARIABLES
    native,      \* build of the package, as its manifest says
    helper,      \* [kind: "original", "relay"; by: build or launcher]
    backups,     \* builds whose original helper is kept beside it
    python,
    relayConfig, \* state dir -> [build, launcher], or NoConfig
    op,          \* state dir -> the command running: [step, build, ours]
    helperLock,  \* who holds the lock beside the helper
    updates

vars == <<native, helper, backups, python, relayConfig, op, helperLock, updates>>
files == <<helper, backups, relayConfig>>

NoConfig == [build |-> 0, launcher |-> <<>>]
NoOp == [step |-> "none", build |-> 0, ours |-> FALSE]
Nobody == "nobody"
Original(b) == [kind |-> "original", by |-> b]
Relay(l) == [kind |-> "relay", by |-> l]
Launcher(d) == <<d, python>>
Owns(d) == relayConfig[d] # NoConfig /\ helper = Relay(relayConfig[d].launcher)
SetStep(d, s) == op' = [op EXCEPT ![d].step = s]
Release(d) ==
    /\ op' = [op EXCEPT ![d] = NoOp]
    /\ helperLock' = IF helperLock = d THEN Nobody ELSE helperLock

Init ==
    /\ native \in Builds /\ helper = Original(native) /\ backups = {} /\ python \in Pythons
    /\ relayConfig = [d \in StateDirs |-> NoConfig] /\ op = [d \in StateDirs |-> NoOp]
    /\ helperLock = Nobody /\ updates = 0

(* package_at: the manifest is read before the locks are taken. *)
Probe(d) ==
    /\ op[d] = NoOp /\ op' = [op EXCEPT ![d] = [NoOp EXCEPT !.step = "probed", !.build = native]]
    /\ UNCHANGED <<native, files, python, helperLock, updates>>
(* Under both locks: the helper must be the manifest's original, or our relay  *)
(* over the same build.  Then Windows is set up over SSH.                      *)
Installable(d) ==
    LET ours == Owns(d)
    IN  (ours => relayConfig[d].build = op[d].build) /\ (ours \/ helper = Original(op[d].build))
InstallCheck(d) ==
    /\ op[d].step = "probed" /\ helperLock = Nobody /\ Installable(d)
    /\ op' = [op EXCEPT ![d].step = "checked", ![d].ours = Owns(d)] /\ helperLock' = d
    /\ UNCHANGED <<native, files, python, updates>>
\* Mutated form: the original is not kept.
InstallNoBackup(d) ==
    /\ op[d].step = "checked" /\ SetStep(d, "backed")
    /\ UNCHANGED <<native, helper, backups, python, relayConfig, helperLock, updates>>

(* The backup is the verified original; a missing one cannot be made again.    *)
InstallBackup(d) ==
    /\ op[d].step = "checked" /\ SetStep(d, "backed")
    /\ op[d].build \in backups \/ ~op[d].ours
    /\ backups' = backups \cup {op[d].build}
    /\ UNCHANGED <<native, helper, python, relayConfig, helperLock, updates>>
InstallConfig(d) ==
    /\ op[d].step = "backed" /\ SetStep(d, "configured")
    /\ relayConfig' = [relayConfig EXCEPT ![d] = [build |-> op[d].build, launcher |-> Launcher(d)]]
    /\ UNCHANGED <<native, helper, backups, python, helperLock, updates>>
InstallHelper(d) ==
    /\ op[d].step = "configured" /\ helper' = Relay(relayConfig[d].launcher)
    /\ Release(d) /\ UNCHANGED <<native, backups, python, relayConfig, updates>>

(* uninstall: restore the verified original, or leave a newer original alone;  *)
(* anything else is kept, with the state that may recover it.                  *)
Uninstall(d) ==
    /\ op[d] = NoOp /\ relayConfig[d] # NoConfig /\ helperLock = Nobody
    /\ \/ Owns(d) /\ relayConfig[d].build \in backups /\ helper' = Original(relayConfig[d].build)
       \/ ~Owns(d) /\ helper \in {Original(relayConfig[d].build), Original(native)} /\ UNCHANGED helper
    /\ SetStep(d, "restored") /\ helperLock' = d
    /\ UNCHANGED <<native, backups, python, relayConfig, updates>>
Forget(d) ==
    /\ op[d].step = "restored" /\ relayConfig' = [relayConfig EXCEPT ![d] = NoConfig]
    /\ Release(d) /\ UNCHANGED <<native, helper, backups, python, updates>>

(* A check fails, Windows does not answer, or the command dies. *)
Abort(d) == op[d] # NoOp /\ Release(d) /\ UNCHANGED <<native, files, python, updates>>

(* npm puts a package in place of the old one, lock file and backups included. *)
NpmInstall(b) ==
    /\ updates < MaxUpdates /\ updates' = updates + 1
    /\ UpdatesAnytime \/ \A d \in StateDirs : op[d] = NoOp
    /\ native' = b /\ helper' = Original(b) /\ backups' = {} /\ helperLock' = Nobody
    /\ UNCHANGED <<python, relayConfig, op>>
NewPython == python' \in Pythons \ {python} /\ UNCHANGED <<native, files, op, helperLock, updates>>

Next ==
    \/ \E d \in StateDirs :
         \/ Probe(d) \/ InstallCheck(d) \/ InstallBackup(d) \/ InstallConfig(d) \/ InstallHelper(d)
         \/ Uninstall(d) \/ Forget(d) \/ Abort(d)
    \/ \E b \in Builds : NpmInstall(b)
    \/ NewPython

Spec == Init /\ [][Next]_vars

-----------------------------------------------------------------------------
TypeOK ==
    /\ native \in Builds /\ backups \subseteq Builds /\ python \in Pythons
    /\ helper.kind \in {"original", "relay"}
    /\ \A d \in StateDirs : relayConfig[d].build \in Builds \cup {0}
    /\ helperLock \in StateDirs \cup {Nobody}

(* README: the relay "retains a hash-verified original".  A helper that is not *)
(* the package's own has the original of that very package beside it, and the  *)
(* state directory that put it there still knows, or a crash cut its update.   *)
OriginalKept ==
    helper # Original(native) =>
        /\ helper.kind = "relay" /\ native \in backups
        /\ relayConfig[helper.by[1]].build = native
=============================================================================
