----------------------------- MODULE OnlineEnroll -----------------------------
(* Enrolling a voice while the ambient bridge keeps running: the enrol command *)
(* (bridges/ambient_bridge/enroll.py _enroll_online) leaves a request file and *)
(* polls for a result file; the bridge's watcher (server.py _enroll_watcher)   *)
(* opens a session, the capture threads fill it, and the voiceprint is         *)
(* embedded in a thread and saved (speaker_id.py).  Files outlive both.        *)
EXTENDS Integers

CONSTANTS
    Requests,          \* runs of the command, numbered in the order they start
    MaxEnrollRestarts  \* bound: restarts of the bridge

VARIABLES
    told,        \* request -> what its command reported, "none" before it started
    reqFile,     \* the request in enroll_request.json, 0 when absent
    resFile,     \* [id, status] in the result file, id 0 when absent
    enrollment,  \* the watcher: [id, step], step "none", "collecting", "embedding", "saved", "answered"
    heardSpeech, \* the session holds samples
    lastEnrolled,\* _enroll_last_id
    voice, voiceFile,  \* the request whose voiceprint is in memory, in the file
    built,       \* request -> voiceprints saved for it
    outcome,     \* what the result will say
    enrollRestarts

vars == <<told, reqFile, resFile, enrollment, heardSpeech, lastEnrolled, voice, voiceFile, built,
          outcome, enrollRestarts>>
registry == <<voice, voiceFile, built>>

Nobody == [id |-> 0, step |-> "none"]
Step(s) == enrollment' = [enrollment EXCEPT !.step = s]

Init ==
    /\ told = [r \in Requests |-> "none"] /\ reqFile = 0 /\ resFile = [id |-> 0, status |-> "none"]
    /\ enrollment = Nobody /\ heardSpeech = FALSE /\ lastEnrolled = 0
    /\ voice = 0 /\ voiceFile = 0 /\ built = [r \in Requests |-> 0]
    /\ outcome = "none" /\ enrollRestarts = 0

(* The command: clear a stale result, write the request, poll until a deadline *)
(* that lies past the bridge's own.  A second one overwrites the first.        *)
Ask(r) ==
    /\ told[r] = "none" /\ \A q \in Requests : q < r => told[q] # "none"
    /\ told' = [told EXCEPT ![r] = "waiting"] /\ reqFile' = r /\ resFile' = [id |-> 0, status |-> "none"]
    /\ UNCHANGED <<enrollment, heardSpeech, lastEnrolled, registry, outcome, enrollRestarts>>
Poll(r) ==
    /\ told[r] = "waiting"
    /\ told' = [told EXCEPT ![r] = IF resFile.id = r THEN resFile.status ELSE "abandoned"]
    /\ UNCHANGED <<reqFile, resFile, enrollment, heardSpeech, lastEnrolled, registry, outcome, enrollRestarts>>

(* _read_enroll_request: a request older than ten minutes is a leftover. *)
Stale ==
    /\ enrollment = Nobody /\ reqFile # 0 /\ told[reqFile] # "waiting" /\ reqFile' = 0
    /\ UNCHANGED <<told, resFile, enrollment, heardSpeech, lastEnrolled, registry, outcome, enrollRestarts>>
\* Mutated form: a request whose file could not be removed is new again.
AnyRequest == reqFile # 0

(* _enroll_watcher starts a session for a request it has not just served. *)
NewRequest == reqFile # 0 /\ reqFile # lastEnrolled
Begin ==
    /\ enrollment = Nobody /\ NewRequest
    /\ enrollment' = [id |-> reqFile, step |-> "collecting"] /\ heardSpeech' = FALSE
    /\ UNCHANGED <<told, reqFile, resFile, lastEnrolled, registry, outcome, enrollRestarts>>

(* _collect_enroll, on a capture thread. *)
Collect ==
    /\ enrollment.step = "collecting" /\ heardSpeech' = TRUE
    /\ UNCHANGED <<told, reqFile, resFile, enrollment, lastEnrolled, registry, outcome, enrollRestarts>>

(* _finalize_enroll, when there is enough speech or after enroll_max_wait_s.   *)
Detach ==
    /\ enrollment.step = "collecting" /\ lastEnrolled' = enrollment.id
    /\ IF heardSpeech THEN Step("embedding") /\ UNCHANGED outcome
                      ELSE Step("saved") /\ outcome' = "timeout"
    /\ UNCHANGED <<told, reqFile, resFile, heardSpeech, registry, enrollRestarts>>

(* SpeakerIDRegistry.enroll in a thread: embed, replace in memory, save.       *)
Enroll ==
    /\ enrollment.step = "embedding" /\ Step("saved")
    /\ \/ /\ voice' = enrollment.id /\ voiceFile' = enrollment.id
          /\ built' = [built EXCEPT ![enrollment.id] = @ + 1] /\ outcome' = "done"
       \/ voice' = enrollment.id /\ outcome' = "failed" /\ UNCHANGED <<voiceFile, built>>  \* _save raised
       \/ outcome' = "failed" /\ UNCHANGED registry                                        \* no usable audio
    /\ UNCHANGED <<told, reqFile, resFile, heardSpeech, lastEnrolled, enrollRestarts>>

(* The rest of _finalize_enroll: the result, then the request goes; both are   *)
(* best effort, and the commands run beside them.                              *)
Answer ==
    /\ enrollment.step = "saved" /\ Step("answered")
    /\ resFile' \in {resFile, [id |-> enrollment.id, status |-> outcome]}
    /\ UNCHANGED <<told, reqFile, heardSpeech, lastEnrolled, registry, outcome, enrollRestarts>>
Clear ==
    /\ enrollment.step = "answered" /\ enrollment' = Nobody
    /\ reqFile' \in {0, reqFile}
    /\ UNCHANGED <<told, resFile, heardSpeech, lastEnrolled, registry, outcome, enrollRestarts>>

(* The bridge restarts: the session is gone, _load reads the registry back.    *)
Reborn ==
    /\ enrollRestarts < MaxEnrollRestarts /\ enrollRestarts' = enrollRestarts + 1
    /\ enrollment' = Nobody /\ lastEnrolled' = 0 /\ voice' = voiceFile
    /\ UNCHANGED <<told, reqFile, resFile, heardSpeech, voiceFile, built, outcome>>

Next ==
    \/ \E r \in Requests : Ask(r) \/ Poll(r)
    \/ Stale \/ Begin \/ Collect \/ Detach \/ Enroll \/ Answer \/ Clear \/ Reborn

Spec == Init /\ [][Next]_vars

-----------------------------------------------------------------------------
TypeOK ==
    /\ told \in [Requests -> {"none", "waiting", "done", "failed", "timeout", "abandoned"}]
    /\ reqFile \in Requests \cup {0} /\ resFile.id \in Requests \cup {0}
    /\ enrollment.step \in {"none", "collecting", "embedding", "saved", "answered"}
    /\ {voice, voiceFile, lastEnrolled} \subseteq Requests \cup {0}

(* One request builds one voiceprint, even when its file could not be removed, *)
(* and one more for each restart of the bridge that finds the file again: the  *)
(* next speaker's voice is not enrolled under a name nobody asked for anew.    *)
EnrolledOnce == \A r \in Requests : built[r] <= 1 + enrollRestarts

(* A command that reports "done" has its voiceprint saved, whatever other      *)
(* command's files, sessions and restarts came between.                        *)
DoneIsTrue == \A r \in Requests : told[r] = "done" => built[r] >= 1 /\ voiceFile >= r

(* Both: a request is served once, and its answer is the truth.                *)
EnrolmentTrue == EnrolledOnce /\ DoneIsTrue
=============================================================================
