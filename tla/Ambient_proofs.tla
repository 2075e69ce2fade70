---------------------------- MODULE Ambient_proofs ----------------------------
(***************************************************************************)
(* Proofs about the components that MCAmbient checks side by side, for any *)
(* number of requests, segments, deliveries, rows, restarts and faults.    *)
(***************************************************************************)
EXTENDS MCAmbient, FiniteSets, FiniteSetTheorems, SequenceTheorems, WellFoundedInduction, TLAPS

\* A step of the whole is a step of each component, or leaves it alone.
LEMMA StepOfEach ==
  ASSUME [Next]_vars
  PROVE  /\ [Diar!Next]_diarVars /\ [Recovery!Next]_recoveryVars /\ [Pipeline!Next]_pipelineVars
        /\ [Enrolling!Next]_enrollVars /\ [Omi!Next]_omiVars /\ [Meeting!Next]_meetingVars
        /\ UNCHANGED which
BY DEF Next, vars

-----------------------------------------------------------------------------
(* OnlineEnroll: enrolling a voice while the bridge runs *)

Asked == Requests \cup {0}
Reports == {"none", "waiting", "done", "failed", "timeout", "abandoned"}
EnrolSteps == {"none", "collecting", "embedding", "saved", "answered"}

EnrollTypes ==
  /\ told \in [Requests -> Reports] /\ reqFile \in Asked
  /\ resFile \in [id : Asked, status : {"none", "done", "failed", "timeout"}]
  /\ enrollment \in [id : Asked, step : EnrolSteps]
  /\ enrollment.step = "none" <=> enrollment.id = 0
  /\ heardSpeech \in BOOLEAN /\ lastEnrolled \in Asked /\ voice \in Asked /\ voiceFile \in Asked
  /\ built \in [Requests -> Nat] /\ outcome \in {"none", "done", "failed", "timeout"}
  /\ enrollRestarts \in Nat
  /\ enrollment.step \in {"saved", "answered"} => outcome # "none"
  /\ resFile.id # 0 => resFile.status # "none"

\* What waits, what is served and what was served are requests already made, in their order.
InOrder ==
  /\ \A q \in Requests : told[q] = "none" => q > reqFile /\ q > enrollment.id /\ q > voiceFile /\ q > lastEnrolled
  /\ reqFile # 0 => reqFile >= enrollment.id /\ reqFile >= voiceFile /\ reqFile >= lastEnrolled
  /\ enrollment.id # 0 => enrollment.id >= voiceFile /\ enrollment.id >= lastEnrolled

\* Only the request that is being embedded, and none twice in one life of the bridge, is built.
BuiltOnce ==
  /\ enrollment.step = "collecting" => enrollment.id > lastEnrolled
  /\ enrollment.step = "embedding" => enrollment.id = lastEnrolled /\ built[enrollment.id] <= enrollRestarts
  /\ \A r \in Requests : r > lastEnrolled => built[r] <= enrollRestarts
  /\ \A r \in Requests : built[r] <= 1 + enrollRestarts

Built(r) == built[r] >= 1 /\ voiceFile >= r
\* "done" is said of a request whose voiceprint was saved.
DoneMeansBuilt ==
  /\ enrollment.step \in {"saved", "answered"} /\ outcome = "done" => Built(enrollment.id)
  /\ resFile.status = "done" => resFile.id # 0 /\ Built(resFile.id)
  /\ \A r \in Requests : told[r] = "done" => Built(r)

EnrollInv == EnrollTypes /\ InOrder /\ BuiltOnce /\ DoneMeansBuilt

LEMMA EnrollInit == Enrolling!Init => EnrollInv
<1> SUFFICES ASSUME Enrolling!Init PROVE EnrollInv
  OBVIOUS
<1>0. /\ enrollment = [id |-> 0, step |-> "none"] /\ enrollment.id = 0 /\ enrollment.step = "none"
      /\ resFile.id = 0 /\ resFile.status = "none" /\ reqFile = 0 /\ lastEnrolled = 0 /\ voiceFile = 0
      /\ \A r \in Requests : told[r] = "none" /\ built[r] = 0
      /\ enrollRestarts = 0
  BY DEF Enrolling!Init, Enrolling!Nobody
<1>a. /\ resFile \in [id : Asked, status : {"none", "done", "failed", "timeout"}]
      /\ told \in [Requests -> Reports] /\ built \in [Requests -> Nat]
      /\ enrollment \in [id : Asked, step : EnrolSteps]
      /\ heardSpeech = FALSE /\ voice = 0 /\ outcome = "none"
  BY <1>0 DEF Enrolling!Init, Asked, Reports, EnrolSteps
<1>1. EnrollTypes
  BY <1>0, <1>a DEF EnrollTypes, Asked
<1>2. \A q \in Requests : q \in Nat /\ q > 0
  BY EnrolAssumption
<1>3. InOrder
  BY <1>0, <1>2 DEF InOrder
<1>4. BuiltOnce
  BY <1>0 DEF BuiltOnce
<1>5. DoneMeansBuilt
  BY <1>0 DEF DoneMeansBuilt
<1> QED
  BY <1>1, <1>3, <1>4, <1>5 DEF EnrollInv

LEMMA EnrollStep == EnrollInv /\ [Enrolling!Next]_enrollVars => EnrollInv'
<1> SUFFICES ASSUME EnrollInv, [Enrolling!Next]_enrollVars PROVE EnrollInv'
  OBVIOUS
<1>0. EnrollTypes /\ InOrder /\ BuiltOnce /\ DoneMeansBuilt
  BY DEF EnrollInv
<1>a. \A q \in Requests : q \in Nat /\ q > 0
  BY EnrolAssumption
<1>b. /\ reqFile \in Nat /\ enrollment.id \in Nat /\ lastEnrolled \in Nat /\ voiceFile \in Nat
      /\ resFile.id \in Nat /\ enrollRestarts \in Nat
      /\ \A q \in Requests : built[q] \in Nat
  BY <1>0, <1>a DEF EnrollTypes, Asked
<1>c. /\ reqFile # 0 => reqFile \in Requests
      /\ resFile.id # 0 => resFile.id \in Requests
      /\ enrollment.id # 0 => enrollment.id \in Requests
      /\ enrollment.step = "none" <=> enrollment.id = 0
      /\ enrollment.step \in EnrolSteps
      /\ resFile.id # 0 => resFile.status # "none"
      /\ enrollment \in [id : Asked, step : EnrolSteps]
  BY <1>0 DEF EnrollTypes, Asked
<1>d. \A s \in EnrolSteps : /\ [enrollment EXCEPT !.step = s] \in [id : Asked, step : EnrolSteps]
                           /\ [enrollment EXCEPT !.step = s].id = enrollment.id
                           /\ [enrollment EXCEPT !.step = s].step = s
  BY <1>c
<1>1. ASSUME NEW r \in Requests, Enrolling!Ask(r) PROVE EnrollInv'
  <2>0. /\ told' \in [Requests -> Reports] /\ told'[r] = "waiting"
        /\ \A q \in Requests : q # r => told'[q] = told[q]
        /\ told[r] = "none" /\ reqFile' = r /\ resFile'.status = "none" /\ resFile'.id = 0
        /\ resFile' \in [id : Asked, status : {"none", "done", "failed", "timeout"}]
        /\ \A q \in Requests : q < r => told[q] # "none"
        /\ UNCHANGED <<enrollment, heardSpeech, lastEnrolled, voice, voiceFile, built, outcome, enrollRestarts>>
    BY <1>0, <1>1 DEF Enrolling!Ask, Enrolling!registry, Reports, Asked, EnrollTypes
  <2>1. EnrollTypes'
    BY <1>0, <1>a, <1>c, <2>0 DEF EnrollTypes, Asked, Reports, EnrolSteps
  <2>2. InOrder'
    BY <1>0, <1>a, <1>b, <1>c, <2>0 DEF InOrder
  <2>3. BuiltOnce'
    BY <1>0, <1>a, <1>b, <1>c, <2>0 DEF BuiltOnce, InOrder
  <2>4. DoneMeansBuilt'
    BY <1>0, <1>a, <1>b, <1>c, <2>0 DEF DoneMeansBuilt, Built, InOrder
  <2> QED
    BY <2>1, <2>2, <2>3, <2>4 DEF EnrollInv
<1>2. ASSUME NEW r \in Requests, Enrolling!Poll(r) PROVE EnrollInv'
  <2>0. /\ \A q \in Requests : q # r => told'[q] = told[q]
        /\ told[r] = "waiting" /\ (told'[r] = "abandoned" \/ (resFile.id = r /\ told'[r] = resFile.status))
        /\ told' \in [Requests -> Reports]
        /\ UNCHANGED <<reqFile, resFile, enrollment, heardSpeech, lastEnrolled, voice, voiceFile, built, outcome, enrollRestarts>>
    BY <1>0, <1>2 DEF Enrolling!Poll, Enrolling!registry, Reports, EnrollTypes
  <2>1. EnrollTypes'
    BY <1>0, <1>a, <1>c, <2>0 DEF EnrollTypes, Asked, Reports, EnrolSteps
  <2>2. InOrder'
    BY <1>0, <1>a, <1>b, <1>c, <2>0 DEF InOrder
  <2>3. BuiltOnce'
    BY <1>0, <1>a, <1>b, <1>c, <2>0 DEF BuiltOnce, InOrder
  <2>4. DoneMeansBuilt'
    BY <1>0, <1>a, <1>b, <1>c, <2>0 DEF DoneMeansBuilt, Built, InOrder
  <2> QED
    BY <2>1, <2>2, <2>3, <2>4 DEF EnrollInv
<1>3. CASE Enrolling!Stale
  <2>0. /\ reqFile' = 0 /\ enrollment.id = 0
        /\ UNCHANGED <<told, resFile, enrollment, heardSpeech, lastEnrolled, voice, voiceFile, built, outcome, enrollRestarts>>
    BY <1>0, <1>3 DEF Enrolling!Stale, Enrolling!registry, Enrolling!Nobody, EnrollTypes
  <2>1. EnrollTypes'
    BY <1>0, <1>a, <1>c, <2>0 DEF EnrollTypes, Asked, Reports, EnrolSteps
  <2>2. InOrder'
    BY <1>0, <1>a, <1>b, <1>c, <2>0 DEF InOrder
  <2>3. BuiltOnce'
    BY <1>0, <1>a, <1>b, <1>c, <2>0 DEF BuiltOnce, InOrder
  <2>4. DoneMeansBuilt'
    BY <1>0, <1>a, <1>b, <1>c, <2>0 DEF DoneMeansBuilt, Built, InOrder
  <2> QED
    BY <2>1, <2>2, <2>3, <2>4 DEF EnrollInv
<1>4. CASE Enrolling!Begin
  <2>0. /\ enrollment' = [id |-> reqFile, step |-> "collecting"]
        /\ enrollment'.id = reqFile /\ enrollment'.step = "collecting"
        /\ enrollment.id = 0 /\ reqFile # 0 /\ reqFile # lastEnrolled /\ heardSpeech' = FALSE
        /\ UNCHANGED <<told, reqFile, resFile, lastEnrolled, voice, voiceFile, built, outcome, enrollRestarts>>
    BY <1>0, <1>4 DEF Enrolling!Begin, Enrolling!NewRequest, Enrolling!Nobody, Enrolling!registry, EnrollTypes
  <2>1. EnrollTypes'
    BY <1>0, <1>a, <1>c, <2>0 DEF EnrollTypes, Asked, Reports, EnrolSteps
  <2>2. InOrder'
    BY <1>0, <1>a, <1>b, <1>c, <2>0 DEF InOrder
  <2>3. BuiltOnce'
    BY <1>0, <1>a, <1>b, <1>c, <2>0 DEF BuiltOnce, InOrder
  <2>4. DoneMeansBuilt'
    BY <1>0, <1>a, <1>b, <1>c, <2>0 DEF DoneMeansBuilt, Built, InOrder
  <2> QED
    BY <2>1, <2>2, <2>3, <2>4 DEF EnrollInv
<1>5. CASE Enrolling!Collect
  <2>0. /\ heardSpeech' = TRUE
        /\ UNCHANGED <<told, reqFile, resFile, enrollment, lastEnrolled, voice, voiceFile, built, outcome, enrollRestarts>>
    BY <1>0, <1>5 DEF Enrolling!Collect, Enrolling!registry, EnrollTypes
  <2>1. EnrollTypes'
    BY <1>0, <1>a, <1>c, <2>0 DEF EnrollTypes, Asked, Reports, EnrolSteps
  <2>2. InOrder'
    BY <1>0, <1>a, <1>b, <1>c, <2>0 DEF InOrder
  <2>3. BuiltOnce'
    BY <1>0, <1>a, <1>b, <1>c, <2>0 DEF BuiltOnce, InOrder
  <2>4. DoneMeansBuilt'
    BY <1>0, <1>a, <1>b, <1>c, <2>0 DEF DoneMeansBuilt, Built, InOrder
  <2> QED
    BY <2>1, <2>2, <2>3, <2>4 DEF EnrollInv
<1>6. CASE Enrolling!Detach
  <2>a. PICK s \in EnrolSteps :
              /\ enrollment' = [enrollment EXCEPT !.step = s]
              /\ \/ s = "embedding" /\ outcome' = outcome
                 \/ s = "saved" /\ outcome' = "timeout"
    BY <1>6 DEF Enrolling!Detach, Enrolling!Step, EnrolSteps
  <2>b. enrollment' \in [id : Asked, step : EnrolSteps] /\ enrollment'.id = enrollment.id /\ enrollment'.step = s
    BY <1>d, <2>a
  <2>c. /\ enrollment.step = "collecting" /\ lastEnrolled' = enrollment.id
        /\ UNCHANGED <<told, reqFile, resFile, heardSpeech, voice, voiceFile, built, enrollRestarts>>
    BY <1>6 DEF Enrolling!Detach, Enrolling!registry
  <2>0. /\ enrollment.step = "collecting" /\ lastEnrolled' = enrollment.id /\ enrollment'.id = enrollment.id
        /\ \/ enrollment'.step = "embedding" /\ outcome' = outcome
           \/ enrollment'.step = "saved" /\ outcome' = "timeout"
        /\ enrollment' \in [id : Asked, step : EnrolSteps]
        /\ UNCHANGED <<told, reqFile, resFile, heardSpeech, voice, voiceFile, built, enrollRestarts>>
    BY <2>a, <2>b, <2>c
  <2>1. EnrollTypes'
    BY <1>0, <1>a, <1>c, <2>0 DEF EnrollTypes, Asked, Reports, EnrolSteps
  <2>2. InOrder'
    BY <1>0, <1>a, <1>b, <1>c, <2>0 DEF InOrder
  <2>3. BuiltOnce'
    BY <1>0, <1>a, <1>b, <1>c, <2>0 DEF BuiltOnce, InOrder
  <2>4. DoneMeansBuilt'
    BY <1>0, <1>a, <1>b, <1>c, <2>0 DEF DoneMeansBuilt, Built, InOrder
  <2> QED
    BY <2>1, <2>2, <2>3, <2>4 DEF EnrollInv
<1>7. CASE Enrolling!Enroll
  <2>a. PICK s \in EnrolSteps : s = "saved" /\ enrollment' = [enrollment EXCEPT !.step = s]
    BY <1>7 DEF Enrolling!Enroll, Enrolling!Step, EnrolSteps
  <2>b. enrollment' \in [id : Asked, step : EnrolSteps] /\ enrollment'.id = enrollment.id /\ enrollment'.step = "saved"
    BY <1>d, <2>a
  <2>c. enrollment.id \in Requests
    BY <1>7, <1>c DEF Enrolling!Enroll
  <2>d. LET more == [built EXCEPT ![enrollment.id] = @ + 1]
        IN  /\ more \in [Requests -> Nat] /\ more[enrollment.id] = built[enrollment.id] + 1
            /\ \A q \in Requests : q # enrollment.id => more[q] = built[q]
    BY <1>0, <2>c DEF EnrollTypes
  <2>e. /\ enrollment.step = "embedding"
        /\ \/ /\ voice' = enrollment.id /\ voiceFile' = enrollment.id /\ outcome' = "done"
              /\ built' = [built EXCEPT ![enrollment.id] = @ + 1]
           \/ voice' \in {voice, enrollment.id} /\ outcome' = "failed" /\ UNCHANGED <<voiceFile, built>>
        /\ UNCHANGED <<told, reqFile, resFile, heardSpeech, lastEnrolled, enrollRestarts>>
    BY <1>7 DEF Enrolling!Enroll, Enrolling!registry
  <2>0. /\ enrollment.step = "embedding" /\ enrollment'.id = enrollment.id /\ enrollment'.step = "saved"
        /\ enrollment' \in [id : Asked, step : EnrolSteps]
        /\ \/ /\ voice' = enrollment.id /\ voiceFile' = enrollment.id /\ outcome' = "done"
              /\ built'[enrollment.id] = built[enrollment.id] + 1
              /\ built' \in [Requests -> Nat]
              /\ \A q \in Requests : q # enrollment.id => built'[q] = built[q]
           \/ voice' \in {voice, enrollment.id} /\ outcome' = "failed" /\ UNCHANGED <<voiceFile, built>>
        /\ UNCHANGED <<told, reqFile, resFile, heardSpeech, lastEnrolled, enrollRestarts>>
    BY <2>b, <2>d, <2>e
  <2>1. EnrollTypes'
    BY <1>0, <1>a, <1>c, <2>0 DEF EnrollTypes, Asked, Reports, EnrolSteps
  <2>2. InOrder'
    BY <1>0, <1>a, <1>b, <1>c, <2>0 DEF InOrder
  <2>3. BuiltOnce'
    BY <1>0, <1>a, <1>b, <1>c, <2>0 DEF BuiltOnce, InOrder
  <2>4. DoneMeansBuilt'
    BY <1>0, <1>a, <1>b, <1>c, <2>0 DEF DoneMeansBuilt, Built, InOrder
  <2> QED
    BY <2>1, <2>2, <2>3, <2>4 DEF EnrollInv
<1>8. CASE Enrolling!Answer
  <2>a. PICK s \in EnrolSteps : s = "answered" /\ enrollment' = [enrollment EXCEPT !.step = s]
    BY <1>8 DEF Enrolling!Answer, Enrolling!Step, EnrolSteps
  <2>b. enrollment' \in [id : Asked, step : EnrolSteps] /\ enrollment'.id = enrollment.id /\ enrollment'.step = "answered"
    BY <1>d, <2>a
  <2>c. /\ enrollment.step = "saved"
        /\ resFile' = resFile \/ resFile' = [id |-> enrollment.id, status |-> outcome]
        /\ UNCHANGED <<told, reqFile, heardSpeech, lastEnrolled, voice, voiceFile, built, outcome, enrollRestarts>>
    BY <1>8 DEF Enrolling!Answer, Enrolling!registry
  <2>0. /\ enrollment.step = "saved" /\ enrollment'.id = enrollment.id /\ enrollment'.step = "answered"
        /\ enrollment' \in [id : Asked, step : EnrolSteps]
        /\ \/ resFile' = resFile
           \/ resFile'.id = enrollment.id /\ resFile'.status = outcome
        /\ resFile' \in [id : Asked, status : {"none", "done", "failed", "timeout"}]
        /\ UNCHANGED <<told, reqFile, heardSpeech, lastEnrolled, voice, voiceFile, built, outcome, enrollRestarts>>
    BY <1>0, <2>b, <2>c DEF EnrollTypes
  <2>1. EnrollTypes'
    BY <1>0, <1>a, <1>c, <2>0 DEF EnrollTypes, Asked, Reports, EnrolSteps
  <2>2. InOrder'
    BY <1>0, <1>a, <1>b, <1>c, <2>0 DEF InOrder
  <2>3. BuiltOnce'
    BY <1>0, <1>a, <1>b, <1>c, <2>0 DEF BuiltOnce, InOrder
  <2>4. DoneMeansBuilt'
    BY <1>0, <1>a, <1>b, <1>c, <2>0 DEF DoneMeansBuilt, Built, InOrder
  <2> QED
    BY <2>1, <2>2, <2>3, <2>4 DEF EnrollInv
<1>9. CASE Enrolling!Clear
  <2>0. /\ enrollment' = [id |-> 0, step |-> "none"] /\ enrollment'.id = 0 /\ enrollment'.step = "none"
        /\ reqFile' \in {0, reqFile}
        /\ UNCHANGED <<told, resFile, heardSpeech, lastEnrolled, voice, voiceFile, built, outcome, enrollRestarts>>
    BY <1>0, <1>9 DEF Enrolling!Clear, Enrolling!Nobody, Enrolling!registry, EnrollTypes
  <2>1. EnrollTypes'
    BY <1>0, <1>a, <1>c, <2>0 DEF EnrollTypes, Asked, Reports, EnrolSteps
  <2>2. InOrder'
    BY <1>0, <1>a, <1>b, <1>c, <2>0 DEF InOrder
  <2>3. BuiltOnce'
    BY <1>0, <1>a, <1>b, <1>c, <2>0 DEF BuiltOnce, InOrder
  <2>4. DoneMeansBuilt'
    BY <1>0, <1>a, <1>b, <1>c, <2>0 DEF DoneMeansBuilt, Built, InOrder
  <2> QED
    BY <2>1, <2>2, <2>3, <2>4 DEF EnrollInv
<1>10. CASE Enrolling!Reborn
  <2>0. /\ enrollment' = [id |-> 0, step |-> "none"] /\ enrollment'.id = 0 /\ enrollment'.step = "none"
        /\ lastEnrolled' = 0 /\ voice' = voiceFile /\ enrollRestarts' = enrollRestarts + 1
        /\ UNCHANGED <<told, reqFile, resFile, heardSpeech, voiceFile, built, outcome>>
    BY <1>0, <1>10 DEF Enrolling!Reborn, Enrolling!Nobody, EnrollTypes
  <2>1. EnrollTypes'
    BY <1>0, <1>a, <1>c, <2>0 DEF EnrollTypes, Asked, Reports, EnrolSteps
  <2>2. InOrder'
    BY <1>0, <1>a, <1>b, <1>c, <2>0 DEF InOrder
  <2>3. BuiltOnce'
    BY <1>0, <1>a, <1>b, <1>c, <2>0 DEF BuiltOnce, InOrder
  <2>4. DoneMeansBuilt'
    BY <1>0, <1>a, <1>b, <1>c, <2>0 DEF DoneMeansBuilt, Built, InOrder
  <2> QED
    BY <2>1, <2>2, <2>3, <2>4 DEF EnrollInv
<1>11. CASE UNCHANGED enrollVars
  BY <1>11 DEF enrollVars, EnrollInv, EnrollTypes, InOrder, BuiltOnce, DoneMeansBuilt, Built
<1> QED
  BY <1>1, <1>2, <1>3, <1>4, <1>5, <1>6, <1>7, <1>8, <1>9, <1>10, <1>11 DEF Enrolling!Next

LEMMA EnrollSuffices == EnrollInv => Enrolling!TypeOK /\ Enrolling!EnrolmentTrue
BY DEF EnrollInv, EnrollTypes, Asked, Reports, EnrolSteps, BuiltOnce, DoneMeansBuilt, Built,
   Enrolling!TypeOK, Enrolling!EnrolmentTrue, Enrolling!EnrolledOnce, Enrolling!DoneIsTrue

(***************************************************************************)
(* OnlineEnroll: a request builds one voiceprint in each life of the       *)
(* bridge, even when its file could not be removed, and a command that     *)
(* reports "done" has its own or a later speaker's voiceprint saved,       *)
(* whatever requests, sessions, failures and restarts came between.        *)
(***************************************************************************)
THEOREM EnrolmentHolds == Spec => []EnrolmentTrue
<1>1. Init => EnrollInv
  BY EnrollInit DEF Init
<1>2. EnrollInv /\ [Next]_vars => EnrollInv'
  BY StepOfEach, EnrollStep
<1>3. EnrollInv => EnrolmentTrue
  BY EnrollSuffices DEF EnrolmentTrue
<1> QED
  BY <1>1, <1>2, <1>3, PTL DEF Spec

-----------------------------------------------------------------------------
(* OmiIngest: delivered segments become rows once, near their time *)

\* A bounded set of numbers has a largest one.
LEMMA LargestExists ==
  ASSUME NEW N \in Nat, NEW E, E \subseteq 0 .. N, E # {}
  PROVE  \E m \in E : \A x \in E : x <= m
<1> DEFINE T == {N - x : x \in E}
<1>1. \A x \in E : x \in 0 .. N /\ N - x \in Nat
  OBVIOUS
<1>2. T \subseteq Nat
  BY <1>1
<1>3. T # {}
  OBVIOUS
<1>4. PICK least \in T : \A y \in T : ~ (<<y, least>> \in OpToRel(<, Nat))
  BY <1>2, <1>3, NatLessThanWellFounded, WFMin, Zenon
<1>5. \A y \in T : ~ (y < least)
  BY <1>2, <1>4 DEF OpToRel
<1>6. PICK m \in E : least = N - m
  OBVIOUS
<1>7. ASSUME NEW x \in E PROVE x <= m
  <2>1. ~ (N - x < N - m)
    BY <1>5, <1>6
  <2>2. x \in 0 .. N /\ m \in 0 .. N
    BY <1>1
  <2> QED
    BY <2>1, <2>2
<1> QED
  BY <1>7

OmiWorld ==
  /\ clock \in 0 .. MaxClock /\ talk \in 0 .. clock
  /\ said \in [Segments -> [at : -1 .. MaxClock, end : 0 .. MaxClock, conv : 0 .. MaxClock]]
  /\ \A s \in Segments :
       said[s].at >= 0 => said[s].at <= clock /\ said[s].at = said[s].conv + said[s].end

OmiTypes ==
  /\ OmiWorld /\ sendings \in 0 .. MaxDeliveries
  /\ ingest \in [step : {"free", "insert"}, batch : SUBSET Segments, todo : [Segments -> 0 .. 2],
                 epoch0 : Int, recv : 0 .. MaxClock]
  /\ keys \subseteq SUBSET Segments /\ seen \subseteq Segments
  /\ anchor = -99 \/ anchor \in -MaxClock .. MaxClock
  /\ omiRows \subseteq [seg : Segments, ts : Int, recv : 0 .. MaxClock]
  /\ inserts \in [Segments -> Nat] /\ omiFaults \in 0 .. MaxOmiFaults
  /\ \A s \in Segments : ingest.todo[s] > 0 => s \in ingest.batch
  /\ wordless \subseteq Segments /\ doubled \subseteq Segments

\* The most rows of segment s that n requests made.
Most(s, n) == IF s \in doubled THEN 2 * n ELSE n

\* A segment that is neither seen nor in the request has rows only for each fault; one in the
\* request has had its rows, or gets them, or came without words.
OmiInserts ==
  /\ \A s \in Segments : inserts[s] <= Most(s, 1 + omiFaults)
  /\ \A s \in seen : inserts[s] >= 1 \/ s \in wordless
  /\ ingest.step = "insert" => \A s \in Segments :
       /\ ingest.todo[s] > 0 => s \in ingest.batch \ seen
       /\ s \in ingest.batch \ seen => ingest.todo[s] > 0 \/ inserts[s] >= 1 \/ s \in wordless
       /\ inserts[s] + ingest.todo[s] <= Most(s, 1 + omiFaults)
  /\ \A s \in Segments \ seen :
       ~(ingest.step = "insert" /\ s \in ingest.batch) => inserts[s] <= Most(s, omiFaults)

\* ts is a right time for the words of s in a request received at recv.
Near(ts, s, recv) ==
  /\ said[s].at >= 0
  /\ Omi!Abs(ts - said[s].at) <= Tolerance + (recv - said[s].at)

OmiTimes ==
  /\ ingest.step = "insert" =>
       \A s \in Segments : ingest.todo[s] > 0 => Near(ingest.epoch0 + said[s].end, s, ingest.recv)
  /\ \A r \in omiRows : Near(r.ts, r.seg, r.recv)

OmiInv == OmiTypes /\ OmiInserts /\ OmiTimes

LEMMA OmiSuffices == OmiInv => Omi!TypeOK /\ Omi!InsertedOnce /\ Omi!TimesNear
<1> SUFFICES ASSUME OmiInv PROVE Omi!TypeOK /\ Omi!InsertedOnce /\ Omi!TimesNear
  OBVIOUS
<1>1. Omi!TypeOK
  BY OmiAssumption DEF OmiInv, OmiTypes, OmiWorld, Omi!TypeOK, Omi!None
<1>2. Omi!InsertedOnce
  <2> SUFFICES ASSUME NEW s \in Segments
               PROVE  /\ inserts[s] <= Omi!Copies(s) * (1 + omiFaults)
                      /\ s \in seen => inserts[s] >= 1 \/ s \in wordless
    BY DEF Omi!InsertedOnce
  <2>1. omiFaults \in Nat
    BY OmiAssumption DEF OmiInv, OmiTypes
  <2>2. Omi!Copies(s) * (1 + omiFaults) = Most(s, 1 + omiFaults)
    <3>1. CASE s \in doubled
      BY <2>1, <3>1 DEF Omi!Copies, Most
    <3>2. CASE s \notin doubled
      BY <2>1, <3>2 DEF Omi!Copies, Most
    <3> QED
      BY <3>1, <3>2
  <2> QED
    BY <2>2 DEF OmiInv, OmiInserts
<1>3. Omi!TimesNear
  BY DEF OmiInv, OmiTimes, Near, Omi!TimesNear
<1> QED
  BY <1>1, <1>2, <1>3

LEMMA OmiInit == Omi!Init => OmiInv
<1> SUFFICES ASSUME Omi!Init PROVE OmiInv
  OBVIOUS
<1>1. /\ ingest \in [step : {"free", "insert"}, batch : SUBSET Segments, todo : [Segments -> 0 .. 2],
                     epoch0 : Int, recv : 0 .. MaxClock]
      /\ ingest.step = "free" /\ ingest.batch = {} /\ \A s \in Segments : ingest.todo[s] = 0
  BY OmiAssumption DEF Omi!Init, Omi!Free
<1>2. /\ said \in [Segments -> [at : -1 .. MaxClock, end : 0 .. MaxClock, conv : 0 .. MaxClock]]
      /\ \A s \in Segments : said[s].at = -1
  BY OmiAssumption DEF Omi!Init
<1>3. /\ clock = 0 /\ talk = 0 /\ sendings = 0 /\ keys = {} /\ seen = {} /\ anchor = -99 /\ omiRows = {}
      /\ inserts \in [Segments -> Nat] /\ (\A s \in Segments : inserts[s] = 0) /\ omiFaults = 0
      /\ wordless = {} /\ doubled = {}
  BY DEF Omi!Init, Omi!None
<1>4. OmiTypes
  BY OmiAssumption, <1>1, <1>2, <1>3 DEF OmiTypes, OmiWorld
<1>5. OmiInserts
  BY <1>1, <1>3 DEF OmiInserts, Most
<1>6. OmiTimes
  BY <1>1, <1>3 DEF OmiTimes
<1> QED
  BY <1>4, <1>5, <1>6 DEF OmiInv

\* Time passes and somebody speaks: what was said stays said.
LEMMA WorldKeeps ==
  ASSUME OmiInv, Omi!Wait \/ \E s \in Segments : Omi!Speak(s)
  PROVE  OmiInv'
<1>0. OmiTypes /\ OmiWorld /\ OmiInserts /\ OmiTimes
  BY DEF OmiInv, OmiTypes
<1>1. /\ clock' = clock + 1 /\ clock' \in 0 .. MaxClock /\ clock \in Nat
      /\ UNCHANGED <<sendings, ingest, keys, seen, anchor, omiRows, inserts, wordless, doubled,
                     omiFaults>>
  BY <1>0, OmiAssumption DEF Omi!Wait, Omi!Speak, OmiWorld, Omi!state, Omi!rowset, Omi!ghosts, Omi!odd
<1>2. /\ OmiWorld'
      /\ \A q \in Segments : said[q].at >= 0 => said'[q] = said[q]
  <2>1. CASE Omi!Wait
    <3>1. UNCHANGED <<talk, said>>
      BY <2>1 DEF Omi!Wait
    <3> QED
      BY <1>0, <1>1, <3>1 DEF OmiWorld
  <2>2. ASSUME NEW s \in Segments, Omi!Speak(s) PROVE OmiWorld' /\ \A q \in Segments : said[q].at >= 0 => said'[q] = said[q]
    <3> DEFINE new == [at |-> clock', end |-> clock' - talk', conv |-> talk']
    <3>1. talk' \in 0 .. clock /\ talk' \in Nat
      BY <1>0, <2>2 DEF Omi!Speak, OmiWorld
    <3>2. /\ said' = [said EXCEPT ![s] = new] /\ ~(said[s].at >= 0)
      BY <2>2 DEF Omi!Speak, Omi!Spoken
    <3>3. /\ new \in [at : -1 .. MaxClock, end : 0 .. MaxClock, conv : 0 .. MaxClock]
          /\ new.at = clock' /\ new.at = new.conv + new.end
      <4>1. /\ clock' \in -1 .. MaxClock /\ clock' - talk' \in 0 .. MaxClock /\ talk' \in 0 .. MaxClock
            /\ clock' = talk' + (clock' - talk')
        <5>1. \A c \in Nat, d \in Nat : c + 1 \in 0 .. MaxClock /\ d <= c =>
                 /\ c + 1 \in -1 .. MaxClock /\ (c + 1) - d \in 0 .. MaxClock /\ d \in 0 .. MaxClock
                 /\ c + 1 = d + ((c + 1) - d)
          BY OmiAssumption
        <5>2. clock \in Nat /\ talk' \in Nat /\ talk' <= clock /\ clock + 1 \in 0 .. MaxClock
          BY <1>1, <3>1
        <5>3. /\ clock + 1 \in -1 .. MaxClock /\ (clock + 1) - talk' \in 0 .. MaxClock /\ talk' \in 0 .. MaxClock
              /\ clock + 1 = talk' + ((clock + 1) - talk')
          BY <5>1, <5>2
        <5> QED
          BY <1>1, <5>3
      <4> QED
        BY <4>1
    <3> HIDE DEF new
    <3>4. /\ said' \in [Segments -> [at : -1 .. MaxClock, end : 0 .. MaxClock, conv : 0 .. MaxClock]]
          /\ said'[s] = new /\ \A q \in Segments : q # s => said'[q] = said[q]
      BY <1>0, <3>2, <3>3 DEF OmiWorld
    <3>5. \A q \in Segments :
            said'[q].at >= 0 => said'[q].at <= clock' /\ said'[q].at = said'[q].conv + said'[q].end
      <4>1. TAKE q \in Segments
      <4>2. CASE q = s
        BY <1>1, <3>3, <3>4, <4>2
      <4>3. CASE q # s
        <5>1. said[q].at \in Int
          BY <1>0 DEF OmiWorld
        <5> QED
          BY <1>0, <1>1, <3>4, <4>3, <5>1 DEF OmiWorld
      <4> QED
        BY <4>2, <4>3
    <3> QED
      BY <1>1, <3>1, <3>2, <3>4, <3>5 DEF OmiWorld
  <2> QED
    BY <2>1, <2>2
<1>3. OmiTypes'
  BY <1>0, <1>1, <1>2 DEF OmiTypes
<1>4. OmiInserts'
  BY <1>0, <1>1 DEF OmiInserts, Most
<1>5. \A ts, recv : \A s \in Segments : Near(ts, s, recv) => Near(ts, s, recv)'
  BY <1>2 DEF Near
<1>6. ASSUME ingest.step = "insert", NEW s \in Segments, ingest.todo[s] > 0
      PROVE  Near(ingest.epoch0 + said[s].end, s, ingest.recv)'
  <2>1. Near(ingest.epoch0 + said[s].end, s, ingest.recv) /\ s \in Segments
    BY <1>0, <1>6 DEF OmiTimes, OmiTypes
  <2>2. said'[s] = said[s]
    BY <1>2, <2>1 DEF Near
  <2> QED
    BY <1>1, <2>1, <2>2 DEF Near
<1>7. ASSUME NEW r \in omiRows PROVE Near(r.ts, r.seg, r.recv)'
  <2>1. Near(r.ts, r.seg, r.recv) /\ r.seg \in Segments
    BY <1>0 DEF OmiTimes, OmiTypes
  <2> QED
    BY <1>5, <2>1
<1>8. OmiTimes'
  BY <1>1, <1>6, <1>7 DEF OmiTimes
<1> QED
  BY <1>3, <1>4, <1>8 DEF OmiInv

\* What Latest chooses is the largest position, and that of a segment of the batch.
LEMMA LatestIs ==
  ASSUME OmiWorld, NEW B, B \subseteq Segments, B # {}
  PROVE  /\ \A s \in B : said[s].end <= Omi!Latest(B)
         /\ \E s \in B : said[s].end = Omi!Latest(B)
<1> DEFINE E == {said[s].end : s \in B}
<1>1. E \subseteq 0 .. MaxClock /\ E # {} /\ MaxClock \in Nat
  BY OmiAssumption DEF OmiWorld
<1>2. \E e \in E : \A x \in E : x <= e
  BY <1>1, LargestExists
<1>3. \E e \in E : \A s \in B : said[s].end <= e
  BY <1>2
<1>4. Omi!Latest(B) \in E /\ \A s \in B : said[s].end <= Omi!Latest(B)
  BY <1>3 DEF Omi!Latest
<1> QED
  BY <1>4

\* The epoch decided for a request puts the latest position within the tolerance of its receipt.
LEMMA AnchorNear ==
  ASSUME NEW a \in Int, NEW e \in Int, NEW recv \in Int
  PROVE  /\ Omi!DecideAnchor(a, e, recv) \in Int
         /\ Omi!Abs(Omi!DecideAnchor(a, e, recv) + e - recv) <= Tolerance
         /\ Omi!DecideAnchor(a, e, recv) \in {a, recv - e}
BY OmiAssumption DEF Omi!DecideAnchor, Omi!Abs, Omi!None

\* A batch of one conversation: every segment of it is placed near its time.
LEMMA BatchNear ==
  ASSUME OmiWorld, NEW B, B \subseteq Segments, B # {}, \A s \in B : said[s].at >= 0,
         \A s, t \in B : said[s].conv = said[t].conv,
         NEW epoch0 \in Int, Omi!Abs(epoch0 + Omi!Latest(B) - clock) <= Tolerance
  PROVE  \A s \in B : Near(epoch0 + said[s].end, s, clock)
<1> TAKE s \in B
<1>1. PICK t \in B : said[t].end = Omi!Latest(B)
  BY LatestIs
<1>2. said[s].end <= said[t].end
  BY <1>1, LatestIs
<1>3. /\ said[s].at \in Int /\ said[s].end \in Int /\ said[s].conv \in Int /\ said[t].at \in Int
      /\ said[t].end \in Int /\ clock \in Int /\ Tolerance \in Int
  BY OmiAssumption DEF OmiWorld
<1>4. /\ said[s].at = said[s].conv + said[s].end /\ said[t].at = said[s].conv + said[t].end
      /\ said[s].at >= 0 /\ said[t].at <= clock
  BY DEF OmiWorld
<1>5. PICK as, es, c, at, et \in Int :
        /\ as = said[s].at /\ es = said[s].end /\ c = said[s].conv /\ at = said[t].at /\ et = said[t].end
  BY <1>3
<1>6. \A n \in Int : Omi!Abs(n) <= Tolerance => n <= Tolerance /\ -n <= Tolerance
  BY <1>3 DEF Omi!Abs
<1>7. epoch0 + et - clock <= Tolerance /\ -(epoch0 + et - clock) <= Tolerance
  BY <1>1, <1>3, <1>5, <1>6
<1>8. as = c + es /\ at = c + et /\ as >= 0 /\ at <= clock /\ es <= et
  BY <1>2, <1>4, <1>5
<1>9. /\ epoch0 + es - as <= Tolerance + (clock - as)
      /\ -(epoch0 + es - as) <= Tolerance + (clock - as)
  BY <1>3, <1>7, <1>8
<1>10. Omi!Abs(epoch0 + es - as) <= Tolerance + (clock - as)
  BY <1>9 DEF Omi!Abs
<1> QED
  BY <1>5, <1>8, <1>10 DEF Near

LEMMA ReceiveKeeps ==
  ASSUME OmiInv, NEW B \in SUBSET Omi!Spoken, B # {}, NEW keyed \in BOOLEAN,
         NEW blank \in SUBSET B, NEW twice \in SUBSET B,
         \A s, t \in B : said[s].conv = said[t].conv, Omi!Receive(B, blank, twice, keyed)
  PROVE  OmiInv'
<1>0. OmiTypes /\ OmiWorld /\ OmiInserts /\ OmiTimes
  BY DEF OmiInv, OmiTypes
<1> DEFINE fresh == B \ seen
           epoch == Omi!DecideAnchor(anchor, Omi!Latest(fresh), clock)
           todo == Omi!RowsFor(fresh, blank, twice)
           taken == [step |-> "insert", batch |-> B, todo |-> todo, epoch0 |-> epoch, recv |-> clock]
<1>1. /\ ingest = Omi!Free /\ sendings' \in 0 .. MaxDeliveries
      /\ keys' = (IF keyed THEN keys \cup {B} ELSE keys)
      /\ \/ UNCHANGED <<ingest, anchor, wordless, doubled>>
         \/ /\ fresh # {} /\ ingest' = taken /\ anchor' = epoch
            /\ wordless' = wordless \cup (fresh \cap blank)
            /\ doubled' = doubled \cup (fresh \cap twice)
      /\ UNCHANGED <<clock, talk, said, seen, omiRows, inserts, omiFaults>>
  BY <1>0, OmiAssumption DEF Omi!Receive, Omi!world, Omi!rowset, Omi!odd, OmiTypes
<1>2. ingest.step = "free" /\ B \subseteq Segments /\ \A s \in B : said[s].at >= 0
  BY <1>1 DEF Omi!Free, Omi!Spoken
<1>3. keys' \subseteq SUBSET Segments
  BY <1>0, <1>1, <1>2 DEF OmiTypes
<1>4. OmiWorld'
  BY <1>0, <1>1 DEF OmiWorld
<1>5. CASE UNCHANGED <<ingest, anchor, wordless, doubled>>
  BY <1>0, <1>1, <1>2, <1>3, <1>4, <1>5 DEF OmiInv, OmiTypes, OmiInserts, Most, OmiTimes, Near
<1>6. CASE /\ fresh # {} /\ ingest' = taken /\ anchor' = epoch
           /\ wordless' = wordless \cup (fresh \cap blank)
           /\ doubled' = doubled \cup (fresh \cap twice)
  <2>1. fresh \subseteq Segments /\ fresh # {} /\ fresh \cap seen = {} /\ fresh \subseteq B
    BY <1>2, <1>6
  <2>2. PICK last \in fresh : said[last].end = Omi!Latest(fresh)
    BY <1>0, <2>1, LatestIs
  <2>3. Omi!Latest(fresh) \in 0 .. MaxClock
    BY <1>0, <2>1, <2>2 DEF OmiWorld
  <2>4. anchor \in Int /\ clock \in 0 .. MaxClock
    BY <1>0, OmiAssumption DEF OmiTypes, OmiWorld
  <2>5. PICK e \in 0 .. MaxClock : e = Omi!Latest(fresh)
    BY <2>3
  <2>6. /\ epoch \in Int /\ Omi!Abs(epoch + e - clock) <= Tolerance
        /\ epoch \in {anchor, clock - e}
    <3>1. PICK a, c \in Int : a = anchor /\ c = clock
      BY <2>4, OmiAssumption
    <3>0. e \in Int
      BY OmiAssumption
    <3>2. /\ Omi!DecideAnchor(a, e, c) \in Int
          /\ Omi!Abs(Omi!DecideAnchor(a, e, c) + e - c) <= Tolerance
          /\ Omi!DecideAnchor(a, e, c) \in {a, c - e}
      BY <3>0, AnchorNear
    <3>3. epoch = Omi!DecideAnchor(a, e, c)
      BY <2>5, <3>1
    <3> QED
      BY <3>1, <3>2, <3>3
  <2>7. clock - e \in -MaxClock .. MaxClock
    BY <2>4, <2>5, OmiAssumption
  <2>8. anchor' = -99 \/ anchor' \in -MaxClock .. MaxClock
    BY <1>0, <1>6, <2>6, <2>7 DEF OmiTypes
  <2>9. \A s \in fresh : Near(epoch + said[s].end, s, clock)
    BY <1>0, <1>2, <2>1, <2>5, <2>6, BatchNear
  <2>12. /\ todo \in [Segments -> 0 .. 2]
         /\ \A s \in Segments : /\ todo[s] > 0 => s \in fresh \ blank
                                /\ s \in fresh \ blank => todo[s] > 0
                                /\ s \notin twice => todo[s] <= 1
    BY DEF Omi!RowsFor
  <2> HIDE DEF fresh, epoch, todo
  <2>10. /\ ingest' \in [step : {"free", "insert"}, batch : SUBSET Segments, todo : [Segments -> 0 .. 2],
                         epoch0 : Int, recv : 0 .. MaxClock]
         /\ ingest'.step = "insert" /\ ingest'.batch = B /\ ingest'.todo = todo
         /\ ingest'.epoch0 = epoch /\ ingest'.recv = clock
    BY <1>2, <1>6, <2>1, <2>4, <2>6, <2>12
  <2>11. OmiTypes'
    BY <1>0, <1>1, <1>2, <1>3, <1>4, <1>6, <2>1, <2>8, <2>10, <2>12 DEF OmiTypes
  <2>13. OmiInserts'
    <3>1. \A s \in B : s \in fresh <=> s \notin seen
      BY DEF fresh
    <3>2. /\ omiFaults \in Nat /\ omiFaults' = omiFaults /\ inserts' = inserts /\ seen' = seen
          /\ \A s \in Segments : inserts[s] \in Nat /\ todo[s] \in 0 .. 2
      <4>1. omiFaults \in Nat /\ inserts \in [Segments -> Nat]
        BY <1>0, OmiAssumption DEF OmiTypes
      <4>2. omiFaults' = omiFaults /\ inserts' = inserts /\ seen' = seen
        BY <1>1
      <4>3. \A s \in Segments : inserts[s] \in Nat
        BY <4>1
      <4>4. \A s \in Segments : todo[s] \in 0 .. 2
        BY <2>12
      <4> QED
        BY <4>1, <4>2, <4>3, <4>4
    <3>3. doubled \subseteq doubled' /\ wordless \subseteq wordless'
      BY <1>6
    <3>4. \A s \in Segments : inserts[s] <= Most(s, 1 + omiFaults)'
      BY <1>0, <3>2, <3>3 DEF OmiInserts, Most
    <3>5. \A s \in Segments \ seen : inserts[s] <= Most(s, omiFaults)
      BY <1>0, <1>2 DEF OmiInserts
    <3>6. ASSUME NEW s \in Segments
          PROVE  /\ todo[s] > 0 => s \in B \ seen
                 /\ s \in B \ seen => todo[s] > 0 \/ inserts[s] >= 1 \/ s \in wordless'
                 /\ inserts[s] + todo[s] <= Most(s, 1 + omiFaults)'
      <4>1. todo[s] > 0 => s \in B \ seen
        BY <2>1, <2>12, <3>1
      <4>2. s \in B \ seen => todo[s] > 0 \/ s \in wordless'
        BY <1>6, <2>12, <3>1
      <4>3. CASE todo[s] = 0
        BY <3>2, <3>4, <4>1, <4>2, <4>3
      <4>4. CASE todo[s] > 0
        <5>1. s \in fresh /\ inserts[s] <= Most(s, omiFaults)
          BY <2>1, <2>12, <3>5, <4>1, <4>4
        <5>2. s \notin doubled' => s \notin doubled /\ todo[s] <= 1
          BY <1>6, <2>12, <5>1
        <5>3. inserts[s] + todo[s] <= Most(s, 1 + omiFaults)'
          <6>1. CASE s \in doubled'
            BY <3>2, <5>1, <6>1 DEF Most
          <6>2. CASE s \notin doubled'
            BY <3>2, <5>1, <5>2, <6>2 DEF Most
          <6> QED
            BY <6>1, <6>2
        <5> QED
          BY <4>1, <4>2, <5>3
      <4> QED
        BY <3>2, <4>3, <4>4
    <3>7. \A s \in Segments \ seen : s \notin B => inserts[s] <= Most(s, omiFaults)'
      BY <3>2, <3>3, <3>5 DEF Most
    <3> QED
      BY <1>0, <2>10, <3>2, <3>3, <3>4, <3>6, <3>7 DEF OmiInserts
  <2>14. OmiTimes'
    BY <1>0, <1>1, <2>9, <2>10, <2>12 DEF OmiTimes, Near
  <2> QED
    BY <2>11, <2>13, <2>14 DEF OmiInv
<1> QED
  BY <1>1, <1>5, <1>6

LEMMA InsertKeeps ==
  ASSUME OmiInv, NEW s \in Segments, Omi!InsertSegment(s)
  PROVE  OmiInv'
<1>0. OmiTypes /\ OmiWorld /\ OmiInserts /\ OmiTimes
  BY DEF OmiInv, OmiTypes
<1> DEFINE row == [seg |-> s, ts |-> ingest.epoch0 + said[s].end, recv |-> ingest.recv]
<1>1. /\ ingest.step = "insert" /\ ingest.todo[s] > 0
      /\ ingest' = [ingest EXCEPT !.todo[s] = @ - 1]
      /\ omiRows' = omiRows \cup {row}
      /\ inserts' = [inserts EXCEPT ![s] = @ + 1]
      /\ UNCHANGED <<clock, talk, said, sendings, keys, seen, anchor, wordless, doubled, omiFaults>>
  BY DEF Omi!InsertSegment, Omi!world, Omi!state, Omi!odd
<1>2. /\ ingest' \in [step : {"free", "insert"}, batch : SUBSET Segments, todo : [Segments -> 0 .. 2],
                      epoch0 : Int, recv : 0 .. MaxClock]
      /\ ingest'.step = "insert" /\ ingest'.batch = ingest.batch
      /\ ingest'.epoch0 = ingest.epoch0 /\ ingest'.recv = ingest.recv
      /\ ingest'.todo[s] = ingest.todo[s] - 1
      /\ \A x \in Segments : x # s => ingest'.todo[x] = ingest.todo[x]
      /\ \A x \in Segments : ingest.todo[x] \in 0 .. 2 /\ ingest'.todo[x] \in 0 .. 2
  <2> DEFINE td == [ingest.todo EXCEPT ![s] = @ - 1]
  <2>1. ingest.todo \in [Segments -> 0 .. 2]
    BY <1>0 DEF OmiTypes
  <2>2. ingest' = [ingest EXCEPT !.todo = td]
    BY <1>1
  <2>3. /\ td \in [Segments -> 0 .. 2] /\ td[s] = ingest.todo[s] - 1
        /\ \A x \in Segments : x # s => td[x] = ingest.todo[x]
    BY <1>1, <2>1
  <2> HIDE DEF td
  <2>4. /\ ingest' \in [step : {"free", "insert"}, batch : SUBSET Segments, todo : [Segments -> 0 .. 2],
                        epoch0 : Int, recv : 0 .. MaxClock]
        /\ ingest'.step = "insert" /\ ingest'.batch = ingest.batch /\ ingest'.todo = td
        /\ ingest'.epoch0 = ingest.epoch0 /\ ingest'.recv = ingest.recv
    BY <1>0, <1>1, <2>2, <2>3 DEF OmiTypes
  <2> QED
    BY <2>1, <2>3, <2>4
<1>3. /\ inserts' \in [Segments -> Nat] /\ inserts'[s] = inserts[s] + 1
      /\ \A q \in Segments : q # s => inserts'[q] = inserts[q]
      /\ \A q \in Segments : inserts[q] \in Nat
  BY <1>0, <1>1 DEF OmiTypes
<1>4. OmiWorld'
  BY <1>0, <1>1 DEF OmiWorld
<1>5. row \in [seg : Segments, ts : Int, recv : 0 .. MaxClock]
  <2>1. /\ ingest.epoch0 \in Int /\ ingest.recv \in 0 .. MaxClock /\ said[s].end \in Int
    BY <1>0, OmiAssumption DEF OmiTypes, OmiWorld
  <2> QED
    BY <2>1
<1>6. OmiTypes'
  BY <1>0, <1>1, <1>2, <1>3, <1>4, <1>5 DEF OmiTypes
<1>7. /\ s \in ingest.batch \ seen /\ omiFaults \in Nat
      /\ inserts[s] + ingest.todo[s] <= Most(s, 1 + omiFaults)
  BY <1>0, <1>1, OmiAssumption DEF OmiInserts, OmiTypes
<1>8. OmiInserts'
  <2>0. \A q, n : Most(q, n)' = Most(q, n')
    BY <1>1 DEF Most
  <2>1. \A q \in Segments : inserts'[q] + ingest'.todo[q] = inserts[q] + ingest.todo[q]
    BY <1>2, <1>3
  <2>2. \A q \in Segments : Most(q, 1 + omiFaults) \in Nat
    BY <1>7 DEF Most
  <2>3. \A q \in Segments : inserts'[q] + ingest'.todo[q] <= Most(q, 1 + omiFaults)
    BY <1>0, <1>1, <2>1 DEF OmiInserts
  <2>4. \A q \in Segments : inserts'[q] <= Most(q, 1 + omiFaults)
    BY <1>2, <1>3, <2>2, <2>3
  <2>5. \A q \in Segments : inserts[q] >= 1 => inserts'[q] >= 1
    BY <1>3
  <2>6. \A q \in Segments :
          /\ ingest'.todo[q] > 0 => q \in ingest'.batch \ seen
          /\ q \in ingest'.batch \ seen => ingest'.todo[q] > 0 \/ inserts'[q] >= 1 \/ q \in wordless
    <3> TAKE q \in Segments
    <3>1. /\ ingest.todo[q] > 0 => q \in ingest.batch \ seen
          /\ q \in ingest.batch \ seen => ingest.todo[q] > 0 \/ inserts[q] >= 1 \/ q \in wordless
      BY <1>0, <1>1 DEF OmiInserts
    <3>2. CASE q = s
      BY <1>2, <1>3, <1>7, <3>2
    <3>3. CASE q # s
      BY <1>2, <1>3, <3>1, <3>3
    <3> QED
      BY <3>2, <3>3
  <2>7. \A q \in seen : inserts'[q] >= 1 \/ q \in wordless
    BY <1>0, <2>5 DEF OmiInserts, OmiTypes
  <2>8. \A q \in Segments \ seen : q \notin ingest'.batch => inserts'[q] <= Most(q, omiFaults)
    <3> TAKE q \in Segments \ seen
    <3>1. q \notin ingest'.batch => q # s /\ q \notin ingest.batch
      BY <1>2, <1>7
    <3> QED
      BY <1>0, <1>3, <3>1 DEF OmiInserts
  <2> QED
    BY <1>1, <1>2, <2>3, <2>4, <2>6, <2>7, <2>8 DEF OmiInserts, Most
<1>9. Near(row.ts, row.seg, row.recv)
  BY <1>0, <1>1 DEF OmiTimes
<1>10. OmiTimes'
  <2>1. \A r \in omiRows' : Near(r.ts, r.seg, r.recv)
    BY <1>0, <1>1, <1>9 DEF OmiTimes
  <2>2. \A q \in Segments : ingest'.todo[q] > 0 => Near(ingest'.epoch0 + said[q].end, q, ingest'.recv)
    <3>1. \A q \in Segments : ingest'.todo[q] > 0 => ingest.todo[q] > 0
      BY <1>1, <1>2
    <3> QED
      BY <1>0, <1>1, <1>2, <3>1 DEF OmiTimes
  <2> QED
    BY <1>1, <2>1, <2>2 DEF OmiTimes, Near
<1> QED
  BY <1>6, <1>8, <1>10 DEF OmiInv

\* The end of a request, its failure or crash, and what is lost of the state.
LEMMA IngestEnds ==
  ASSUME OmiInv, Omi!Recorded \/ Omi!IngestFails \/ Omi!StateLost \/ Omi!KeysExpire
  PROVE  OmiInv'
<1>0. OmiTypes /\ OmiWorld /\ OmiInserts /\ OmiTimes
  BY DEF OmiInv, OmiTypes
<1>1. UNCHANGED <<clock, talk, said, sendings, omiRows, inserts, wordless, doubled>>
  BY DEF Omi!Recorded, Omi!IngestFails, Omi!StateLost, Omi!KeysExpire, Omi!world, Omi!state, Omi!rowset, Omi!odd
<1>2. OmiWorld' /\ \A ts, recv : \A s \in Segments : Near(ts, s, recv) => Near(ts, s, recv)'
  BY <1>0, <1>1 DEF OmiWorld, Near
<1>3. (\A r \in omiRows : Near(r.ts, r.seg, r.recv))'
  BY <1>0, <1>1 DEF OmiTimes, Near
<1>4. /\ Omi!Free \in [step : {"free", "insert"}, batch : SUBSET Segments, todo : [Segments -> 0 .. 2],
                       epoch0 : Int, recv : 0 .. MaxClock]
      /\ Omi!Free.step = "free" /\ Omi!Free.batch = {} /\ \A s \in Segments : Omi!Free.todo[s] = 0
  BY OmiAssumption DEF Omi!Free
<1>5. omiFaults \in Nat /\ \A q \in Segments : inserts[q] \in Nat
  BY <1>0, OmiAssumption DEF OmiTypes
<1>6. CASE Omi!Recorded
  <2>1. /\ ingest.step = "insert" /\ (\A s \in Segments : ingest.todo[s] = 0) /\ seen' = seen \cup ingest.batch
        /\ ingest' = Omi!Free /\ UNCHANGED <<keys, anchor, omiFaults>>
    BY <1>6 DEF Omi!Recorded, Omi!Recordable
  <2>2. OmiTypes'
    BY <1>0, <1>1, <1>2, <1>4, <2>1 DEF OmiTypes
  <2>3. OmiInserts'
    BY <1>0, <1>1, <1>4, <2>1 DEF OmiInserts, OmiTypes, Most
  <2>4. OmiTimes'
    BY <1>3, <1>4, <2>1 DEF OmiTimes
  <2> QED
    BY <2>2, <2>3, <2>4 DEF OmiInv
<1>7. CASE Omi!IngestFails
  <2>1. /\ ingest.step = "insert" /\ omiFaults' = omiFaults + 1 /\ omiFaults < MaxOmiFaults
        /\ ingest' = Omi!Free /\ UNCHANGED <<keys, seen, anchor>>
    BY <1>7 DEF Omi!IngestFails, Omi!state
  <2>2. OmiTypes'
    BY <1>0, <1>1, <1>2, <1>4, <1>5, <2>1, OmiAssumption DEF OmiTypes
  <2>3. OmiInserts'
    BY <1>0, <1>1, <1>4, <1>5, <2>1 DEF OmiInserts, Most
  <2>4. OmiTimes'
    BY <1>3, <1>4, <2>1 DEF OmiTimes
  <2> QED
    BY <2>2, <2>3, <2>4 DEF OmiInv
<1>8. CASE Omi!StateLost
  <2>1. /\ ingest = Omi!Free /\ omiFaults' = omiFaults + 1 /\ omiFaults < MaxOmiFaults
        /\ ingest' = ingest /\ keys' = {} /\ seen' = {} /\ anchor' = -99
    BY <1>8 DEF Omi!StateLost, Omi!None
  <2>2. OmiTypes'
    BY <1>0, <1>1, <1>2, <1>4, <1>5, <2>1, OmiAssumption DEF OmiTypes
  <2>3. OmiInserts'
    BY <1>0, <1>1, <1>4, <1>5, <2>1 DEF OmiInserts, Most
  <2>4. OmiTimes'
    BY <1>3, <1>4, <2>1 DEF OmiTimes
  <2> QED
    BY <2>2, <2>3, <2>4 DEF OmiInv
<1>9. CASE Omi!KeysExpire
  <2>1. ingest = Omi!Free /\ keys' = {} /\ UNCHANGED <<ingest, seen, anchor, omiFaults>>
    BY <1>9 DEF Omi!KeysExpire
  <2>2. OmiTypes'
    BY <1>0, <1>1, <1>2, <2>1 DEF OmiTypes
  <2>3. OmiInserts'
    BY <1>0, <1>1, <2>1 DEF OmiInserts, Most
  <2>4. OmiTimes'
    BY <1>3, <1>4, <2>1 DEF OmiTimes
  <2> QED
    BY <2>2, <2>3, <2>4 DEF OmiInv
<1> QED
  BY <1>6, <1>7, <1>8, <1>9

LEMMA OmiStep == OmiInv /\ [Omi!Next]_omiVars => OmiInv'
<1> SUFFICES ASSUME OmiInv, [Omi!Next]_omiVars PROVE OmiInv'
  OBVIOUS
<1>1. CASE UNCHANGED omiVars
  BY <1>1 DEF omiVars, OmiInv, OmiTypes, OmiWorld, OmiInserts, Most, OmiTimes, Near
<1>2. CASE Omi!Next
  <2>1. CASE Omi!Wait \/ \E s \in Segments : Omi!Speak(s)
    BY <2>1, WorldKeeps
  <2>2. CASE \E s \in Segments : Omi!InsertSegment(s)
    BY <2>2, InsertKeeps
  <2>3. ASSUME NEW B \in (SUBSET Omi!Spoken) \ {{}}, NEW keyed \in BOOLEAN,
               \A s, t \in B : said[s].conv = said[t].conv,
               NEW blank \in SUBSET B, NEW twice \in SUBSET B, Omi!Receive(B, blank, twice, keyed)
        PROVE  OmiInv'
    <3>1. B \in SUBSET Omi!Spoken /\ B # {}
      BY <2>3
    <3> QED
      BY <2>3, <3>1, ReceiveKeeps, Zenon
  <2>4. CASE Omi!Recorded \/ Omi!IngestFails \/ Omi!StateLost \/ Omi!KeysExpire
    BY <2>4, IngestEnds
  <2> QED
    BY <1>2, <2>1, <2>2, <2>3, <2>4 DEF Omi!Next
<1> QED
  BY <1>1, <1>2

(***************************************************************************)
(* OmiIngest: re-delivered and overlapping batches insert a segment once,  *)
(* twice if it was twice in one of them, and at most as often again for    *)
(* each failed request, crash or loss of the dedup state; what counts as   *)
(* seen was inserted, or had come without words, which get no row.         *)
(***************************************************************************)
THEOREM InsertedOnceHolds == Spec => []InsertedOnce
<1>1. Init => OmiInv
  BY OmiInit DEF Init
<1>2. OmiInv /\ [Next]_vars => OmiInv'
  BY StepOfEach, OmiStep
<1>3. OmiInv => InsertedOnce
  BY OmiSuffices DEF InsertedOnce
<1> QED
  BY <1>1, <1>2, <1>3, PTL DEF Spec

(***************************************************************************)
(* OmiIngest: a row's time is off by no more than the delay of its own     *)
(* delivery and the anchor's tolerance, through re-deliveries, new         *)
(* conversations and a lost anchor.                                        *)
(***************************************************************************)
THEOREM TimesStayNear == Spec => []TimesNear
<1>1. Init => OmiInv
  BY OmiInit DEF Init
<1>2. OmiInv /\ [Next]_vars => OmiInv'
  BY StepOfEach, OmiStep
<1>3. OmiInv => TimesNear
  BY OmiSuffices DEF TimesNear
<1> QED
  BY <1>1, <1>2, <1>3, PTL DEF Spec

-----------------------------------------------------------------------------
(* AmbientDiar: rows, windows and labels *)

Spans == [id : 1 .. MaxRows, utt : 1 .. MaxRows]
Windows == [spans : SUBSET Spans, idx : Nat]
Jobs == [phase : {"idle", "child", "label"}, todo : SUBSET Spans, idx : Nat]

\* An AUTOINCREMENT id is the number of the utterance its row holds.
RowsTrue ==
  /\ spoken \in 0 .. MaxRows /\ lastId = spoken
  /\ DOMAIN rows \subseteq 1 .. lastId
  /\ \A i \in DOMAIN rows :
       /\ rows[i] \in [utt : 1 .. MaxRows, omi : BOOLEAN, label : 0 .. MaxRows]
       /\ rows[i].utt = i /\ rows[i].label \in {0, i}

DiarTypes ==
  /\ pending \in SUBSET Spans /\ queue \in Seq(Windows) /\ Len(queue) <= QueueMax /\ job \in Jobs
  /\ job.phase = "idle" => job = Diar!Idle
  /\ pool \in {"up", "none"} /\ enabled \in BOOLEAN /\ cooling \in BOOLEAN
  /\ failures \in 0 .. 4 /\ (failures = 4 => pool = "none" /\ job.phase = "idle")
  /\ purging \in [Diar!Procs -> 0 .. MaxRows] /\ purges \in 0 .. MaxPurges
  /\ phase \in {"running", "stopping", "closed"}

\* A window takes at least one utterance, and a window not done is unfinished.
Counts ==
  /\ windows \in Nat /\ unfinished \in Nat /\ windows <= spoken /\ unfinished <= windows
  /\ pending # {} => windows + 1 <= spoken
  /\ Len(queue) <= unfinished
  /\ job.phase # "idle" => Len(queue) + 1 <= unfinished

\* The windows that wait or are worked on, p the open one, t the worker's, q the queue: of rows
\* inserted so far, up to n, none of them in two windows, none with a label.
Own(w, n) == w \in SUBSET Spans /\ \A s \in w : s.id = s.utt /\ s.id <= n
Unlabelled(w, labels) == \A s \in w : s.id \notin labels
WindowsApart(p, t, q, n, labels) ==
  /\ Own(p, n) /\ Own(t, n) /\ \A k \in 1 .. Len(q) : Own(q[k].spans, n)
  /\ Unlabelled(p, labels) /\ Unlabelled(t, labels)
  /\ \A k \in 1 .. Len(q) : Unlabelled(q[k].spans, labels)
  /\ p \cap t = {}
  /\ \A k \in 1 .. Len(q) : q[k].spans \cap p = {} /\ q[k].spans \cap t = {}
  /\ \A k, m \in 1 .. Len(q) : k # m => q[k].spans \cap q[m].spans = {}

Labelled == {i \in DOMAIN rows : rows[i].label # 0}
Apart == WindowsApart(pending, job.todo, queue, lastId, Labelled)

DiarInv == RowsTrue /\ DiarTypes /\ Counts /\ Apart

LEMMA DiarCardinality == \A S : Diar!Cardinality(S) = Cardinality(S)
BY DEF Diar!Cardinality, Cardinality

LEMMA DiarInit == Diar!Init => DiarInv
<1> SUFFICES ASSUME Diar!Init PROVE DiarInv
  OBVIOUS
<1>1. /\ rows = <<>> /\ lastId = 0 /\ spoken = 0 /\ pending = {} /\ queue = <<>> /\ job = Diar!Idle
      /\ unfinished = 0 /\ windows = 0 /\ pool \in {"up", "none"} /\ enabled = (pool = "up")
      /\ failures = 0 /\ cooling = FALSE /\ purging = [p \in Diar!Procs |-> 0] /\ purges = 0
      /\ phase = "running"
  BY DEF Diar!Init
<1>2. /\ DOMAIN rows = {} /\ Labelled = {} /\ DOMAIN queue = {} /\ Len(queue) = 0 /\ queue \in Seq(Windows)
  BY <1>1 DEF Labelled
<1>3. Diar!Idle \in Jobs /\ Diar!Idle.todo = {} /\ Diar!Idle.phase = "idle"
  BY DEF Diar!Idle, Jobs
<1>4. RowsTrue
  BY <1>1, <1>2, DiarAssumption DEF RowsTrue
<1>5. DiarTypes
  <2>1. purging \in [Diar!Procs -> 0 .. MaxRows] /\ 0 \in 0 .. MaxPurges /\ 0 \in 0 .. 4
    BY <1>1, DiarAssumption
  <2>2. enabled \in BOOLEAN /\ cooling \in BOOLEAN
    BY <1>1
  <2>3. Len(queue) <= QueueMax
    BY <1>2, DiarAssumption
  <2> QED
    BY <1>1, <1>2, <1>3, <2>1, <2>2, <2>3 DEF DiarTypes
<1>6. Counts
  BY <1>1, <1>2, <1>3 DEF Counts
<1>7. Apart
  BY <1>1, <1>2, <1>3 DEF Apart, WindowsApart, Own, Unlabelled
<1> QED
  BY <1>4, <1>5, <1>6, <1>7 DEF DiarInv

\* A row is inserted under the next number, without a label.
LEMMA InsertIs ==
  ASSUME RowsTrue, NEW omi \in BOOLEAN, Diar!Insert(omi)
  PROVE  /\ RowsTrue' /\ lastId' = lastId + 1 /\ spoken' = spoken + 1 /\ spoken + 1 \in 1 .. MaxRows
         /\ Labelled' = Labelled /\ lastId + 1 \notin Labelled
<1> DEFINE n == spoken + 1
           row == [utt |-> n, omi |-> omi, label |-> 0]
<1>1. /\ spoken \in 0 .. MaxRows /\ lastId = spoken /\ n \in 1 .. MaxRows /\ spoken' = n /\ lastId' = n
      /\ rows' = [i \in DOMAIN rows \cup {n} |-> IF i = n THEN row ELSE rows[i]]
  BY DiarAssumption DEF RowsTrue, Diar!Insert, Diar!NextId, Diar!Ids
<1>2. row \in [utt : 1 .. MaxRows, omi : BOOLEAN, label : 0 .. MaxRows] /\ row.utt = n /\ row.label = 0
  <2>1. 0 \in 0 .. MaxRows
    BY DiarAssumption
  <2> QED
    BY <1>1, <2>1
<1>3. n \notin DOMAIN rows
  BY <1>1 DEF RowsTrue
<1> HIDE DEF row
<1>4. /\ DOMAIN rows' = DOMAIN rows \cup {n} /\ rows'[n] = row
      /\ \A i \in DOMAIN rows : i # n /\ rows'[i] = rows[i]
  BY <1>1, <1>3
<1>5. RowsTrue'
  <2>1. spoken' \in 0 .. MaxRows /\ lastId' = spoken'
    BY <1>1
  <2>2. DOMAIN rows' \subseteq 1 .. lastId'
    BY <1>1, <1>4 DEF RowsTrue
  <2>3. \A i \in DOMAIN rows' :
          /\ rows'[i] \in [utt : 1 .. MaxRows, omi : BOOLEAN, label : 0 .. MaxRows]
          /\ rows'[i].utt = i /\ rows'[i].label \in {0, i}
    BY <1>2, <1>4 DEF RowsTrue
  <2> QED
    BY <2>1, <2>2, <2>3 DEF RowsTrue
<1>6. Labelled' = Labelled
  BY <1>2, <1>4 DEF Labelled
<1> QED
  BY <1>1, <1>3, <1>5, <1>6 DEF Labelled

\* Rows are deleted: those that stay are as they were.
LEMMA DeleteIs ==
  ASSUME RowsTrue, NEW D, Diar!Delete(D), UNCHANGED <<lastId, spoken>>
  PROVE  RowsTrue' /\ Labelled' \subseteq Labelled
<1>1. /\ DOMAIN rows' = DOMAIN rows \ D /\ \A i \in DOMAIN rows' : i \in DOMAIN rows /\ rows'[i] = rows[i]
  BY DEF Diar!Delete, Diar!Ids
<1>2. RowsTrue'
  BY <1>1 DEF RowsTrue
<1> QED
  BY <1>1, <1>2 DEF Labelled

\* A new utterance joins the open window, under a number of its own.
LEMMA ApartJoin ==
  ASSUME NEW p, NEW t, NEW q \in Seq(Windows), NEW n \in Nat, NEW labels,
         WindowsApart(p, t, q, n, labels), NEW new \in Spans, new.id = n + 1, new.utt = n + 1,
         n + 1 \notin labels
  PROVE  /\ WindowsApart(p, t, q, n + 1, labels)
         /\ WindowsApart(p \cup {new}, t, q, n + 1, labels)
<1>1. \A w : Own(w, n) => Own(w, n + 1) /\ new \notin w
  BY DEF Own, Spans
<1>2. \A w : Own(w, n) => Own(w \cup {new}, n + 1)
  BY <1>1 DEF Own
<1>3. \A w : Unlabelled(w, labels) => Unlabelled(w \cup {new}, labels)
  BY DEF Unlabelled
<1> QED
  BY <1>1, <1>2, <1>3 DEF WindowsApart

\* Fewer spans of the worker's, fewer labels: still apart.
LEMMA ApartLess ==
  ASSUME NEW p, NEW t, NEW q, NEW n, NEW labels, WindowsApart(p, t, q, n, labels),
         NEW t2 \in SUBSET t, NEW labels2 \in SUBSET labels
  PROVE  WindowsApart(p, t2, q, n, labels2)
<1>1. Own(t2, n) /\ Unlabelled(t2, labels2)
  BY DEF WindowsApart, Own, Unlabelled
<1>2. \A w : Unlabelled(w, labels) => Unlabelled(w, labels2)
  BY DEF Unlabelled
<1> QED
  BY <1>1, <1>2 DEF WindowsApart

\* One row of the worker's window gets its label.
LEMMA ApartLabel ==
  ASSUME NEW p, NEW t, NEW q, NEW n, NEW labels, WindowsApart(p, t, q, n, labels), NEW s \in t
  PROVE  WindowsApart(p, t \ {s}, q, n, labels \cup {s.id})
<1>1. s \in Spans /\ s.id = s.utt
  BY DEF WindowsApart, Own
<1>2. \A w : Own(w, n) /\ Unlabelled(w, labels) /\ s \notin w => Unlabelled(w, labels \cup {s.id})
  <2> SUFFICES ASSUME NEW w, Own(w, n), Unlabelled(w, labels), s \notin w, NEW x \in w
               PROVE  x.id # s.id
    BY DEF Unlabelled
  <2>2. x \in Spans /\ x.id = x.utt
    BY DEF Own
  <2>3. \A y, z \in Spans : y.id = z.id /\ y.utt = z.utt => y = z
    BY DEF Spans
  <2> QED
    BY <1>1, <2>2, <2>3
<1>3. Own(t \ {s}, n) /\ Unlabelled(t \ {s}, labels)
  BY DEF WindowsApart, Own, Unlabelled
<1>4. s \notin p /\ \A k \in 1 .. Len(q) : s \notin q[k].spans
  BY DEF WindowsApart
<1> QED
  BY <1>2, <1>3, <1>4 DEF WindowsApart

\* The queue gives up its oldest window.
LEMMA ApartTail ==
  ASSUME NEW p, NEW t, NEW q \in Seq(Windows), q # <<>>, NEW n, NEW labels, WindowsApart(p, t, q, n, labels)
  PROVE  /\ WindowsApart(p, t, Tail(q), n, labels)
         /\ WindowsApart(p, Head(q).spans, Tail(q), n, labels)
         /\ Tail(q) \in Seq(Windows) /\ Len(Tail(q)) = Len(q) - 1 /\ Len(q) \in Nat \ {0}
<1>1. /\ Tail(q) \in Seq(Windows) /\ Len(Tail(q)) = Len(q) - 1 /\ Len(q) \in Nat \ {0}
      /\ Head(q) = q[1]
      /\ \A k \in 1 .. Len(Tail(q)) : Tail(q)[k] = q[k + 1] /\ k + 1 \in 1 .. Len(q)
  OBVIOUS
<1>2. 1 \in 1 .. Len(q) /\ \A k \in 1 .. Len(Tail(q)) : k + 1 # 1
  BY <1>1
<1>3. \A k, m \in 1 .. Len(Tail(q)) : k # m => k + 1 # m + 1
  BY <1>1
<1>4. WindowsApart(p, t, Tail(q), n, labels)
  BY <1>1, <1>3 DEF WindowsApart
<1>5. WindowsApart(p, Head(q).spans, Tail(q), n, labels)
  BY <1>1, <1>2, <1>3 DEF WindowsApart
<1> QED
  BY <1>1, <1>4, <1>5

\* The open window is closed and joins the queue.
LEMMA ApartClose ==
  ASSUME NEW p, NEW t, NEW q \in Seq(Windows), NEW n, NEW labels, WindowsApart(p, t, q, n, labels),
         NEW w \in Windows, w.spans = p
  PROVE  /\ WindowsApart({}, t, Append(q, w), n, labels)
         /\ WindowsApart({}, t, q, n, labels)
         /\ Append(q, w) \in Seq(Windows) /\ Len(Append(q, w)) = Len(q) + 1
<1>1. /\ Append(q, w) \in Seq(Windows) /\ Len(Append(q, w)) = Len(q) + 1 /\ Len(q) \in Nat
      /\ Append(q, w)[Len(q) + 1] = w
      /\ \A k \in 1 .. Len(q) : Append(q, w)[k] = q[k]
  OBVIOUS
<1>2. \A k \in 1 .. Len(q) + 1 : k = Len(q) + 1 \/ k \in 1 .. Len(q)
  BY <1>1
<1>3. Own({}, n) /\ Unlabelled({}, labels)
  BY DEF Own, Unlabelled
<1>4. WindowsApart({}, t, q, n, labels)
  BY <1>3 DEF WindowsApart
<1>5. WindowsApart({}, t, Append(q, w), n, labels)
  <2>1. \A k \in 1 .. Len(q) + 1 :
          /\ Own(Append(q, w)[k].spans, n) /\ Unlabelled(Append(q, w)[k].spans, labels)
          /\ Append(q, w)[k].spans \cap t = {}
    BY <1>1, <1>2 DEF WindowsApart
  <2>2. ASSUME NEW k \in 1 .. Len(q) + 1, NEW m \in 1 .. Len(q) + 1, k # m
        PROVE  Append(q, w)[k].spans \cap Append(q, w)[m].spans = {}
    <3>1. CASE k = Len(q) + 1
      <4>1. m \in 1 .. Len(q)
        BY <1>2, <2>2, <3>1
      <4> QED
        BY <1>1, <3>1, <4>1 DEF WindowsApart
    <3>2. CASE m = Len(q) + 1
      <4>1. k \in 1 .. Len(q)
        BY <1>2, <2>2, <3>2
      <4> QED
        BY <1>1, <3>2, <4>1 DEF WindowsApart
    <3>3. CASE k \in 1 .. Len(q) /\ m \in 1 .. Len(q)
      BY <1>1, <2>2, <3>3 DEF WindowsApart
    <3> QED
      BY <1>2, <3>1, <3>2, <3>3
  <2> QED
    BY <1>1, <1>3, <1>4, <2>1, <2>2 DEF WindowsApart
<1> QED
  BY <1>1, <1>4, <1>5


LEMMA RowsMove ==
  ASSUME DiarInv, Diar!Utterance \/ Diar!OmiRow
  PROVE  DiarInv'
<1>0. RowsTrue /\ DiarTypes /\ Counts /\ Apart
  BY DEF DiarInv
<1>1. PICK omi \in BOOLEAN : Diar!Insert(omi)
  BY DEF Diar!Utterance, Diar!OmiRow
<1>2. /\ RowsTrue' /\ lastId' = lastId + 1 /\ spoken' = spoken + 1 /\ spoken + 1 \in 1 .. MaxRows
      /\ Labelled' = Labelled /\ lastId + 1 \notin Labelled
  BY <1>0, <1>1, InsertIs
<1>3. /\ UNCHANGED <<queue, job, unfinished, windows, pool, failures, enabled, cooling, purging, purges, phase>>
      /\ \/ pending' = pending
         \/ pending' = pending \cup {[id |-> lastId + 1, utt |-> spoken + 1]}
  BY DEF Diar!Utterance, Diar!OmiRow, Diar!diar, Diar!health, Diar!NextId
<1>4. lastId = spoken /\ lastId \in Nat /\ spoken \in Nat
  BY <1>0, DiarAssumption DEF RowsTrue
<1>5. PICK m \in 1 .. MaxRows : m = spoken + 1
  BY <1>2
<1>6. PICK new \in Spans : new = [id |-> m, utt |-> m] /\ new.id = m /\ new.utt = m
  <2>1. [id |-> m, utt |-> m] \in Spans
    BY DEF Spans
  <2> QED
    BY <2>1
<1>7. pending' = pending \/ pending' = pending \cup {new}
  BY <1>3, <1>4, <1>5, <1>6
<1>8. Apart'
  <2>1. PICK n \in Nat : n = lastId
    BY <1>4
  <2>2. new.id = n + 1 /\ new.utt = n + 1 /\ n + 1 \notin Labelled
    BY <1>2, <1>4, <1>5, <1>6, <2>1
  <2>3. queue \in Seq(Windows) /\ WindowsApart(pending, job.todo, queue, n, Labelled)
    BY <1>0, <2>1 DEF Apart, DiarTypes
  <2>4. /\ WindowsApart(pending, job.todo, queue, n + 1, Labelled)
        /\ WindowsApart(pending \cup {new}, job.todo, queue, n + 1, Labelled)
    BY <2>2, <2>3, ApartJoin
  <2>5. WindowsApart(pending', job.todo, queue, n + 1, Labelled)
    BY <1>7, <2>4
  <2> QED
    BY <1>2, <1>3, <2>1, <2>5 DEF Apart
<1>9. DiarTypes'
  <2>1. pending' \in SUBSET Spans
    BY <1>0, <1>7 DEF DiarTypes
  <2> QED
    BY <1>0, <1>3, <2>1 DEF DiarTypes
<1>10. Counts'
  BY <1>0, <1>2, <1>3, <1>4 DEF Counts
<1> QED
  BY <1>2, <1>8, <1>9, <1>10 DEF DiarInv

LEMMA PurgeMoves ==
  ASSUME DiarInv, NEW p \in Diar!Procs, Diar!PurgeTtl(p) \/ Diar!PurgeCeiling(p)
  PROVE  DiarInv'
<1>0. RowsTrue /\ DiarTypes /\ Counts /\ Apart
  BY DEF DiarInv
<1>1. PICK D \in SUBSET Diar!Ids : Diar!Delete(D)
  BY DEF Diar!PurgeTtl, Diar!PurgeCeiling
<1>2. /\ UNCHANGED <<lastId, spoken, pending, queue, job, unfinished, windows, pool, failures, enabled, cooling, phase>>
  BY DEF Diar!PurgeTtl, Diar!PurgeCeiling, Diar!diar, Diar!health
<1>3. RowsTrue' /\ Labelled' \in SUBSET Labelled
  BY <1>0, <1>1, <1>2, DeleteIs
<1>4. WindowsApart(pending, job.todo, queue, lastId, Labelled')
  BY <1>0, <1>3, ApartLess DEF Apart
<1>5. Apart'
  BY <1>2, <1>4 DEF Apart
<1>6. Counts'
  BY <1>0, <1>2 DEF Counts
<1>7. purging' \in [Diar!Procs -> 0 .. MaxRows] /\ purges' \in 0 .. MaxPurges
  <2>1. purging \in [Diar!Procs -> 0 .. MaxRows] /\ purges \in 0 .. MaxPurges
    BY <1>0 DEF DiarTypes
  <2>2. CASE Diar!PurgeCeiling(p)
    BY <2>1, <2>2, DiarAssumption DEF Diar!PurgeCeiling
  <2>3. CASE Diar!PurgeTtl(p)
    <3>1. PICK E \in SUBSET Diar!Ids :
            purging' = [purging EXCEPT ![p] = IF Diar!Cardinality(Diar!Ids \ E) > Ceiling
                                              THEN Diar!Cardinality(Diar!Ids \ E) - Target ELSE 0]
      BY <2>3 DEF Diar!PurgeTtl
    <3>2. Diar!Ids \ E \subseteq 1 .. MaxRows
      BY <1>0, DiarAssumption DEF RowsTrue, Diar!Ids
    <3>3. IsFiniteSet(1 .. MaxRows) /\ Cardinality(1 .. MaxRows) = MaxRows
      BY FS_Interval, DiarAssumption
    <3>4. Cardinality(Diar!Ids \ E) \in Nat /\ Cardinality(Diar!Ids \ E) <= MaxRows
      <4>1. IsFiniteSet(Diar!Ids \ E) /\ Cardinality(Diar!Ids \ E) <= Cardinality(1 .. MaxRows)
        BY <3>2, <3>3, FS_Subset
      <4> QED
        BY <3>3, <4>1, FS_CardinalityType
    <3>5. PICK left \in Nat : left = Diar!Cardinality(Diar!Ids \ E) /\ left <= MaxRows
      BY <3>4, DiarCardinality
    <3>6. (IF left > Ceiling THEN left - Target ELSE 0) \in 0 .. MaxRows
      BY <3>5, DiarAssumption
    <3>7. purges' \in 0 .. MaxPurges
      BY <2>1, <2>3, DiarAssumption DEF Diar!PurgeTtl
    <3> QED
      BY <2>1, <3>1, <3>5, <3>6, <3>7
  <2> QED
    BY <2>2, <2>3
<1>8. DiarTypes'
  BY <1>0, <1>2, <1>7 DEF DiarTypes
<1> QED
  BY <1>3, <1>5, <1>6, <1>8 DEF DiarInv

LEMMA CloseMoves ==
  ASSUME DiarInv, Diar!CloseWindow
  PROVE  DiarInv'
<1>0. RowsTrue /\ DiarTypes /\ Counts /\ Apart
  BY DEF DiarInv
<1>1. /\ pending # {} /\ pending' = {} /\ Diar!Submit(pending)
      /\ UNCHANGED <<rows, lastId, spoken, purging, purges, job, pool, failures, enabled, cooling, phase>>
  BY DEF Diar!CloseWindow, Diar!store, Diar!health
<1>2. /\ queue \in Seq(Windows) /\ pending \in SUBSET Spans /\ windows \in Nat /\ unfinished \in Nat
      /\ Len(queue) <= QueueMax /\ Len(queue) \in Nat
  BY <1>0 DEF DiarTypes, Counts
<1>3. PICK w \in Windows : w = [spans |-> pending, idx |-> windows + 1] /\ w.spans = pending
  <2>1. [spans |-> pending, idx |-> windows + 1] \in Windows
    BY <1>2 DEF Windows
  <2> QED
    BY <2>1
<1>4. \/ UNCHANGED <<queue, windows, unfinished>>
      \/ /\ windows' = windows + 1 /\ unfinished' = unfinished + 1
         /\ queue' = Append(IF Len(queue) = QueueMax THEN Tail(queue) ELSE queue, w)
  BY <1>1, <1>3 DEF Diar!Submit
<1>5. WindowsApart(pending, job.todo, queue, lastId, Labelled)
  BY <1>0 DEF Apart
<1>6. RowsTrue'
  BY <1>0, <1>1 DEF RowsTrue
<1>7. /\ WindowsApart({}, job.todo, queue', lastId, Labelled) /\ queue' \in Seq(Windows)
      /\ Len(queue') <= QueueMax
      /\ \/ UNCHANGED <<queue, windows, unfinished>>
         \/ windows' = windows + 1 /\ unfinished' = unfinished + 1 /\ Len(queue') <= Len(queue) + 1
  <2>1. CASE UNCHANGED <<queue, windows, unfinished>>
    BY <1>2, <1>3, <1>5, <2>1, ApartClose
  <2>2. CASE /\ windows' = windows + 1 /\ unfinished' = unfinished + 1
             /\ queue' = Append(IF Len(queue) = QueueMax THEN Tail(queue) ELSE queue, w)
    <3>1. CASE Len(queue) = QueueMax
      <4>1. queue # <<>>
        BY <3>1, DiarAssumption
      <4>2. /\ WindowsApart(pending, job.todo, Tail(queue), lastId, Labelled)
            /\ Tail(queue) \in Seq(Windows) /\ Len(Tail(queue)) = Len(queue) - 1
        BY <1>2, <1>5, <4>1, ApartTail
      <4>3. PICK rest \in Seq(Windows) : rest = Tail(queue)
        BY <4>2
      <4>4. queue' = Append(rest, w)
        BY <2>2, <3>1, <4>3
      <4>5. WindowsApart(pending, job.todo, rest, lastId, Labelled)
        BY <4>2, <4>3
      <4>6. /\ WindowsApart({}, job.todo, Append(rest, w), lastId, Labelled)
            /\ Append(rest, w) \in Seq(Windows) /\ Len(Append(rest, w)) = Len(rest) + 1
        BY <1>3, <4>5, ApartClose
      <4>7. Len(queue') = Len(queue)
        BY <1>2, <4>2, <4>3, <4>4, <4>6
      <4>8. Len(queue') <= Len(queue) + 1
        BY <1>2, <4>7
      <4> QED
        BY <1>2, <2>2, <4>4, <4>6, <4>7, <4>8
    <3>2. CASE Len(queue) # QueueMax
      <4>1. queue' = Append(queue, w)
        BY <2>2, <3>2
      <4>2. /\ WindowsApart({}, job.todo, queue', lastId, Labelled) /\ queue' \in Seq(Windows)
            /\ Len(queue') = Len(queue) + 1
        BY <1>2, <1>3, <1>5, <4>1, ApartClose
      <4> QED
        BY <1>2, <2>2, <3>2, <4>2, DiarAssumption
    <3> QED
      BY <3>1, <3>2
  <2> QED
    BY <1>4, <2>1, <2>2
<1>8. Apart'
  <2>1. Labelled' = Labelled
    BY <1>1 DEF Labelled
  <2> QED
    BY <1>1, <1>7, <2>1 DEF Apart
<1>9. DiarTypes'
  <2>1. pending' \in SUBSET Spans
    BY <1>1
  <2> QED
    BY <1>0, <1>1, <1>7, <2>1 DEF DiarTypes
<1>10. Counts'
  <2>1. spoken \in Nat /\ Len(queue') \in Nat
    BY <1>0, <1>7, DiarAssumption DEF RowsTrue
  <2>2. windows + 1 <= spoken /\ unfinished <= windows /\ Len(queue) <= unfinished
        /\ (job.phase # "idle" => Len(queue) + 1 <= unfinished)
    BY <1>0, <1>1 DEF Counts
  <2>3. CASE UNCHANGED <<queue, windows, unfinished>>
    BY <1>1, <1>2, <2>1, <2>2, <2>3 DEF Counts
  <2>4. CASE windows' = windows + 1 /\ unfinished' = unfinished + 1 /\ Len(queue') <= Len(queue) + 1
    BY <1>1, <1>2, <2>1, <2>2, <2>4 DEF Counts
  <2> QED
    BY <1>7, <2>3, <2>4
<1> QED
  BY <1>6, <1>8, <1>9, <1>10 DEF DiarInv

LEMMA TakeMoves ==
  ASSUME DiarInv, Diar!Take
  PROVE  DiarInv'
<1>0. RowsTrue /\ DiarTypes /\ Counts /\ Apart
  BY DEF DiarInv
<1>1. /\ job = Diar!Idle /\ queue # <<>> /\ queue' = Tail(queue)
      /\ \/ /\ pool = "up" /\ unfinished' = unfinished
            /\ job' = [phase |-> "child", todo |-> Head(queue).spans, idx |-> Head(queue).idx]
         \/ unfinished' = unfinished - 1 /\ job' = job
      /\ UNCHANGED <<rows, lastId, spoken, purging, purges, pending, windows, pool, failures, enabled, cooling, phase>>
  BY DEF Diar!Take, Diar!TaskDone, Diar!store, Diar!health
<1>2. /\ job.phase = "idle" /\ job.todo = {}
  BY <1>1 DEF Diar!Idle
<1>3. /\ queue \in Seq(Windows) /\ WindowsApart(pending, job.todo, queue, lastId, Labelled)
  BY <1>0 DEF DiarTypes, Apart
<1>4. /\ WindowsApart(pending, job.todo, Tail(queue), lastId, Labelled)
      /\ WindowsApart(pending, Head(queue).spans, Tail(queue), lastId, Labelled)
      /\ Tail(queue) \in Seq(Windows) /\ Len(Tail(queue)) = Len(queue) - 1 /\ Len(queue) \in Nat \ {0}
  BY <1>1, <1>3, ApartTail
<1>5. Head(queue) \in Windows
  BY <1>1, <1>3
<1>6. /\ job' \in Jobs /\ (job'.phase = "idle" => job' = Diar!Idle)
      /\ \/ pool = "up" /\ job'.phase = "child" /\ job'.todo = Head(queue).spans /\ unfinished' = unfinished
         \/ job' = job /\ unfinished' = unfinished - 1
  <2>1. CASE job' = job /\ unfinished' = unfinished - 1
    BY <1>0, <1>1, <2>1 DEF DiarTypes
  <2>2. CASE /\ pool = "up" /\ unfinished' = unfinished
             /\ job' = [phase |-> "child", todo |-> Head(queue).spans, idx |-> Head(queue).idx]
    BY <1>5, <2>2 DEF Windows, Jobs
  <2> QED
    BY <1>1, <2>1, <2>2
<1>7. RowsTrue' /\ Labelled' = Labelled
  BY <1>0, <1>1 DEF RowsTrue, Labelled
<1>8. Apart'
  BY <1>1, <1>4, <1>6, <1>7 DEF Apart
<1>9. DiarTypes'
  <2>1. Len(queue') <= QueueMax
    BY <1>0, <1>1, <1>4, DiarAssumption DEF DiarTypes
  <2>2. failures = 4 => pool = "none" /\ job'.phase = "idle"
    BY <1>0, <1>2, <1>6 DEF DiarTypes
  <2> QED
    BY <1>0, <1>1, <1>4, <1>6, <2>1, <2>2 DEF DiarTypes
<1>10. Counts'
  BY <1>0, <1>1, <1>2, <1>4, <1>6 DEF Counts
<1> QED
  BY <1>7, <1>8, <1>9, <1>10 DEF DiarInv

\* The worker's window is done, fails or crashes, or its labels are being written.
LEMMA JobMoves ==
  ASSUME DiarInv, Diar!ChildAnswers \/ Diar!ChildCrashes \/ Diar!WindowFails \/ Diar!WindowDone
  PROVE  DiarInv'
<1>0. RowsTrue /\ DiarTypes /\ Counts /\ Apart
  BY DEF DiarInv
<1>1. UNCHANGED <<rows, lastId, spoken, purging, purges, pending, queue, windows, phase>>
  BY DEF Diar!ChildAnswers, Diar!ChildCrashes, Diar!WindowFails, Diar!WindowDone, Diar!store, Diar!health
<1>2. Diar!Idle \in Jobs /\ Diar!Idle.todo = {} /\ Diar!Idle.phase = "idle"
  BY DEF Diar!Idle, Jobs
<1>3. /\ job.phase # "idle" /\ job' \in Jobs
      /\ \/ /\ job' = Diar!Idle /\ unfinished' = unfinished - 1
         \/ /\ job'.phase = "label" /\ job'.todo = job.todo /\ unfinished' = unfinished
  <2>1. job \in Jobs /\ (job.phase = "idle" => job = Diar!Idle)
    BY <1>0 DEF DiarTypes
  <2>2. CASE Diar!ChildAnswers
    BY <2>1, <2>2 DEF Diar!ChildAnswers, Jobs
  <2>3. CASE Diar!ChildCrashes
    BY <1>2, <2>1, <2>3 DEF Diar!ChildCrashes, Diar!TaskDone
  <2>4. CASE Diar!WindowFails
    BY <1>2, <2>1, <2>4 DEF Diar!WindowFails, Diar!TaskDone
  <2>5. CASE Diar!WindowDone
    BY <1>2, <2>1, <2>5 DEF Diar!WindowDone, Diar!TaskDone
  <2> QED
    BY <2>2, <2>3, <2>4, <2>5
<1>4. /\ pool' \in {"up", "none"} /\ failures' \in 0 .. 4
      /\ (failures' = 4 => pool' = "none" /\ job'.phase = "idle")
  <2>1. pool \in {"up", "none"} /\ failures \in 0 .. 4 /\ failures # 4
    BY <1>0, <1>3 DEF DiarTypes
  <2>2. CASE Diar!ChildAnswers
    BY <2>1, <2>2 DEF Diar!ChildAnswers, Diar!health
  <2>3. CASE Diar!ChildCrashes
    <3>1. failures' = failures + 1 /\ job' = Diar!Idle /\ pool' \in {"up", "none"} /\ (failures + 1 > 3 => pool' = "none")
      BY <2>3 DEF Diar!ChildCrashes
    <3> QED
      BY <1>2, <2>1, <3>1
  <2>4. CASE Diar!WindowFails
    BY <2>1, <2>4 DEF Diar!WindowFails, Diar!health
  <2>5. CASE Diar!WindowDone
    BY <2>1, <2>5 DEF Diar!WindowDone
  <2> QED
    BY <2>2, <2>3, <2>4, <2>5
<1>5. enabled' \in BOOLEAN /\ cooling' \in BOOLEAN
  <2>1. enabled \in BOOLEAN /\ cooling \in BOOLEAN
    BY <1>0 DEF DiarTypes
  <2> QED
    BY <2>1 DEF Diar!ChildAnswers, Diar!ChildCrashes, Diar!WindowFails, Diar!WindowDone, Diar!health
<1>6. job'.phase = "idle" => job' = Diar!Idle
  BY <1>3
<1>7. DiarTypes'
  BY <1>0, <1>1, <1>3, <1>4, <1>5, <1>6 DEF DiarTypes
<1>8. RowsTrue' /\ Labelled' = Labelled
  BY <1>0, <1>1 DEF RowsTrue, Labelled
<1>9. job'.todo \in SUBSET job.todo
  BY <1>2, <1>3
<1>10. WindowsApart(pending, job'.todo, queue, lastId, Labelled)
  BY <1>0, <1>9, ApartLess DEF Apart
<1>11. Apart'
  BY <1>1, <1>8, <1>10 DEF Apart
<1>12. Counts'
  <2>1. Len(queue) \in Nat
    BY <1>0 DEF DiarTypes
  <2> QED
    BY <1>0, <1>1, <1>2, <1>3, <2>1 DEF Counts
<1> QED
  BY <1>7, <1>8, <1>11, <1>12 DEF DiarInv

LEMMA LabelMoves ==
  ASSUME DiarInv, Diar!LabelRow
  PROVE  DiarInv'
<1>0. RowsTrue /\ DiarTypes /\ Counts /\ Apart
  BY DEF DiarInv
<1>1. PICK s \in job.todo :
        /\ job' = [job EXCEPT !.todo = @ \ {s}]
        /\ rows' = IF s.id \in DOMAIN rows THEN [rows EXCEPT ![s.id].label = s.utt] ELSE rows
  BY DEF Diar!LabelRow, Diar!Ids
<1>2. /\ job.phase = "label"
      /\ UNCHANGED <<lastId, spoken, purging, purges, pending, queue, unfinished, windows, pool,
                     failures, enabled, cooling, phase>>
  BY DEF Diar!LabelRow, Diar!health
<1>3. WindowsApart(pending, job.todo, queue, lastId, Labelled)
  BY <1>0 DEF Apart
<1>4. s \in Spans /\ s.id = s.utt /\ s.utt \in 1 .. MaxRows
  BY <1>3 DEF WindowsApart, Own, Spans
<1>5. /\ job' \in Jobs /\ job'.phase = "label" /\ job'.todo = job.todo \ {s}
  BY <1>0, <1>1, <1>2 DEF DiarTypes, Jobs
<1>6. RowsTrue' /\ Labelled' \in SUBSET (Labelled \cup {s.id})
  <2>1. CASE s.id \notin DOMAIN rows
    BY <1>0, <1>1, <1>2, <2>1 DEF RowsTrue, Labelled
  <2>2. CASE s.id \in DOMAIN rows
    <3>1. /\ DOMAIN rows' = DOMAIN rows
          /\ rows'[s.id] = [rows[s.id] EXCEPT !.label = s.utt]
          /\ \A i \in DOMAIN rows : i # s.id => rows'[i] = rows[i]
      BY <1>1, <2>2
    <3>2. /\ rows[s.id] \in [utt : 1 .. MaxRows, omi : BOOLEAN, label : 0 .. MaxRows]
          /\ rows[s.id].utt = s.id
      BY <1>0, <2>2 DEF RowsTrue
    <3>3. s.utt \in 0 .. MaxRows
      BY <1>4
    <3>4. /\ rows'[s.id] \in [utt : 1 .. MaxRows, omi : BOOLEAN, label : 0 .. MaxRows]
          /\ rows'[s.id].utt = s.id /\ rows'[s.id].label = s.id
      BY <1>4, <3>1, <3>2, <3>3
    <3>5. RowsTrue'
      BY <1>0, <1>2, <3>1, <3>4 DEF RowsTrue
    <3>6. Labelled' \in SUBSET (Labelled \cup {s.id})
      BY <3>1 DEF Labelled
    <3> QED
      BY <3>5, <3>6
  <2> QED
    BY <2>1, <2>2
<1>7. Apart'
  <2>1. WindowsApart(pending, job.todo \ {s}, queue, lastId, Labelled \cup {s.id})
    BY <1>3, ApartLabel
  <2>2. WindowsApart(pending, job.todo \ {s}, queue, lastId, Labelled')
    BY <1>6, <2>1, ApartLess
  <2> QED
    BY <1>2, <1>5, <2>2 DEF Apart
<1>8. DiarTypes'
  <2>1. ~(failures = 4)
    BY <1>0, <1>2 DEF DiarTypes
  <2> QED
    BY <1>0, <1>2, <1>5, <2>1 DEF DiarTypes
<1>9. Counts'
  BY <1>0, <1>2, <1>5 DEF Counts
<1> QED
  BY <1>6, <1>7, <1>8, <1>9 DEF DiarInv

LEMMA DiarStep == DiarInv /\ [Diar!Next]_diarVars => DiarInv'
<1> SUFFICES ASSUME DiarInv, [Diar!Next]_diarVars PROVE DiarInv'
  OBVIOUS
<1>0. RowsTrue /\ DiarTypes /\ Counts /\ Apart
  BY DEF DiarInv
<1>1. CASE UNCHANGED diarVars
  BY <1>0, <1>1 DEF diarVars, DiarInv, RowsTrue, DiarTypes, Counts, Apart, Labelled
<1>2. CASE Diar!CooldownOver \/ Diar!Stop \/ Diar!CloseStore
  <2>1. /\ UNCHANGED <<rows, lastId, spoken, purging, purges, pending, queue, job, unfinished, windows,
                       pool, failures, enabled>>
        /\ \/ phase' = phase /\ cooling' = FALSE
           \/ phase' \in {"stopping", "closed"} /\ cooling' = cooling
    BY <1>2 DEF Diar!CooldownOver, Diar!Stop, Diar!CloseStore, Diar!store, Diar!diar, Diar!health
  <2>2. phase' \in {"running", "stopping", "closed"} /\ cooling' \in BOOLEAN
    BY <1>0, <2>1 DEF DiarTypes
  <2>3. RowsTrue' /\ Counts' /\ Labelled' = Labelled
    BY <1>0, <2>1 DEF RowsTrue, Counts, Labelled
  <2>4. Apart'
    BY <1>0, <2>1, <2>3 DEF Apart
  <2>5. DiarTypes'
    BY <1>0, <2>1, <2>2 DEF DiarTypes
  <2> QED
    BY <2>3, <2>4, <2>5 DEF DiarInv
<1> QED
  BY <1>1, <1>2, RowsMove, PurgeMoves, CloseMoves, TakeMoves, JobMoves, LabelMoves DEF Diar!Next

LEMMA DiarSuffices == DiarInv => Diar!TypeOK /\ Diar!LabelsOwnRow /\ Diar!OneWindowEach
<1> SUFFICES ASSUME DiarInv PROVE Diar!TypeOK /\ Diar!LabelsOwnRow /\ Diar!OneWindowEach
  OBVIOUS
<1>0. RowsTrue /\ DiarTypes /\ Counts /\ WindowsApart(pending, job.todo, queue, lastId, Labelled)
  BY DEF DiarInv, Apart
<1>1. /\ queue \in Seq(Windows) /\ DOMAIN queue = 1 .. Len(queue) /\ Spans = Diar!Spans
  BY <1>0 DEF DiarTypes, Spans, Diar!Spans
<1>2. Diar!TypeOK
  <2>1. Diar!Ids \subseteq 1 .. MaxRows
    BY <1>0, DiarAssumption DEF RowsTrue, Diar!Ids
  <2>2. \A i \in Diar!Ids : rows[i] \in [utt : 1 .. MaxRows, omi : BOOLEAN, label : 0 .. MaxRows]
    BY <1>0 DEF RowsTrue, Diar!Ids
  <2>3. /\ unfinished \in 0 .. MaxRows /\ windows \in 0 .. MaxRows /\ lastId \in 0 .. MaxRows
        /\ spoken \in 0 .. MaxRows
    BY <1>0, DiarAssumption DEF RowsTrue, Counts
  <2>4. \A k \in DOMAIN queue : queue[k].spans \subseteq Spans
    BY <1>0, <1>1 DEF WindowsApart, Own
  <2>5. job.phase \in {"idle", "child", "label"} /\ job.todo \subseteq Spans
    BY <1>0 DEF DiarTypes, Jobs
  <2> QED
    BY <1>0, <1>1, <2>1, <2>2, <2>3, <2>4, <2>5 DEF DiarTypes, Diar!TypeOK
<1>3. Diar!LabelsOwnRow
  BY <1>0 DEF RowsTrue, Diar!LabelsOwnRow, Diar!Ids
<1>4. ASSUME NEW i \in Diar!Ids, rows[i].label # 0, NEW w \in Diar!Waiting, NEW s \in w
      PROVE  s.utt # rows[i].utt
  <2>1. i \in Labelled /\ rows[i].utt = i
    BY <1>0, <1>4 DEF Labelled, RowsTrue, Diar!Ids
  <2>2. Own(w, lastId) /\ Unlabelled(w, Labelled)
    BY <1>0, <1>1, <1>4 DEF Diar!Waiting, WindowsApart
  <2>3. s.id = s.utt /\ s.id \notin Labelled
    BY <1>4, <2>2 DEF Own, Unlabelled
  <2> QED
    BY <2>1, <2>3
<1>5. /\ \A k \in DOMAIN queue : queue[k].spans \cap (pending \cup job.todo) = {}
      /\ pending \cap job.todo = {}
      /\ \A k, m \in DOMAIN queue : k # m => queue[k].spans \cap queue[m].spans = {}
  BY <1>0, <1>1 DEF WindowsApart
<1>6. Diar!OneWindowEach
  BY <1>4, <1>5 DEF Diar!OneWindowEach
<1> QED
  BY <1>2, <1>3, <1>6

(***************************************************************************)
(* AmbientDiar: a speaker label lands on the row of the utterance it was   *)
(* computed for or nowhere, however many rows either process purged while  *)
(* its window waited or was computed.                                      *)
(***************************************************************************)
THEOREM LabelsTrue == Spec => []LabelsOwnRow
<1>1. Init => DiarInv
  BY DiarInit DEF Init
<1>2. DiarInv /\ [Next]_vars => DiarInv'
  BY StepOfEach, DiarStep
<1>3. DiarInv => LabelsOwnRow
  BY DiarSuffices DEF LabelsOwnRow
<1> QED
  BY <1>1, <1>2, <1>3, PTL DEF Spec

(***************************************************************************)
(* AmbientDiar: an utterance is diarized in one window only, through       *)
(* dropped windows, failures, crashes of the pool and purges.              *)
(***************************************************************************)
THEOREM WindowsDisjoint == Spec => []OneWindowEach
<1>1. Init => DiarInv
  BY DiarInit DEF Init
<1>2. DiarInv /\ [Next]_vars => DiarInv'
  BY StepOfEach, DiarStep
<1>3. DiarInv => OneWindowEach
  BY DiarSuffices DEF OneWindowEach
<1> QED
  BY <1>1, <1>2, <1>3, PTL DEF Spec

-----------------------------------------------------------------------------
(* MeetingSession: the gate, the billed session and what it hears *)

Aged == -1 .. Cap
Candidates == [wall : 0 .. Cap, audio : 0 .. Cap]
Gates == [last : Aged, cands : SUBSET Candidates]
Calls == [live : BOOLEAN, act : Aged, turns : 0 .. MaxTurns, opened : Aged, heard : BOOLEAN]
Shown == [on : BOOLEAN, shown : Meeting!States, age : Aged]

MeetingTypes ==
  /\ conn \in BOOLEAN /\ armed \in BOOLEAN /\ dormant \in BOOLEAN /\ wordsLost \in BOOLEAN
  /\ gate \in Gates /\ held \in 0 .. OpenWindow /\ evidence \in Aged /\ quiet \in 0 .. Cap /\ spoke \in Aged
  /\ session \in Calls /\ lastTurns \in 0 .. MaxTurns /\ status \in Shown

\* Where nobody is connected nothing is open; an open session has an age, and one that
\* heard something can show it.
Served ==
  /\ ~conn => session = Meeting!NoSession /\ gate = Meeting!Reset
  /\ session # Meeting!NoSession => session.opened >= 0
  /\ session.heard => session.turns >= 1 \/ session.act >= 0

\* While dormant the gate and the quiet count the same silence; without the hysteresis
\* nothing is counted towards opening.
Gated ==
  /\ dormant /\ armed => gate.last = -1 \/ gate.last = quiet
  /\ ~(armed /\ OpenSpeech > 0) => gate.cands = {}

MeetingInv ==
  MeetingTypes /\ Served /\ Gated /\ Meeting!OpeningKept /\ Meeting!BillingEnds /\ ~wordsLost

LEMMA MeetingNumbers ==
  /\ Hangover \in Nat /\ SilenceClose \in Nat /\ Hangover < SilenceClose /\ IdleClose \in Nat /\ IdleClose > 0
  /\ OpenWindow \in Nat /\ OpenWindow >= 1 /\ OpenWindow <= Cap /\ Cap \in Nat /\ OpenSpeech \in Nat
  /\ MaxTurns \in Nat /\ MaxTurns >= 1 /\ Gaps \subseteq Nat
  /\ Meeting!None = -1 /\ Meeting!Ages = Aged
BY MeetingAssumption DEF Meeting!None, Meeting!Ages, Aged

\* An age stays an age, and one that was never set stays so.
LEMMA OlderIs ==
  ASSUME NEW a \in Aged, NEW d \in Nat
  PROVE  /\ Meeting!Older(a, d) \in Aged
         /\ a = -1 => Meeting!Older(a, d) = -1
         /\ a >= 0 => Meeting!Older(a, d) \in 0 .. Cap
         /\ a >= 0 /\ Meeting!Older(a, d) < Cap => Meeting!Older(a, d) = a + d
BY MeetingNumbers DEF Meeting!Older, Meeting!None, Aged

LEMMA LeastIs ==
  ASSUME NEW a \in Int, NEW b \in Int
  PROVE  Meeting!Least(a, b) \in {a, b} /\ Meeting!Least(a, b) <= a /\ Meeting!Least(a, b) <= b
BY DEF Meeting!Least

\* The gate a frame finds: a counted frame that is still inside the window is one frame older.
LEMMA GateAgedIs ==
  ASSUME gate \in Gates, NEW d \in Nat
  PROVE  /\ Meeting!GateAged(d) \in Gates
         /\ Meeting!GateAged(d).last = Meeting!Older(gate.last, d)
         /\ \A x \in Meeting!GateAged(d).cands : \E c \in gate.cands :
              x.audio < OpenWindow => x.audio = c.audio + 1
         /\ gate.cands = {} => Meeting!GateAged(d).cands = {}
<1> DEFINE Later(c) == [wall |-> Meeting!Older(c.wall, d), audio |-> Meeting!Older(c.audio, 1)]
<1>1. Meeting!GateAged(d) = [last |-> Meeting!Older(gate.last, d), cands |-> {Later(c) : c \in gate.cands}]
  BY DEF Meeting!GateAged
<1>2. gate.last \in Aged /\ \A c \in gate.cands : c.wall \in 0 .. Cap /\ c.audio \in 0 .. Cap
  BY DEF Gates, Candidates
<1>3. ASSUME NEW c \in gate.cands
      PROVE  Later(c) \in Candidates /\ (Later(c).audio < OpenWindow => Later(c).audio = c.audio + 1)
  <2>1. c.wall \in Aged /\ c.audio \in Aged /\ c.wall >= 0 /\ c.audio >= 0
    BY <1>2, <1>3, MeetingNumbers DEF Aged
  <2>2. Meeting!Older(c.wall, d) \in 0 .. Cap /\ Meeting!Older(c.audio, 1) \in 0 .. Cap
    BY <2>1, OlderIs
  <2>3. Meeting!Older(c.audio, 1) < Cap => Meeting!Older(c.audio, 1) = c.audio + 1
    BY <2>1, OlderIs
  <2>4. Meeting!Older(c.audio, 1) < OpenWindow => Meeting!Older(c.audio, 1) < Cap
    BY <2>2, MeetingNumbers
  <2> QED
    BY <2>2, <2>3, <2>4 DEF Candidates
<1>4. Meeting!Older(gate.last, d) \in Aged
  BY <1>2, OlderIs
<1> HIDE DEF Later
<1>5. {Later(c) : c \in gate.cands} \in SUBSET Candidates
  BY <1>3
<1>6. Meeting!GateAged(d) \in Gates
  BY <1>1, <1>4, <1>5 DEF Gates
<1>7. Meeting!GateAged(d).cands = {Later(c) : c \in gate.cands} /\ Meeting!GateAged(d).last = Meeting!Older(gate.last, d)
  BY <1>1
<1> QED
  BY <1>3, <1>6, <1>7

\* What the gate decides of a frame.
LEMMA ObserveIs ==
  ASSUME armed \in BOOLEAN, NEW g \in Gates, NEW loud \in BOOLEAN
  PROVE  LET o == Meeting!Observe(g, loud)
         IN  /\ o.fwd \in BOOLEAN /\ o.close \in BOOLEAN /\ o.gate \in Gates
             /\ ~armed => o.fwd
             /\ o.fwd /\ armed => o.gate.last \in 0 .. SilenceClose - 1
             /\ armed /\ loud => o.gate.last \in {-1, 0} /\ ~o.close /\ (g.last >= 0 => o.fwd)
             /\ armed /\ ~loud => /\ o.gate = g
                                  /\ o.fwd => g.last \in 0 .. Hangover
                                  /\ g.last >= 0 /\ ~o.fwd /\ ~o.close => g.last < SilenceClose
             /\ \A x \in o.gate.cands : x \in g.cands \/ x.audio = 0
             /\ ~(armed /\ OpenSpeech > 0) /\ g.cands = {} => o.gate.cands = {}
<1> DEFINE recent == {c \in g.cands : c.wall <= OpenWindow} \cup {[wall |-> 0, audio |-> 0]}
           building == g.last = -1 /\ armed /\ OpenSpeech > 0
           counting == (~armed \/ loud) /\ building /\ Meeting!Cardinality(recent) < OpenSpeech
           o == Meeting!Observe(g, loud)
<1>1. g.last \in Aged /\ g.cands \in SUBSET Candidates
  BY DEF Gates
<1>2. [wall |-> 0, audio |-> 0] \in Candidates /\ recent \in SUBSET Candidates
  <2>1. [wall |-> 0, audio |-> 0] \in Candidates
    BY MeetingNumbers DEF Candidates
  <2> QED
    BY <1>1, <2>1
<1>3. \A x \in recent : x \in g.cands \/ x.audio = 0
  OBVIOUS
<1>4. o = (IF counting
           THEN [fwd |-> FALSE, close |-> FALSE, gate |-> [last |-> -1, cands |-> recent]]
           ELSE IF ~armed \/ loud
           THEN [fwd |-> TRUE, close |-> FALSE, gate |-> [last |-> 0, cands |-> IF building THEN {} ELSE g.cands]]
           ELSE [fwd |-> g.last # -1 /\ g.last <= Hangover,
                 close |-> g.last # -1 /\ g.last > Hangover /\ g.last >= SilenceClose,
                 gate |-> g])
  BY MeetingNumbers DEF Meeting!Observe
<1> HIDE DEF recent, building, counting, o
<1>5. CASE counting
  <2>1. /\ o.fwd = FALSE /\ o.close = FALSE /\ o.gate = [last |-> -1, cands |-> recent]
        /\ o.gate.last = -1 /\ o.gate.cands = recent
    BY <1>4, <1>5
  <2>2. armed /\ OpenSpeech > 0 /\ g.last = -1
    BY <1>5 DEF counting, building
  <2>3. -1 \in Aged
    BY MeetingNumbers DEF Aged
  <2>4. o.gate \in Gates
    BY <1>2, <2>1, <2>3 DEF Gates
  <2>5. ~(g.last >= 0) /\ loud
    BY <1>5, <2>2 DEF counting
  <2> QED
    BY <1>3, <2>1, <2>2, <2>4, <2>5 DEF o
<1>6. CASE ~counting /\ (~armed \/ loud)
  <2>1. /\ o.fwd = TRUE /\ o.close = FALSE
        /\ o.gate = [last |-> 0, cands |-> IF building THEN {} ELSE g.cands]
        /\ o.gate.last = 0 /\ o.gate.cands \in {{}, g.cands}
    BY <1>4, <1>6
  <2>2. 0 \in Aged /\ 0 \in 0 .. SilenceClose - 1
    BY MeetingNumbers DEF Aged
  <2>3. o.gate \in Gates
    BY <1>1, <2>1, <2>2 DEF Gates
  <2> QED
    BY <1>6, <2>1, <2>2, <2>3 DEF o
<1>7. CASE ~counting /\ ~(~armed \/ loud)
  <2>1. /\ o.fwd = (g.last # -1 /\ g.last <= Hangover)
        /\ o.close = (g.last # -1 /\ g.last > Hangover /\ g.last >= SilenceClose)
        /\ o.gate = g
    BY <1>4, <1>7
  <2>2. o.fwd => g.last \in 0 .. Hangover
    <3> SUFFICES ASSUME o.fwd PROVE g.last \in 0 .. Hangover
      OBVIOUS
    <3>1. g.last # -1 /\ g.last <= Hangover
      BY <2>1
    <3> QED
      BY <1>1, <3>1, MeetingNumbers DEF Aged
  <2>3. o.fwd => g.last \in 0 .. SilenceClose - 1
    <3> SUFFICES ASSUME o.fwd PROVE g.last \in 0 .. SilenceClose - 1
      OBVIOUS
    <3>1. g.last \in 0 .. Hangover
      BY <2>2
    <3> QED
      BY <3>1, MeetingNumbers
  <2>4. g.last >= 0 /\ ~o.fwd /\ ~o.close => g.last < SilenceClose
    <3> SUFFICES ASSUME g.last >= 0, ~o.fwd, ~o.close PROVE g.last < SilenceClose
      OBVIOUS
    <3>1. ~(g.last # -1 /\ g.last <= Hangover) /\ ~(g.last # -1 /\ g.last > Hangover /\ g.last >= SilenceClose)
      BY <2>1
    <3> QED
      BY <1>1, <3>1, MeetingNumbers DEF Aged
  <2>5. o.fwd \in BOOLEAN /\ o.close \in BOOLEAN
    BY <2>1
  <2> QED
    BY <1>7, <2>1, <2>2, <2>3, <2>4, <2>5 DEF o
<1> QED
  BY <1>5, <1>6, <1>7

\* The sessions the bridge opens, and the one it never has.
LEMMA CallsAre ==
  /\ Meeting!NoSession \in Calls
  /\ Meeting!NoSession.act = -1 /\ Meeting!NoSession.opened = -1 /\ Meeting!NoSession.heard = FALSE
  /\ \A f \in Meeting!Opened : /\ f \in Calls /\ f.opened = 0 /\ f.heard = FALSE
                               /\ f.turns \in 0 .. MaxTurns
<1>1. -1 \in Aged /\ 0 \in Aged /\ 0 \in 0 .. MaxTurns /\ 1 \in 0 .. MaxTurns
  BY MeetingNumbers DEF Aged
<1>2. /\ [live |-> TRUE, act |-> -1, turns |-> 0, opened |-> 0, heard |-> FALSE] \in Calls
      /\ [live |-> FALSE, act |-> -1, turns |-> 1, opened |-> 0, heard |-> FALSE] \in Calls
      /\ [live |-> FALSE, act |-> -1, turns |-> 0, opened |-> -1, heard |-> FALSE] \in Calls
  BY <1>1 DEF Calls
<1>3. Meeting!NoSession = [live |-> FALSE, act |-> -1, turns |-> 0, opened |-> -1, heard |-> FALSE]
  BY DEF Meeting!NoSession, Meeting!None
<1>4. ASSUME NEW f \in Meeting!Opened
      PROVE  /\ f \in Calls /\ f.opened = 0 /\ f.heard = FALSE /\ f.turns \in 0 .. MaxTurns
  <2>1. \/ f = [live |-> TRUE, act |-> -1, turns |-> 0, opened |-> 0, heard |-> FALSE]
        \/ f = [live |-> FALSE, act |-> -1, turns |-> 1, opened |-> 0, heard |-> FALSE]
    BY <1>4 DEF Meeting!Opened, Meeting!None
  <2>2. f \in Calls
    BY <1>2, <2>1
  <2> QED
    BY <1>1, <2>1, <2>2
<1> QED
  BY <1>2, <1>3, <1>4

\* What is shown to the phone is one of the states.
LEMMA ShowIs ==
  ASSUME status \in Shown, NEW s, NEW i, NEW q, NEW p, NEW d \in Nat, Meeting!Show(s, i, q, p, d)
  PROVE  status' \in Shown
<1>1. Meeting!AsrState(s, i, q, p) \in Meeting!States
  BY DEF Meeting!AsrState, Meeting!States
<1>2. status.on \in BOOLEAN /\ status.shown \in Meeting!States /\ status.age \in Aged
  BY DEF Shown
<1>3. 0 \in Aged /\ Meeting!Older(status.age, d) \in Aged
  <2>1. 0 \in Aged
    BY MeetingNumbers DEF Aged
  <2> QED
    BY <1>2, <2>1, OlderIs
<1>4. [on |-> TRUE, age |-> 0, shown |-> Meeting!AsrState(s, i, q, p)] \in Shown
  BY <1>1, <1>3 DEF Shown
<1>5. [status EXCEPT !.age = Meeting!Older(@, d)] \in Shown
  BY <1>3 DEF Shown
<1> QED
  BY <1>4, <1>5 DEF Meeting!Show

\* A session grows older and keeps what it heard.
LEMMA SessionAgedIs ==
  ASSUME MeetingTypes, Served, NEW d \in Nat
  PROVE  LET a == Meeting!SessionAged(d)
         IN  /\ a \in Calls
             /\ session = Meeting!NoSession => a = Meeting!NoSession
             /\ session # Meeting!NoSession => a # Meeting!NoSession /\ a.opened >= 0
             /\ a.heard => a.turns >= 1 \/ a.act >= 0
<1>1. session \in Calls /\ session.act \in Aged /\ session.opened \in Aged
  BY DEF MeetingTypes, Calls
<1>2. CASE session = Meeting!NoSession
  <2>1. Meeting!SessionAged(d) = Meeting!NoSession
    BY <1>2 DEF Meeting!SessionAged, Meeting!Open
  <2> QED
    BY <1>2, <2>1, CallsAre
<1>3. CASE session # Meeting!NoSession
  <2> DEFINE a == [session EXCEPT !.act = Meeting!Older(@, d), !.opened = Meeting!Older(@, d)]
  <2>1. Meeting!SessionAged(d) = a
    BY <1>3 DEF Meeting!SessionAged, Meeting!Open
  <2>2. session.opened >= 0 /\ (session.heard => session.turns >= 1 \/ session.act >= 0)
    BY <1>3 DEF Served
  <2>3. /\ Meeting!Older(session.act, d) \in Aged /\ Meeting!Older(session.opened, d) \in Aged
        /\ Meeting!Older(session.opened, d) >= 0
        /\ session.act >= 0 => Meeting!Older(session.act, d) >= 0
    <3>1. session.opened >= 0 => Meeting!Older(session.opened, d) \in 0 .. Cap
      BY <1>1, OlderIs
    <3>2. session.act >= 0 => Meeting!Older(session.act, d) \in 0 .. Cap
      BY <1>1, OlderIs
    <3>3. Meeting!Older(session.act, d) \in Aged /\ Meeting!Older(session.opened, d) \in Aged
      BY <1>1, OlderIs
    <3> QED
      BY <2>2, <3>1, <3>2, <3>3, MeetingNumbers
  <2>4. /\ a \in Calls /\ a.act = Meeting!Older(session.act, d) /\ a.opened = Meeting!Older(session.opened, d)
        /\ a.turns = session.turns /\ a.heard = session.heard
    BY <1>1, <2>3 DEF Calls
  <2> HIDE DEF a
  <2>5. a.opened >= 0
    BY <2>3, <2>4
  <2>6. a # Meeting!NoSession
    BY <2>5, CallsAre
  <2>7. a.heard => a.turns >= 1 \/ a.act >= 0
    BY <2>2, <2>3, <2>4
  <2> QED
    BY <1>3, <2>1, <2>4, <2>5, <2>6, <2>7
<1> QED
  BY <1>2, <1>3

\* Nothing that was heard, or is still arriving, is removed with its session.
LEMMA FinalIs ==
  ASSUME wordsLost = FALSE, NEW s \in Calls, s.heard => s.turns >= 1 \/ s.act >= 0,
         \E n \in Meeting!Late(s) : Meeting!Finalized(s, n)
  PROVE  wordsLost' = FALSE
<1>1. PICK n \in {0, 1} : Meeting!Finalized(s, n)
  BY DEF Meeting!Late
<1>2. s.turns \in Nat /\ s.act \in Int
  BY MeetingNumbers DEF Calls, Aged
<1>3. ASSUME s.turns + n = 0, s.act = -1 PROVE ~s.heard /\ ~(n > 0)
  <2>1. s.turns = 0 /\ n = 0
    <3>1. \A t \in Nat : t + n = 0 => t = 0 /\ n = 0
      OBVIOUS
    <3> QED
      BY <1>2, <1>3, <3>1
  <2>2. ~(s.turns >= 1) /\ ~(s.act >= 0)
    BY <1>3, <2>1
  <2> QED
    BY <2>1, <2>2
<1> QED
  BY <1>1, <1>3, MeetingNumbers DEF Meeting!Finalized

\* The evidence of the recogniser has an age once a session gave it one.
LEMMA EvidenceIs ==
  ASSUME evidence \in Aged, NEW s \in Calls, NEW d \in Nat
  PROVE  /\ Meeting!Evidence(s, d) \in Aged
         /\ evidence >= 0 => Meeting!Evidence(s, d) >= 0
<1> DEFINE e == Meeting!Older(evidence, d)
<1>1. e \in Aged /\ (evidence >= 0 => e \in 0 .. Cap) /\ s.act \in Aged
  BY OlderIs DEF Calls
<1>2. Meeting!Evidence(s, d) \in {0, e} \/ (s.act # -1 /\ Meeting!Evidence(s, d) = Meeting!Least(e, s.act))
  BY MeetingNumbers DEF Meeting!Evidence
<1> HIDE DEF e
<1>3. e \in Int /\ s.act \in Int
  BY <1>1, MeetingNumbers DEF Aged
<1>4. Meeting!Least(e, s.act) \in {e, s.act}
  BY <1>3, LeastIs
<1>5. Meeting!Evidence(s, d) \in {0, e} \/ (s.act # -1 /\ Meeting!Evidence(s, d) = s.act)
  BY <1>2, <1>4
<1> QED
  BY <1>1, <1>5, MeetingNumbers DEF Aged

\* With nothing open and the gate reset, only the ages are left to be right.
LEMMA NothingOpen ==
  ASSUME MeetingTypes, session = Meeting!NoSession, gate = Meeting!Reset, wordsLost = FALSE
  PROVE  MeetingInv
<1>1. gate.last = -1 /\ gate.cands = {}
  BY MeetingNumbers DEF Meeting!Reset
<1>2. Served
  BY CallsAre DEF Served
<1>3. Gated
  BY <1>1 DEF Gated
<1>4. Meeting!OpeningKept /\ Meeting!BillingEnds
  BY <1>1 DEF Meeting!OpeningKept, Meeting!BillingEnds, Meeting!Open
<1> QED
  BY <1>2, <1>3, <1>4 DEF MeetingInv

LEMMA UnservedTypes ==
  /\ Meeting!Reset \in Gates /\ 0 \in 0 .. OpenWindow /\ -1 \in Aged /\ 0 \in 0 .. Cap /\ 0 \in 0 .. MaxTurns
  /\ 0 \in Aged
  /\ [on |-> FALSE, shown |-> "idle", age |-> Meeting!None] \in Shown
<1>1. -1 \in Aged /\ 0 \in Aged
  BY MeetingNumbers DEF Aged
<1>2. Meeting!Reset \in Gates
  BY <1>1, MeetingNumbers DEF Gates, Meeting!Reset
<1>3. "idle" \in Meeting!States
  BY DEF Meeting!States
<1>4. [on |-> FALSE, shown |-> "idle", age |-> Meeting!None] \in Shown
  BY <1>1, <1>3, MeetingNumbers DEF Shown
<1> QED
  BY <1>1, <1>2, <1>4, MeetingNumbers

LEMMA MeetingInit == Meeting!Init => MeetingInv
<1> SUFFICES ASSUME Meeting!Init PROVE MeetingInv
  OBVIOUS
<1>1. MeetingTypes
  BY UnservedTypes, CallsAre, MeetingNumbers DEF Meeting!Init, MeetingTypes
<1>2. session = Meeting!NoSession /\ gate = Meeting!Reset /\ wordsLost = FALSE
  BY DEF Meeting!Init
<1> QED
  BY <1>1, <1>2, NothingOpen

\* The connection closes: whatever is open is finalized first.
LEMMA DisconnectKeeps ==
  ASSUME MeetingInv, Meeting!Disconnect
  PROVE  MeetingInv'
<1>0. MeetingTypes /\ Served /\ wordsLost = FALSE
  BY DEF MeetingInv, MeetingTypes
<1>1. Meeting!Unserved /\ armed' = armed
  BY DEF Meeting!Disconnect
<1>2. wordsLost' = FALSE
  <2>1. session \in Calls /\ (session.heard => session.turns >= 1 \/ session.act >= 0)
    BY <1>0 DEF MeetingTypes, Served
  <2>2. wordsLost' = wordsLost \/ \E n \in Meeting!Late(session) : Meeting!Finalized(session, n)
    BY DEF Meeting!Disconnect
  <2> QED
    BY <1>0, <2>1, <2>2, FinalIs
<1>3. MeetingTypes'
  BY <1>0, <1>1, <1>2, UnservedTypes, CallsAre, MeetingNumbers DEF MeetingTypes, Meeting!Unserved
<1>4. session' = Meeting!NoSession /\ gate' = Meeting!Reset /\ conn' = FALSE
  BY <1>1 DEF Meeting!Unserved
<1>5. gate'.last = -1 /\ gate'.cands = {}
  BY <1>4, MeetingNumbers DEF Meeting!Reset
<1>6. Served'
  BY <1>4, CallsAre DEF Served
<1>7. Gated'
  BY <1>5 DEF Gated
<1>8. Meeting!OpeningKept' /\ Meeting!BillingEnds'
  BY <1>4 DEF Meeting!OpeningKept, Meeting!BillingEnds
<1> QED
  BY <1>2, <1>3, <1>6, <1>7, <1>8 DEF MeetingInv

\* A result of the cloud or its failure is no business of the gate.
LEMMA CloudKeeps ==
  ASSUME MeetingInv, Meeting!CloudResult \/ Meeting!CloudError
  PROVE  MeetingInv'
<1>0. /\ MeetingTypes /\ Served /\ Gated /\ Meeting!OpeningKept /\ Meeting!BillingEnds /\ ~wordsLost
      /\ session \in Calls
  BY DEF MeetingInv, MeetingTypes
<1>1. /\ session # Meeting!NoSession
      /\ UNCHANGED <<conn, armed, gate, held, dormant, evidence, lastTurns, quiet, spoke, status, wordsLost>>
  BY DEF Meeting!CloudResult, Meeting!CloudError, Meeting!Open
<1>2. session.opened >= 0 /\ conn /\ (session.heard => session.turns >= 1 \/ session.act >= 0)
  BY <1>0, <1>1 DEF Served, MeetingTypes
<1>3. session' \in Calls /\ session'.opened = session.opened
      /\ (session'.heard => session'.turns >= 1 \/ session'.act >= 0)
  <2>1. CASE Meeting!CloudError
    <3>1. session' = [session EXCEPT !.live = FALSE]
      BY <2>1 DEF Meeting!CloudError
    <3> QED
      BY <1>0, <1>2, <3>1 DEF Calls
  <2>2. CASE Meeting!CloudResult
    <3>1. PICK words \in {"partial", "final"} :
            /\ words = "final" => session.turns < MaxTurns
            /\ session' = [session EXCEPT !.act = 0, !.heard = TRUE,
                                       !.turns = @ + IF words = "final" THEN 1 ELSE 0]
      BY <2>2 DEF Meeting!CloudResult
    <3>2. PICK n \in 0 .. MaxTurns : n = session.turns + (IF words = "final" THEN 1 ELSE 0)
      BY <1>0, <3>1, MeetingNumbers DEF Calls
    <3>3. session' = [session EXCEPT !.act = 0, !.heard = TRUE, !.turns = n]
      BY <3>1, <3>2
    <3>4. session' \in Calls
      BY <1>0, <3>3, UnservedTypes DEF Calls
    <3>5. session'.opened = session.opened /\ session'.act = 0
      BY <1>0, <3>3 DEF Calls
    <3> QED
      BY <3>4, <3>5
  <2> QED
    BY <2>1, <2>2
<1>4. session' # Meeting!NoSession
  BY <1>2, <1>3, CallsAre
<1>5. MeetingTypes'
  BY <1>0, <1>1, <1>3 DEF MeetingTypes
<1>6. Served'
  BY <1>1, <1>2, <1>3 DEF Served
<1>7. Gated' /\ Meeting!BillingEnds' /\ Meeting!OpeningKept'
  BY <1>0, <1>1, <1>4 DEF Gated, Meeting!BillingEnds, Meeting!OpeningKept, Meeting!Open
<1> QED
  BY <1>0, <1>1, <1>5, <1>6, <1>7 DEF MeetingInv

LEMMA HelloKeeps ==
  ASSUME MeetingInv, Meeting!Connect \/ Meeting!Hello
  PROVE  MeetingInv'
<1>0. /\ MeetingTypes /\ Served /\ Gated /\ Meeting!OpeningKept /\ Meeting!BillingEnds /\ ~wordsLost
      /\ status \in Shown /\ conn \in BOOLEAN
  BY DEF MeetingInv, MeetingTypes
<1>1. /\ conn' \in BOOLEAN /\ conn' = TRUE
      /\ UNCHANGED <<armed, gate, held, session, dormant, evidence, lastTurns, quiet, spoke, wordsLost>>
  BY <1>0 DEF Meeting!Connect, Meeting!Hello
<1>2. status' \in Shown
  <2>1. [status EXCEPT !.on = TRUE] \in Shown
    BY <1>0 DEF Shown
  <2> QED
    BY <1>0, <2>1 DEF Meeting!Connect, Meeting!Hello
<1>3. conn \/ (session = Meeting!NoSession /\ gate = Meeting!Reset)
  BY <1>0 DEF Served
<1>4. Meeting!Reset.cands = {}
  BY DEF Meeting!Reset
<1>5. MeetingTypes' /\ Served' /\ Gated'
  BY <1>0, <1>1, <1>2 DEF MeetingTypes, Served, Gated
<1>6. Meeting!BillingEnds' /\ Meeting!OpeningKept'
  BY <1>0, <1>1, <1>3, <1>4 DEF Meeting!BillingEnds, Meeting!OpeningKept, Meeting!Open
<1> QED
  BY <1>0, <1>1, <1>5, <1>6 DEF MeetingInv

\* A marker ends dormancy, and opens a session that the gate knows of.
LEMMA MarkerKeeps ==
  ASSUME MeetingInv, Meeting!Marker
  PROVE  MeetingInv'
<1>0. /\ MeetingTypes /\ Served /\ Gated /\ Meeting!OpeningKept /\ Meeting!BillingEnds /\ ~wordsLost
      /\ session \in Calls
  BY DEF MeetingInv, MeetingTypes
<1>1. /\ conn /\ dormant' = FALSE /\ UNCHANGED <<conn, armed, quiet, spoke, status, wordsLost>>
  BY DEF Meeting!Marker
<1> DEFINE Marked(s) == [s EXCEPT !.turns = Meeting!Least(@ + 1, MaxTurns), !.heard = TRUE]
<1>2. ASSUME NEW s \in Calls
      PROVE  Marked(s) \in Calls /\ Marked(s).opened = s.opened /\ Marked(s).turns >= 1
  <2>1. Meeting!Least(s.turns + 1, MaxTurns) \in 1 .. MaxTurns
    BY MeetingNumbers DEF Meeting!Least, Calls
  <2>2. PICK n \in 1 .. MaxTurns : n = Meeting!Least(s.turns + 1, MaxTurns)
    BY <2>1
  <2>3. Marked(s) = [s EXCEPT !.turns = n, !.heard = TRUE]
    BY <2>2
  <2>4. n \in 0 .. MaxTurns /\ n >= 1
    BY MeetingNumbers
  <2> HIDE DEF Marked
  <2> QED
    BY <2>3, <2>4 DEF Calls
<1>3. CASE session # Meeting!NoSession
  <2>1. session' = Marked(session) /\ UNCHANGED <<gate, held, evidence, lastTurns>>
    BY <1>3 DEF Meeting!Marker, Meeting!Open
  <2> HIDE DEF Marked
  <2>2. session.opened >= 0
    BY <1>0, <1>3 DEF Served
  <2>3. session' \in Calls /\ session'.opened >= 0 /\ session'.turns >= 1
    BY <1>0, <1>2, <2>1, <2>2
  <2>4. session' # Meeting!NoSession
    BY <2>3, CallsAre
  <2>5. MeetingTypes' /\ Served' /\ Gated'
    BY <1>0, <1>1, <2>1, <2>3 DEF MeetingTypes, Served, Gated
  <2>6. Meeting!BillingEnds' /\ Meeting!OpeningKept'
    BY <1>0, <1>1, <1>3, <2>1, <2>4 DEF Meeting!BillingEnds, Meeting!OpeningKept, Meeting!Open
  <2> QED
    BY <1>0, <1>1, <2>5, <2>6 DEF MeetingInv
<1>4. CASE session = Meeting!NoSession
  <2>1. PICK fresh \in Meeting!Opened :
          /\ session' = Marked(fresh) /\ lastTurns' = fresh.turns /\ evidence' = 0
          /\ held' = 0 /\ gate' = Meeting!MarkSpeech
    BY <1>4 DEF Meeting!Marker, Meeting!Open
  <2> HIDE DEF Marked
  <2>2. fresh \in Calls /\ fresh.opened = 0 /\ fresh.turns \in 0 .. MaxTurns
    BY CallsAre
  <2>3. session' \in Calls /\ session'.opened = 0 /\ session'.turns >= 1
    BY <1>2, <2>1, <2>2
  <2>4. gate' \in Gates /\ gate'.last = 0 /\ gate'.cands = {}
    BY <2>1, UnservedTypes DEF Meeting!MarkSpeech, Gates
  <2>5. session' # Meeting!NoSession
    BY <2>3, CallsAre
  <2>6. MeetingTypes'
    BY <1>0, <1>1, <2>1, <2>2, <2>3, <2>4, UnservedTypes DEF MeetingTypes
  <2>7. Served' /\ Gated'
    BY <1>1, <2>3, <2>4 DEF Served, Gated
  <2>8. Meeting!BillingEnds' /\ Meeting!OpeningKept'
    BY <1>1, <2>1, <2>4, <2>5, MeetingNumbers DEF Meeting!BillingEnds, Meeting!OpeningKept, Meeting!Open
  <2> QED
    BY <1>0, <1>1, <2>6, <2>7, <2>8 DEF MeetingInv
<1> QED
  BY <1>3, <1>4

\* One frame of audio: the gate, the re-arm, the close for want of a transcript, then
\* the opening, the holding back or the close for want of speech.
LEMMA FrameKeeps ==
  ASSUME MeetingInv, NEW loud \in BOOLEAN, NEW d \in Gaps, Meeting!Frame(loud, d)
  PROVE  MeetingInv'
<1> DEFINE ga == Meeting!GateAged(d)
           o == Meeting!Observe(ga, loud)
           aged == Meeting!SessionAged(d)
           quietAge == IF armed /\ loud THEN 0 ELSE Meeting!Older(quiet, d)
           idle == Meeting!Idle(aged, d)
           rearm == Meeting!Rearmed(loud, d)
           dorm == (dormant /\ ~rearm) \/ idle
           g == Meeting!Regated(rearm, idle, o.gate)
           s == IF idle THEN Meeting!NoSession ELSE aged
           send == o.fwd /\ ~dorm
           spokeAge == IF send /\ loud THEN 0 ELSE Meeting!Older(spoke, d)
           ends == ~send /\ o.close /\ s # Meeting!NoSession
           clear == ~send /\ o.close /\ (s # Meeting!NoSession \/ ~dorm)
<1>0. /\ MeetingTypes /\ Served /\ Gated /\ Meeting!OpeningKept /\ Meeting!BillingEnds /\ wordsLost = FALSE
      /\ session \in Calls /\ gate \in Gates /\ quiet \in 0 .. Cap /\ spoke \in Aged /\ evidence \in Aged
      /\ armed \in BOOLEAN /\ dormant \in BOOLEAN /\ held \in 0 .. OpenWindow /\ lastTurns \in 0 .. MaxTurns
      /\ status \in Shown /\ d \in Nat /\ gate.last \in Aged
  BY MeetingNumbers DEF MeetingInv, MeetingTypes, Gates
<1>1. /\ conn /\ conn' = conn /\ armed' = armed
      /\ quiet' = quietAge /\ dormant' = dorm /\ spoke' = spokeAge
      /\ gate' = IF clear THEN Meeting!Reset ELSE g
      /\ Meeting!Show(session', dorm, quietAge, spokeAge, d)
  BY DEF Meeting!Frame
<1>2. /\ send /\ s = Meeting!NoSession => \E fresh \in Meeting!Opened :
             session' = fresh /\ lastTurns' = fresh.turns /\ evidence' = 0 /\ held' = 0
      /\ ~(send /\ s = Meeting!NoSession) =>
           /\ session' = IF ends THEN Meeting!NoSession ELSE s
           /\ held' = IF ~send /\ s = Meeting!NoSession /\ ~dorm THEN Meeting!Pushed ELSE held
           /\ IF armed /\ session # Meeting!NoSession
              THEN evidence' = Meeting!Evidence(aged, d) /\ lastTurns' = aged.turns
              ELSE evidence' = Meeting!Older(evidence, d) /\ lastTurns' = lastTurns
  BY DEF Meeting!Frame, Meeting!Open
<1>3. /\ idle \/ ends => \E n \in Meeting!Late(aged) : Meeting!Finalized(aged, n)
      /\ ~(idle \/ ends) => wordsLost' = wordsLost
  BY DEF Meeting!Frame
<1>4. /\ armed /\ loud => quietAge = 0
      /\ ~(armed /\ loud) => quietAge = Meeting!Older(quiet, d)
      /\ quietAge \in 0 .. Cap
  <2>1. quiet \in Aged /\ quiet >= 0
    BY <1>0, MeetingNumbers DEF Aged
  <2>2. Meeting!Older(quiet, d) \in 0 .. Cap
    BY <1>0, <2>1, OlderIs
  <2> QED
    BY <2>2, MeetingNumbers
<1>5. /\ idle <=> armed /\ session # Meeting!NoSession /\ Meeting!Evidence(aged, d) >= IdleClose
      /\ rearm <=> dormant /\ armed /\ quietAge >= SilenceClose
      /\ rearm \/ idle => g = Meeting!Reset
      /\ ~(rearm \/ idle) => g = o.gate
  BY DEF Meeting!Idle, Meeting!Rearmed, Meeting!Regated, Meeting!Open
<1>6. /\ idle => s = Meeting!NoSession
      /\ ~idle => s = aged
      /\ spokeAge \in {0, Meeting!Older(spoke, d)}
  OBVIOUS
<1>7. /\ ga \in Gates /\ ga.last = Meeting!Older(gate.last, d)
      /\ \A x \in ga.cands : \E c \in gate.cands : x.audio < OpenWindow => x.audio = c.audio + 1
      /\ gate.cands = {} => ga.cands = {}
  BY <1>0, GateAgedIs
<1>8. /\ o.fwd \in BOOLEAN /\ o.close \in BOOLEAN /\ o.gate \in Gates
      /\ ~armed => o.fwd
      /\ o.fwd /\ armed => o.gate.last \in 0 .. SilenceClose - 1
      /\ armed /\ loud => o.gate.last \in {-1, 0} /\ ~o.close /\ (ga.last >= 0 => o.fwd)
      /\ armed /\ ~loud => o.gate = ga
      /\ armed /\ ~loud => (o.fwd => ga.last \in 0 .. Hangover)
      /\ armed /\ ~loud => (ga.last >= 0 /\ ~o.fwd /\ ~o.close => ga.last < SilenceClose)
      /\ \A x \in o.gate.cands : x \in ga.cands \/ x.audio = 0
      /\ ~(armed /\ OpenSpeech > 0) /\ ga.cands = {} => o.gate.cands = {}
  BY ZenonT(30), <1>0, <1>7, ObserveIs
<1>9. /\ aged \in Calls
      /\ session = Meeting!NoSession => aged = Meeting!NoSession
      /\ session # Meeting!NoSession => aged # Meeting!NoSession /\ aged.opened >= 0
      /\ aged.heard => aged.turns >= 1 \/ aged.act >= 0
  BY <1>0, SessionAgedIs
<1>10. /\ Meeting!Reset \in Gates /\ Meeting!Reset.last = -1 /\ Meeting!Reset.cands = {}
       /\ Meeting!Older(spoke, d) \in Aged /\ Meeting!Older(evidence, d) \in Aged
       /\ 0 \in Aged /\ 0 \in 0 .. OpenWindow
  BY <1>0, UnservedTypes, OlderIs, MeetingNumbers DEF Meeting!Reset
<1>11. Meeting!Evidence(aged, d) \in Aged /\ (evidence >= 0 => Meeting!Evidence(aged, d) >= 0)
  BY <1>0, <1>9, EvidenceIs
<1> HIDE DEF ga, o, aged, quietAge, idle, rearm, g, s, spokeAge
\* A re-arm happens in silence, and what it forgets was silent as long.
<1>12. armed /\ dormant /\ ~loud => ga.last = -1 \/ ga.last = quietAge
  <2>1. armed /\ dormant => gate.last = -1 \/ gate.last = quiet
    BY <1>0 DEF Gated
  <2>2. gate.last = -1 => ga.last = -1
    BY <1>0, <1>7, OlderIs
  <2> QED
    BY <1>4, <1>7, <2>1, <2>2
<1>13. rearm => ~o.fwd
  <2> SUFFICES ASSUME rearm, o.fwd PROVE FALSE
    OBVIOUS
  <2>1. dormant /\ armed /\ quietAge >= SilenceClose
    BY <1>5
  <2>2. ~loud
    BY <1>4, <2>1, MeetingNumbers
  <2>3. ga.last \in 0 .. Hangover
    BY <1>8, <2>1, <2>2
  <2> QED
    BY <1>12, <2>1, <2>2, <2>3, MeetingNumbers
<1>14. g \in Gates /\ gate' \in Gates
  BY <1>1, <1>5, <1>8, <1>10
<1>15. wordsLost' = FALSE
  BY <1>0, <1>3, <1>9, FinalIs
<1>16. Gated'
  <2>1. gate'.last = -1 \/ ~dorm \/ ~armed \/ gate'.last = quiet'
    <3> SUFFICES ASSUME dorm, armed, gate' # Meeting!Reset PROVE gate'.last = -1 \/ gate'.last = quiet'
      BY <1>10
    <3>1. ~clear /\ gate' = g /\ g # Meeting!Reset
      BY <1>1
    <3>2. ~idle /\ ~rearm /\ dormant /\ gate' = o.gate
      BY <1>5, <3>1
    <3>3. CASE loud
      BY <1>1, <1>4, <1>8, <3>2, <3>3
    <3>4. CASE ~loud
      BY <1>1, <1>8, <1>12, <3>2, <3>4
    <3> QED
      BY <3>3, <3>4
  <2>2. ~(armed /\ OpenSpeech > 0) => gate'.cands = {}
    <3> SUFFICES ASSUME ~(armed /\ OpenSpeech > 0) PROVE gate'.cands = {}
      OBVIOUS
    <3>1. o.gate.cands = {}
      BY <1>0, <1>7, <1>8 DEF Gated
    <3> QED
      BY <1>1, <1>5, <1>10, <3>1
  <2> QED
    BY <1>1, <2>1, <2>2 DEF Gated
<1>17. quiet' \in 0 .. Cap /\ spoke' \in Aged /\ dormant' \in BOOLEAN /\ status' \in Shown /\ wordsLost' \in BOOLEAN
  <2>1. dorm \in BOOLEAN
    OBVIOUS
  <2>2. status' \in Shown
    BY <1>0, <1>1, ShowIs
  <2>3. quiet' \in 0 .. Cap
    BY <1>1, <1>4
  <2>4. spoke' \in Aged
    BY <1>1, <1>6, <1>10
  <2> QED
    BY <1>1, <1>15, <2>1, <2>2, <2>3, <2>4
\* Speech in an unarmed, idle or dormant connection opens a session.
<1>18. CASE send /\ s = Meeting!NoSession
  <2>1. PICK fresh \in Meeting!Opened :
          session' = fresh /\ lastTurns' = fresh.turns /\ evidence' = 0 /\ held' = 0
    BY <1>2, <1>18
  <2>2. /\ fresh \in Calls /\ fresh.opened = 0 /\ fresh.turns \in 0 .. MaxTurns
        /\ session' # Meeting!NoSession /\ fresh.heard = FALSE
    BY <2>1, CallsAre
  <2>3. MeetingTypes'
    BY <1>0, <1>1, <1>10, <1>14, <1>17, <2>1, <2>2 DEF MeetingTypes
  <2>4. Served'
    BY <1>1, <2>1, <2>2 DEF Served
  <2>5. Meeting!OpeningKept'
    BY <2>2 DEF Meeting!OpeningKept, Meeting!Open
  <2>6. ~dorm /\ ~rearm /\ ~idle /\ ~clear /\ gate' = o.gate /\ o.fwd
    BY <1>1, <1>5, <1>13, <1>18
  <2>7. Meeting!BillingEnds'
    BY <1>1, <1>8, <2>1, <2>6, MeetingNumbers DEF Meeting!BillingEnds
  <2> QED
    BY <1>15, <1>16, <2>3, <2>4, <2>5, <2>7 DEF MeetingInv
\* Otherwise the session goes on, or ends, or there is none.
<1>19. CASE ~(send /\ s = Meeting!NoSession)
  <2>1. /\ session' = IF ends THEN Meeting!NoSession ELSE s
        /\ held' = IF ~send /\ s = Meeting!NoSession /\ ~dorm THEN Meeting!Pushed ELSE held
        /\ IF armed /\ session # Meeting!NoSession
           THEN evidence' = Meeting!Evidence(aged, d) /\ lastTurns' = aged.turns
           ELSE evidence' = Meeting!Older(evidence, d) /\ lastTurns' = lastTurns
    BY <1>2, <1>19
  <2>2. session' \in {Meeting!NoSession, aged} /\ session' \in Calls
    BY <1>6, <1>9, <2>1, CallsAre
  <2>3. /\ held' \in {Meeting!Pushed, held} /\ Meeting!Pushed \in 0 .. OpenWindow
        /\ armed /\ OpenSpeech > 0 => Meeting!Pushed \in {held + 1, OpenWindow}
    <3>1. Meeting!Least(held + 1, OpenWindow) \in {held + 1, OpenWindow} /\ Meeting!Least(held + 1, OpenWindow) <= OpenWindow
      BY <1>0, LeastIs, MeetingNumbers
    <3> QED
      BY <1>0, <2>1, <3>1, MeetingNumbers DEF Meeting!Pushed
  <2>4. evidence' \in Aged /\ lastTurns' \in 0 .. MaxTurns
    <3>1. aged.turns \in 0 .. MaxTurns
      BY <1>9 DEF Calls
    <3> QED
      BY <1>0, <1>10, <1>11, <2>1, <3>1
  <2>5. MeetingTypes'
    BY <1>0, <1>1, <1>14, <1>17, <2>2, <2>3, <2>4 DEF MeetingTypes
  <2>6. Served'
    <3>1. session' # Meeting!NoSession => session'.opened >= 0
      BY <1>9, <2>2
    <3>2. session'.heard => session'.turns >= 1 \/ session'.act >= 0
      BY <1>9, <2>2, CallsAre
    <3> QED
      BY <1>1, <3>1, <3>2 DEF Served
  <2>7. Meeting!BillingEnds'
    <3> SUFFICES ASSUME armed, session' # Meeting!NoSession
                 PROVE  /\ gate'.last \in 0 .. SilenceClose - 1
                        /\ evidence' \in 0 .. IdleClose - 1
                        /\ ~dormant'
      BY <1>1 DEF Meeting!BillingEnds, Meeting!Open
    <3>1. ~ends /\ s # Meeting!NoSession /\ ~idle /\ s = aged /\ session # Meeting!NoSession
      BY <1>6, <1>9, <2>1
    <3>2. gate.last \in 0 .. SilenceClose - 1 /\ evidence \in 0 .. IdleClose - 1 /\ ~dormant
      BY <1>0, <1>1, <3>1 DEF Meeting!BillingEnds, Meeting!Open
    <3>3. ~dorm /\ ~rearm /\ ~clear /\ gate' = o.gate /\ (o.fwd \/ ~o.close)
      BY <1>1, <1>5, <3>1, <3>2
    <3>4. evidence' \in 0 .. IdleClose - 1
      <4>1. evidence' = Meeting!Evidence(aged, d)
        BY <2>1, <3>1
      <4>2. ~(Meeting!Evidence(aged, d) >= IdleClose)
        BY <1>5, <3>1
      <4>3. Meeting!Evidence(aged, d) >= 0 /\ Meeting!Evidence(aged, d) \in Int
        BY <1>11, <3>2, MeetingNumbers DEF Aged
      <4> QED
        BY <4>1, <4>2, <4>3, MeetingNumbers
    <3>5. ga.last >= 0 /\ ga.last \in Int
      <4>1. gate.last >= 0
        BY <3>2, MeetingNumbers
      <4>2. Meeting!Older(gate.last, d) \in 0 .. Cap
        BY <1>0, <4>1, OlderIs
      <4> QED
        BY <1>7, <4>2, MeetingNumbers
    <3>6. gate'.last \in 0 .. SilenceClose - 1
      <4>1. CASE o.fwd
        BY <1>8, <3>3, <4>1
      <4>2. CASE ~o.fwd
        <5>1. ~loud /\ ~o.close /\ gate' = ga
          BY <1>8, <3>3, <3>5, <4>2
        <5>2. ga.last < SilenceClose
          BY <1>8, <3>5, <4>2, <5>1
        <5> QED
          BY <3>5, <5>1, <5>2, MeetingNumbers
      <4> QED
        BY <4>1, <4>2
    <3> QED
      BY <1>1, <3>3, <3>4, <3>6
  <2>8. Meeting!OpeningKept'
    <3> SUFFICES ASSUME session' = Meeting!NoSession, ~dormant', NEW c \in gate'.cands, c.audio < OpenWindow
                 PROVE  c.audio < held'
      BY DEF Meeting!OpeningKept, Meeting!Open
    <3>1. gate' # Meeting!Reset /\ ~clear /\ gate' = g /\ ~dorm
      BY <1>1, <1>10
    <3>2. ~rearm /\ ~idle /\ gate' = o.gate /\ ~dormant
      BY <1>5, <3>1
    <3>3. ~ends /\ s = Meeting!NoSession /\ s = aged /\ session = Meeting!NoSession
      <4>1. ~ends
        BY <3>1
      <4> QED
        BY <1>6, <1>9, <2>1, <3>2, <4>1
    <3>4. ~send /\ held' = Meeting!Pushed
      BY <1>19, <2>1, <3>1, <3>3
    <3>5. armed /\ OpenSpeech > 0
      BY <1>1, <1>16 DEF Gated
    <3>6. held' \in {held + 1, OpenWindow} /\ held \in Nat
      BY <1>0, <2>3, <3>4, <3>5, MeetingNumbers
    <3>7. c \in ga.cands \/ c.audio = 0
      BY <1>8, <3>2
    <3>8. ASSUME c \in ga.cands PROVE c.audio < held'
      <4>1. PICK x \in gate.cands : c.audio = x.audio + 1
        BY <1>7, <3>8
      <4>2. x.audio \in Nat
        BY <1>0, MeetingNumbers DEF Gates, Candidates
      <4>3. x.audio < OpenWindow
        BY <4>1, <4>2, MeetingNumbers
      <4>4. x.audio < held
        BY <1>0, <1>1, <3>2, <3>3, <4>3 DEF Meeting!OpeningKept, Meeting!Open
      <4> QED
        BY <3>6, <4>1, <4>2, <4>4
    <3> QED
      BY <3>6, <3>7, <3>8, MeetingNumbers
  <2> QED
    BY <1>15, <1>16, <2>5, <2>6, <2>7, <2>8 DEF MeetingInv
<1> QED
  BY <1>18, <1>19

LEMMA MeetingStep == MeetingInv /\ [Meeting!Next]_meetingVars => MeetingInv'
<1> SUFFICES ASSUME MeetingInv, [Meeting!Next]_meetingVars PROVE MeetingInv'
  OBVIOUS
<1>1. CASE Meeting!Next
  <2>1. CASE Meeting!Connect \/ Meeting!Hello
    BY <2>1, HelloKeeps
  <2>2. CASE Meeting!Disconnect
    BY <2>2, DisconnectKeeps
  <2>3. CASE Meeting!CloudResult \/ Meeting!CloudError
    BY <2>3, CloudKeeps
  <2>4. CASE Meeting!Marker
    BY <2>4, MarkerKeeps
  <2>5. CASE \E loud \in BOOLEAN, d \in Gaps : Meeting!Frame(loud, d)
    BY <2>5, FrameKeeps
  <2> QED
    BY <1>1, <2>1, <2>2, <2>3, <2>4, <2>5 DEF Meeting!Next
<1>2. CASE UNCHANGED meetingVars
  BY <1>2 DEF meetingVars, MeetingInv, MeetingTypes, Served, Gated, Meeting!OpeningKept,
              Meeting!BillingEnds, Meeting!Open
<1> QED
  BY <1>1, <1>2

LEMMA MeetingSuffices == MeetingInv => Meeting!TypeOK /\ Meeting!ConversationKept /\ Meeting!BillingEnds
<1> SUFFICES ASSUME MeetingInv PROVE Meeting!TypeOK /\ Meeting!ConversationKept /\ Meeting!BillingEnds
  OBVIOUS
<1>1. MeetingTypes /\ Meeting!OpeningKept /\ Meeting!BillingEnds /\ ~wordsLost
  BY DEF MeetingInv
<1>2. quiet \in Aged
  BY <1>1, MeetingNumbers DEF MeetingTypes, Aged
<1>3. gate.last \in Aged /\ gate.cands \in SUBSET Candidates
  BY <1>1 DEF MeetingTypes, Gates
<1>4. Meeting!TypeOK
  BY <1>1, <1>2, <1>3, MeetingNumbers DEF MeetingTypes, Meeting!TypeOK, Candidates, Calls, Shown
<1> QED
  BY <1>1, <1>4 DEF Meeting!ConversationKept, Meeting!NothingHeardIsRemoved

(***************************************************************************)
(* MeetingSession: neither the first words of a conversation nor a         *)
(* transcript with words in it goes missing, through bursts after a        *)
(* stalled link, dormancy, markers, late results and closed connections.   *)
(***************************************************************************)
THEOREM ConversationIsKept == Spec => []ConversationKept
<1>1. Init => MeetingInv
  BY MeetingInit DEF Init
<1>2. MeetingInv /\ [Next]_vars => MeetingInv'
  BY StepOfEach, MeetingStep
<1>3. MeetingInv => ConversationKept
  BY MeetingSuffices DEF ConversationKept
<1> QED
  BY <1>1, <1>2, <1>3, PTL DEF Spec

(***************************************************************************)
(* MeetingSession: an open billed session has heard speech and given a     *)
(* transcript recently enough that silence or the lack of one will end it. *)
(***************************************************************************)
THEOREM BillingIsEnded == Spec => []BillingEnds
<1>1. Init => MeetingInv
  BY MeetingInit DEF Init
<1>2. MeetingInv /\ [Next]_vars => MeetingInv'
  BY StepOfEach, MeetingStep
<1>3. MeetingInv => BillingEnds
  BY MeetingSuffices DEF BillingEnds
<1> QED
  BY <1>1, <1>2, <1>3, PTL DEF Spec

-----------------------------------------------------------------------------
(* AmbientPipeline: the audio cut out for the diarizer *)

Utts == [start : Nat, end : Nat]
RightSlices == {r \in [from : Nat, to : Nat, first : Nat, last : Nat] : r.from = r.first /\ r.to = r.last}
Closings == {<<>>} \cup {<<r>> : r \in RightSlices}
Pipes == [base : Nat, len : Nat, utts : Seq(Utts), first : Nat, closed : Closings]

\* The pipeline in the midst of a call: the buffer ends with the f samples fed, and begins
\* no later than what is known to be spoken (h) or than an old beginning (c); the window's
\* utterances lie between its first sample and h.
Aligned(p, h, c, f) ==
  /\ p \in Pipes /\ p.base + p.len = f
  /\ p.base <= h \/ p.base <= c
  /\ p.utts # <<>> => p.base <= p.first
  /\ \A i \in DOMAIN p.utts : p.utts[i].start < p.utts[i].end /\ p.utts[i].end <= h /\ p.first < p.utts[i].end

PipeInv ==
  /\ fed \in 0 .. MaxFed /\ heard \in 0 .. fed /\ flushed \in BOOLEAN
  /\ rawBase \in Nat /\ rawLen \in Nat /\ winUtts \in Seq(Utts) /\ winFirst \in Nat /\ handed \in Closings
  /\ Aligned([base |-> rawBase, len |-> rawLen, utts |-> winUtts, first |-> winFirst, closed |-> handed],
             heard, fed - DiarWindow, fed)
  /\ rawLen <= 2 * DiarWindow

LEMMA PipeNumbers ==
  /\ DiarWindow \in Nat /\ DiarWindow > 0 /\ Chunk \in Nat /\ LongestUtt \in Nat
  /\ Silence \in Nat /\ MaxFed \in Nat /\ LongestUtt + Silence <= DiarWindow + 1
BY PipelineAssumption

LEMMA PipeFields ==
  ASSUME NEW p \in Pipes
  PROVE  /\ p.base \in Nat /\ p.len \in Nat /\ p.utts \in Seq(Utts) /\ p.first \in Nat /\ p.closed \in Closings
         /\ \A i \in DOMAIN p.utts : p.utts[i] \in Utts /\ p.utts[i].start \in Nat /\ p.utts[i].end \in Nat
         /\ Len(p.utts) \in Nat /\ DOMAIN p.utts = 1 .. Len(p.utts)
<1>1. p.base \in Nat /\ p.len \in Nat /\ p.utts \in Seq(Utts) /\ p.first \in Nat /\ p.closed \in Closings
  BY DEF Pipes
<1>2. PICK q \in Seq(Utts) : q = p.utts
  BY <1>1
<1>3. /\ \A i \in DOMAIN q : q[i] \in Utts
      /\ Len(q) \in Nat /\ DOMAIN q = 1 .. Len(q)
  OBVIOUS
<1>4. \A u \in Utts : u.start \in Nat /\ u.end \in Nat
  BY DEF Utts
<1> QED
  BY <1>1, <1>2, <1>3, <1>4

\* Closing a window hands over just its audio and keeps what follows.
LEMMA CloseIs ==
  ASSUME NEW p, NEW h \in Nat, NEW c \in Int, NEW f \in Nat, h <= f,
         Aligned(p, h, c, f), p.utts # <<>>
  PROVE  Aligned(Pipeline!CloseWindow(p), h, c, f) /\ Pipeline!CloseWindow(p).utts = <<>>
<1>1. /\ p \in Pipes /\ p.base + p.len = f /\ p.base <= p.first
      /\ \A i \in DOMAIN p.utts : p.utts[i].start < p.utts[i].end /\ p.utts[i].end <= h /\ p.first < p.utts[i].end
  BY DEF Aligned
<1>2. /\ p.base \in Nat /\ p.len \in Nat /\ p.first \in Nat
      /\ Len(p.utts) \in 1 .. Len(p.utts) /\ DOMAIN p.utts = 1 .. Len(p.utts)
  <2>1. Len(p.utts) \in Nat /\ Len(p.utts) # 0 /\ DOMAIN p.utts = 1 .. Len(p.utts)
    <3>1. PICK q \in Seq(Utts) : q = p.utts
      BY <1>1, PipeFields
    <3>2. q # <<>>
      BY <3>1
    <3> QED
      BY <3>1, <3>2
  <2> QED
    BY <1>1, <2>1, PipeFields
<1> DEFINE n == Len(p.utts)
<1>0. n \in DOMAIN p.utts
  BY <1>2
<1> HIDE DEF n
<1>3. PICK last \in Nat : last = p.utts[n].end
  BY <1>0, <1>1, PipeFields
<1>4. p.first < last /\ last <= h
  BY <1>0, <1>1, <1>3
<1> USE DEF n
<1>5. PICK lo \in Nat, hi \in Nat : lo = p.first - p.base /\ hi = last - p.base
  BY <1>1, <1>2, <1>4
<1>6. lo < hi /\ hi <= p.len
  BY SMTT(30), <1>1, <1>2, <1>4, <1>5
<1>7. /\ Pipeline!AtLeast(0, p.first - p.base) = lo /\ Pipeline!AtLeast(lo, last - p.base) = hi
  <2>1. Pipeline!AtLeast(0, lo) = lo /\ Pipeline!AtLeast(lo, hi) = hi
    BY <1>6 DEF Pipeline!AtLeast
  <2> QED
    BY <1>5, <2>1
<1> DEFINE raw == [from |-> p.first, to |-> last, first |-> p.first, last |-> last]
<1>8. Pipeline!CloseWindow(p) =
        [p EXCEPT !.utts = <<>>, !.first = 0, !.len = p.len - hi, !.base = last, !.closed = <<raw>>]
  <2>1. /\ p.base + (IF lo > p.len THEN p.len ELSE lo) = p.first
        /\ p.base + (IF hi > p.len THEN p.len ELSE hi) = last
        /\ (IF hi > p.len THEN p.len ELSE hi) = hi
        /\ (IF lo > p.len THEN p.len ELSE lo) = lo
    BY SMTT(30), <1>1, <1>2, <1>5, <1>6
  <2> QED
    BY <1>3, <1>6, <1>7, <2>1 DEF Pipeline!CloseWindow, Pipeline!Clear
<1>9. raw \in RightSlices
  <2>1. [from |-> p.first, to |-> last, first |-> p.first, last |-> last]
          \in [from : Nat, to : Nat, first : Nat, last : Nat]
    BY <1>2
  <2> QED
    BY <2>1 DEF RightSlices
<1>10. <<raw>> \in Closings
  BY <1>9 DEF Closings
<1>11. PICK r \in Closings, left \in Nat : r = <<raw>> /\ left = p.len - hi
  BY <1>2, <1>6, <1>10
<1> HIDE DEF raw
<1>12. Pipeline!CloseWindow(p) =
         [p EXCEPT !.utts = <<>>, !.first = 0, !.len = left, !.base = last, !.closed = r]
  BY <1>8, <1>11
<1>13. <<>> \in Seq(Utts) /\ 0 \in Nat
  OBVIOUS
<1> DEFINE q == Pipeline!CloseWindow(p)
<1>14. q \in Pipes
  BY <1>1, <1>12, <1>13 DEF Pipes
<1>15. q.base = last /\ q.len = left /\ q.utts = <<>>
  BY <1>1, <1>12 DEF Pipes
<1>16. last + left = f
  BY SMTT(30), <1>1, <1>2, <1>5, <1>11
<1> HIDE DEF q
<1>17. Aligned(q, h, c, f) /\ q.utts = <<>>
  BY <1>4, <1>14, <1>15, <1>16 DEF Aligned
<1> QED
  BY <1>17 DEF q

\* A stored utterance joins the window, which may close behind it.
LEMMA StoreIs ==
  ASSUME NEW p, NEW h \in Nat, NEW c \in Int, NEW f \in Nat, h <= f, Aligned(p, h, c, f),
         NEW u \in Utts, u.start < u.end, u.end <= f, u.start >= h, u.start >= c
  PROVE  Aligned(Pipeline!Store(p, u), u.end, c, f)
<1>1. /\ p \in Pipes /\ p.base + p.len = f /\ (p.base <= h \/ p.base <= c)
      /\ p.utts # <<>> => p.base <= p.first
      /\ \A i \in DOMAIN p.utts : p.utts[i].start < p.utts[i].end /\ p.utts[i].end <= h /\ p.first < p.utts[i].end
  BY DEF Aligned
<1>2. /\ p.base \in Nat /\ p.len \in Nat /\ p.first \in Nat /\ p.utts \in Seq(Utts)
      /\ \A i \in DOMAIN p.utts : p.utts[i] \in Utts /\ p.utts[i].start \in Nat /\ p.utts[i].end \in Nat
      /\ u.start \in Nat /\ u.end \in Nat
  BY <1>1, PipeFields DEF Utts
<1>3. PICK utts \in Seq(Utts), first \in Nat :
        utts = Append(p.utts, u) /\ first = (IF p.utts = <<>> THEN u.start ELSE p.first)
  <2>1. PICK old \in Seq(Utts) : old = p.utts
    BY <1>2
  <2>2. Append(old, u) \in Seq(Utts)
    OBVIOUS
  <2>3. (IF p.utts = <<>> THEN u.start ELSE p.first) \in Nat
    BY <1>2
  <2> QED
    BY <2>1, <2>2, <2>3
<1> DEFINE q == [p EXCEPT !.utts = utts, !.first = first]
<1>4. q = [p EXCEPT !.utts = Append(@, u), !.first = IF p.utts = <<>> THEN u.start ELSE @]
  BY <1>3
<1>5. /\ q \in Pipes /\ q.base = p.base /\ q.len = p.len /\ q.utts = utts /\ q.first = first
      /\ q.closed = p.closed
  BY <1>1 DEF Pipes
<1>6. /\ utts # <<>>
      /\ \A i \in DOMAIN utts : utts[i] = u \/ \E j \in DOMAIN p.utts : utts[i] = p.utts[j]
  <2>1. PICK old \in Seq(Utts) : old = p.utts
    BY <1>2
  <2>2. /\ utts = Append(old, u) /\ DOMAIN utts = 1 .. Len(old) + 1 /\ utts[Len(old) + 1] = u
        /\ \A i \in 1 .. Len(old) : utts[i] = old[i] /\ i \in DOMAIN old
        /\ Len(utts) = Len(old) + 1 /\ Len(old) \in Nat
    BY <1>3, <2>1
  <2>3. \A i \in DOMAIN utts : i \in 1 .. Len(old) \/ i = Len(old) + 1
    BY <2>2
  <2> QED
    BY <2>1, <2>2, <2>3
<1>7. p.base <= first
  BY <1>1, <1>2, <1>3
<1>8. ASSUME NEW i \in DOMAIN utts
      PROVE  utts[i].start < utts[i].end /\ utts[i].end <= u.end /\ first < utts[i].end
  <2>1. CASE utts[i] = u
    <3>1. CASE p.utts = <<>>
      BY <1>2, <1>3, <2>1, <3>1
    <3>2. CASE p.utts # <<>>
      <4>1. PICK j \in DOMAIN p.utts : TRUE
        BY SMTT(30), <1>2, <3>2
      <4>2. p.first < p.utts[j].end /\ p.utts[j].end <= h
        BY <1>1
      <4> QED
        BY SMTT(30), <1>2, <1>3, <2>1, <3>2, <4>1, <4>2
    <3> QED
      BY <3>1, <3>2
  <2>2. ASSUME NEW j \in DOMAIN p.utts, utts[i] = p.utts[j]
        PROVE  utts[i].start < utts[i].end /\ utts[i].end <= u.end /\ first < utts[i].end
    <3>1. p.utts # <<>>
      OBVIOUS
    <3>2. first = p.first
      BY <1>3, <3>1
    <3> QED
      BY SMTT(30), <1>1, <1>2, <2>2, <3>2
  <2> QED
    BY <1>6, <2>1, <2>2
<1> HIDE DEF q
<1>9. Aligned(q, u.end, c, f)
  <2>1. q.base <= u.end \/ q.base <= c
    BY <1>1, <1>2, <1>5
  <2> QED
    BY <1>1, <1>5, <1>7, <1>8, <2>1 DEF Aligned
<1>10. Pipeline!Store(p, u) = q \/ Pipeline!Store(p, u) = Pipeline!CloseWindow(q)
  BY <1>4 DEF Pipeline!Store
<1>11. Aligned(Pipeline!CloseWindow(q), u.end, c, f)
  BY <1>2, <1>5, <1>6, <1>9, CloseIs
<1> QED
  BY <1>9, <1>10, <1>11

\* The cap keeps a window of audio, and a window of utterances only with its beginning.
LEMMA CapIs ==
  ASSUME NEW p, NEW h \in Nat, NEW c \in Int, NEW f \in Nat, c <= f - DiarWindow, Aligned(p, h, c, f)
  PROVE  Aligned(Pipeline!CapRaw(p), h, f - DiarWindow, f) /\ Pipeline!CapRaw(p).len <= 2 * DiarWindow
<1>1. /\ p \in Pipes /\ p.base + p.len = f /\ (p.base <= h \/ p.base <= c)
      /\ p.utts # <<>> => p.base <= p.first
      /\ \A i \in DOMAIN p.utts : p.utts[i].start < p.utts[i].end /\ p.utts[i].end <= h /\ p.first < p.utts[i].end
  BY DEF Aligned
<1>2. p.base \in Nat /\ p.len \in Nat /\ p.first \in Nat
  BY <1>1, PipeFields
<1>3. CASE p.len <= 2 * DiarWindow
  <2>1. Pipeline!CapRaw(p) = p
    BY <1>3 DEF Pipeline!CapRaw
  <2>2. p.base <= h \/ p.base <= f - DiarWindow
    BY <1>1, <1>2, PipeNumbers
  <2> QED
    BY <1>1, <1>3, <2>1, <2>2 DEF Aligned
<1>4. CASE ~(p.len <= 2 * DiarWindow)
  <2>1. PICK b \in Nat : b = p.base + p.len - DiarWindow
    BY <1>2, <1>4, PipeNumbers
  <2> DEFINE q == [p EXCEPT !.len = DiarWindow, !.base = b]
             e == [q EXCEPT !.utts = <<>>, !.first = 0]
  <2>2. Pipeline!CapRaw(p) = IF q.utts # <<>> /\ q.first < q.base THEN e ELSE q
    BY <1>4, <2>1 DEF Pipeline!CapRaw, Pipeline!Clear
  <2>3. <<>> \in Seq(Utts) /\ 0 \in Nat /\ DiarWindow \in Nat
    BY PipeNumbers
  <2>4. /\ q \in Pipes /\ q.base = b /\ q.len = DiarWindow /\ q.utts = p.utts /\ q.first = p.first
        /\ e \in Pipes /\ e.base = b /\ e.len = DiarWindow /\ e.utts = <<>> /\ e.first = 0
    BY <1>1, <2>3 DEF Pipes
  <2> HIDE DEF q, e
  <2>5. b = f - DiarWindow /\ b + DiarWindow = f /\ DiarWindow <= 2 * DiarWindow
    BY <1>1, <1>2, <2>1, PipeNumbers
  <2>6. Aligned(e, h, f - DiarWindow, f)
    BY <2>4, <2>5 DEF Aligned
  <2>7. ~(q.utts # <<>> /\ q.first < q.base) => Aligned(q, h, f - DiarWindow, f)
    <3>1. ~(q.utts # <<>> /\ q.first < q.base) => (q.utts # <<>> => q.base <= q.first)
      BY <1>2, <2>1, <2>4
    <3> QED
      BY <1>1, <2>4, <2>5, <3>1 DEF Aligned
  <2> QED
    BY <2>2, <2>4, <2>5, <2>6, <2>7
<1> QED
  BY <1>3, <1>4

\* What the detector hands out is spoken after what it handed out before, and not so long
\* ago that the buffer lost it.
LEMMA SegmentIs ==
  ASSUME fed \in Nat, NEW n \in Nat, NEW u \in Pipeline!Segment(fed + n)
  PROVE  /\ u \in Utts /\ u.start \in Nat /\ u.end \in Nat
         /\ u.start < u.end /\ u.end <= fed + n /\ u.start >= fed - DiarWindow
<1>1. /\ u \in [start : 0 .. fed + n, end : fed - Silence + 1 .. fed + n]
      /\ u.end - u.start \in 1 .. LongestUtt
  BY DEF Pipeline!Segment
<1>2. /\ u.start \in 0 .. fed + n /\ u.end \in fed - Silence + 1 .. fed + n
      /\ u = [start |-> u.start, end |-> u.end]
  BY <1>1
<1>3. u.start \in Nat /\ u.end \in Nat /\ u.start < u.end /\ u.end <= fed + n /\ u.start >= fed - DiarWindow
  BY <1>1, <1>2, PipeNumbers
<1>4. u \in Utts
  BY <1>2, <1>3 DEF Utts
<1> QED
  BY <1>3, <1>4

LEMMA PipeInit == Pipeline!Init => PipeInv
<1> SUFFICES ASSUME Pipeline!Init PROVE PipeInv
  OBVIOUS
<1>1. /\ fed = 0 /\ heard = 0 /\ rawBase = 0 /\ rawLen = 0 /\ winUtts = <<>> /\ winFirst = 0
      /\ handed = <<>> /\ flushed = FALSE
  BY DEF Pipeline!Init
<1> DEFINE p == [base |-> rawBase, len |-> rawLen, utts |-> winUtts, first |-> winFirst, closed |-> handed]
<1>2. <<>> \in Closings /\ <<>> \in Seq(Utts) /\ 0 \in Nat
  BY DEF Closings
<1>3. p \in Pipes
  BY <1>1, <1>2 DEF Pipes
<1>4. p.base = 0 /\ p.len = 0 /\ p.utts = <<>> /\ DOMAIN p.utts = {}
  BY <1>1
<1> HIDE DEF p
<1>5. Aligned(p, heard, fed - DiarWindow, fed)
  BY <1>1, <1>3, <1>4 DEF Aligned
<1>6. /\ fed \in 0 .. MaxFed /\ heard \in 0 .. fed /\ rawLen <= 2 * DiarWindow
      /\ rawBase \in Nat /\ rawLen \in Nat /\ winFirst \in Nat
  <2>1. fed = 0 /\ heard = 0 /\ rawBase = 0 /\ rawLen = 0 /\ winFirst = 0
    BY <1>1
  <2> QED
    BY <2>1, PipeNumbers
<1>7. winUtts \in Seq(Utts) /\ handed \in Closings /\ flushed \in BOOLEAN
  BY <1>1, <1>2
<1> QED
  BY <1>5, <1>6, <1>7 DEF PipeInv, p

\* One call: what the detector hands out is stored, the window of a lost connection is
\* closed, the buffer is cut.
LEMMA ProcessKeeps ==
  ASSUME PipeInv, NEW n \in Nat, NEW flush \in BOOLEAN, Pipeline!Process(n, flush)
  PROVE  PipeInv'
<1> DEFINE p0 == [base |-> rawBase, len |-> rawLen, utts |-> winUtts, first |-> winFirst, closed |-> handed]
           p1 == [base |-> rawBase, len |-> rawLen + n, utts |-> winUtts, first |-> winFirst, closed |-> <<>>]
           f == fed + n
           c == fed - DiarWindow
<1>1. /\ fed \in Nat /\ heard \in Nat /\ heard <= fed /\ f \in Nat /\ f \in 0 .. MaxFed /\ c \in Int
      /\ fed' = f /\ flushed' \in BOOLEAN /\ c <= f - DiarWindow /\ heard <= f
  BY SMTT(30), PipeNumbers DEF PipeInv, Pipeline!Process
<1>2. PICK segs \in Pipeline!Utterances(f) :
        /\ IF segs = <<>> THEN heard' = heard
           ELSE segs[1].start >= heard /\ heard' = segs[Len(segs)].end
        /\ LET q == Pipeline!After(segs, flush, n)
           IN  /\ rawBase' = q.base /\ rawLen' = q.len /\ winUtts' = q.utts /\ winFirst' = q.first
               /\ handed' = q.closed
  BY DEF Pipeline!Process
<1>3. Aligned(p1, heard, c, f)
  <2>1. /\ rawBase \in Nat /\ rawLen \in Nat /\ winUtts \in Seq(Utts) /\ winFirst \in Nat
        /\ Aligned(p0, heard, c, fed)
    BY DEF PipeInv
  <2>2. p0.base = rawBase /\ p0.len = rawLen /\ p0.utts = winUtts /\ p0.first = winFirst
    OBVIOUS
  <2> HIDE DEF p0, c
  <2>3. /\ rawBase + rawLen = fed /\ (rawBase <= heard \/ rawBase <= c)
        /\ winUtts # <<>> => rawBase <= winFirst
        /\ \A i \in DOMAIN winUtts : /\ winUtts[i].start < winUtts[i].end /\ winUtts[i].end <= heard
                                     /\ winFirst < winUtts[i].end
    BY <2>1, <2>2 DEF Aligned
  <2>4. <<>> \in Closings /\ rawLen + n \in Nat
    BY <2>1 DEF Closings
  <2>5. p1 \in Pipes
    BY <2>1, <2>4 DEF Pipes
  <2>6. p1.base = rawBase /\ p1.len = rawLen + n /\ p1.utts = winUtts /\ p1.first = winFirst
    OBVIOUS
  <2>7. rawBase + (rawLen + n) = f
    BY <1>1, <2>1, <2>3
  <2> HIDE DEF p1, f
  <2> QED
    BY <2>3, <2>5, <2>6, <2>7 DEF Aligned
<1> HIDE DEF p0, p1
<1>4. /\ heard' \in Nat /\ heard' <= f
      /\ Aligned(Pipeline!Stored(p1, segs), heard', c, f)
  <2>1. CASE segs = <<>>
    BY <1>1, <1>2, <1>3, <2>1 DEF Pipeline!Stored
  <2>2. ASSUME NEW u \in Pipeline!Segment(f), segs = <<u>>
        PROVE  heard' \in Nat /\ heard' <= f /\ Aligned(Pipeline!Stored(p1, segs), heard', c, f)
    <3>1. /\ segs # <<>> /\ Len(segs) = 1 /\ segs[1] = u
          /\ u.start >= heard /\ heard' = u.end
      BY <1>2, <2>2
    <3>2. u \in Utts /\ u.start \in Nat /\ u.end \in Nat /\ u.start < u.end /\ u.end <= f /\ u.start >= c
      BY <1>1, SegmentIs
    <3>3. Aligned(Pipeline!Store(p1, u), u.end, c, f)
      BY <1>1, <1>3, <3>1, <3>2, StoreIs
    <3> QED
      BY <3>1, <3>2, <3>3 DEF Pipeline!Stored
  <2>3. ASSUME NEW u \in Pipeline!Segment(f), NEW v \in Pipeline!Segment(f),
               segs = <<u, v>>, u.end <= v.start
        PROVE  heard' \in Nat /\ heard' <= f /\ Aligned(Pipeline!Stored(p1, segs), heard', c, f)
    <3>1. /\ segs # <<>> /\ Len(segs) = 2 /\ segs[1] = u /\ segs[2] = v
          /\ u.start >= heard /\ heard' = v.end
      BY <1>2, <2>3
    <3>2. /\ u \in Utts /\ u.start \in Nat /\ u.end \in Nat /\ u.start < u.end /\ u.end <= f /\ u.start >= c
          /\ v \in Utts /\ v.start \in Nat /\ v.end \in Nat /\ v.start < v.end /\ v.end <= f /\ v.start >= c
      BY <1>1, SegmentIs
    <3>3. Aligned(Pipeline!Store(p1, u), u.end, c, f)
      BY <1>1, <1>3, <3>1, <3>2, StoreIs
    <3>4. Aligned(Pipeline!Store(Pipeline!Store(p1, u), v), v.end, c, f)
      BY <1>1, <2>3, <3>2, <3>3, StoreIs
    <3> QED
      BY <3>1, <3>2, <3>4 DEF Pipeline!Stored
  <2> QED
    <3>1. \/ segs = <<>> \/ segs \in {<<u>> : u \in Pipeline!Segment(f)}
          \/ segs \in {s \in Pipeline!Segment(f) \X Pipeline!Segment(f) : s[1].end <= s[2].start}
      BY <1>2 DEF Pipeline!Utterances
    <3>2. CASE segs \in {<<u>> : u \in Pipeline!Segment(f)}
      BY <2>2, <3>2
    <3>3. CASE segs \in {s \in Pipeline!Segment(f) \X Pipeline!Segment(f) : s[1].end <= s[2].start}
      <4>1. PICK u \in Pipeline!Segment(f), v \in Pipeline!Segment(f) : segs = <<u, v>>
        BY <3>3
      <4>2. u.end <= v.start
        BY <3>3, <4>1
      <4> QED
        BY <2>3, <4>1, <4>2
    <3> QED
      BY <2>1, <3>1, <3>2, <3>3
<1>5. PICK p : p = Pipeline!Stored(p1, segs)
  OBVIOUS
<1>6. PICK h \in Nat : h = heard' /\ h <= f
  BY <1>4
<1>7. PICK q : q = IF flush /\ p.closed = <<>> /\ p.utts # <<>> THEN Pipeline!CloseWindow(p) ELSE p
  OBVIOUS
<1>8. Aligned(q, h, c, f)
  <2>1. Aligned(p, h, c, f)
    BY <1>4, <1>5, <1>6
  <2>2. p.utts # <<>> => Aligned(Pipeline!CloseWindow(p), h, c, f)
    BY <1>1, <1>6, <2>1, CloseIs
  <2> QED
    BY <1>7, <2>1, <2>2
<1>9. PICK r : r = Pipeline!CapRaw(q)
  OBVIOUS
<1>10. Aligned(r, h, f - DiarWindow, f) /\ r.len <= 2 * DiarWindow
  BY <1>1, <1>8, <1>9, CapIs
<1>11. Pipeline!After(segs, flush, n) = r
  BY <1>5, <1>7, <1>9 DEF Pipeline!After, p1
<1>12. rawBase' = r.base /\ rawLen' = r.len /\ winUtts' = r.utts /\ winFirst' = r.first /\ handed' = r.closed
  BY <1>2, <1>11
<1>13. r \in Pipes
  BY <1>10 DEF Aligned
<1>14. r = [base |-> r.base, len |-> r.len, utts |-> r.utts, first |-> r.first, closed |-> r.closed]
  BY <1>13 DEF Pipes
<1>15. Aligned([base |-> rawBase, len |-> rawLen, utts |-> winUtts, first |-> winFirst, closed |-> handed],
               heard, fed - DiarWindow, fed)'
  <2>1. r = [base |-> rawBase', len |-> rawLen', utts |-> winUtts', first |-> winFirst', closed |-> handed']
    BY <1>12, <1>14
  <2>2. Aligned(r, heard', fed' - DiarWindow, fed')
    BY <1>1, <1>6, <1>10
  <2> QED
    BY <2>1, <2>2 DEF Aligned
<1>16. /\ rawBase' \in Nat /\ rawLen' \in Nat /\ winUtts' \in Seq(Utts) /\ winFirst' \in Nat /\ handed' \in Closings
  BY <1>12, <1>13 DEF Pipes
<1> QED
  BY <1>1, <1>4, <1>10, <1>12, <1>15, <1>16 DEF PipeInv

LEMMA PipeStep == PipeInv /\ [Pipeline!Next]_pipelineVars => PipeInv'
<1> SUFFICES ASSUME PipeInv, [Pipeline!Next]_pipelineVars PROVE PipeInv'
  OBVIOUS
<1>1. CASE Pipeline!Next
  <2>1. CASE Pipeline!Process(0, TRUE)
    BY <2>1, ProcessKeeps
  <2>2. ASSUME NEW n \in 1 .. Chunk, Pipeline!Process(n, FALSE) PROVE PipeInv'
    <3>1. n \in Nat
      BY PipeNumbers
    <3> QED
      BY <2>2, <3>1, ProcessKeeps
  <2> QED
    BY <1>1, <2>1, <2>2 DEF Pipeline!Next
<1>2. CASE UNCHANGED pipelineVars
  BY <1>2 DEF pipelineVars, PipeInv, Aligned
<1> QED
  BY <1>1, <1>2

LEMMA PipeSuffices == PipeInv => Pipeline!TypeOK /\ Pipeline!SlicedRight
<1> SUFFICES ASSUME PipeInv PROVE Pipeline!TypeOK /\ Pipeline!SlicedRight
  OBVIOUS
<1> DEFINE p == [base |-> rawBase, len |-> rawLen, utts |-> winUtts, first |-> winFirst, closed |-> handed]
<1>1. /\ fed \in 0 .. MaxFed /\ heard \in 0 .. fed /\ flushed \in BOOLEAN
      /\ rawBase \in Nat /\ rawLen \in Nat /\ winUtts \in Seq(Utts) /\ winFirst \in Nat /\ handed \in Closings
      /\ Aligned(p, heard, fed - DiarWindow, fed) /\ rawLen <= 2 * DiarWindow
  BY DEF PipeInv
<1>2. p.base = rawBase /\ p.len = rawLen /\ p.utts = winUtts /\ p.first = winFirst
  OBVIOUS
<1> HIDE DEF p
<1>3. /\ rawBase + rawLen = fed /\ (winUtts # <<>> => rawBase <= winFirst)
      /\ \A i \in DOMAIN winUtts : winUtts[i].start < winUtts[i].end
  BY <1>1, <1>2 DEF Aligned
<1>4. \A i \in DOMAIN handed : handed[i].from = handed[i].first /\ handed[i].to = handed[i].last
  <2>1. CASE handed = <<>>
    BY <2>1
  <2>2. ASSUME NEW r \in RightSlices, handed = <<r>>
        PROVE  \A i \in DOMAIN handed : handed[i].from = handed[i].first /\ handed[i].to = handed[i].last
    <3>1. DOMAIN handed = {1} /\ handed[1] = r
      BY <2>2
    <3>2. r.from = r.first /\ r.to = r.last
      BY DEF RightSlices
    <3> QED
      BY <3>1, <3>2
  <2> QED
    BY <1>1, <2>1, <2>2 DEF Closings
<1>5. Pipeline!TypeOK
  <2>1. rawBase \in 0 .. MaxFed /\ rawLen \in 0 .. 2 * DiarWindow + Chunk
    BY <1>1, <1>3, PipeNumbers
  <2> QED
    BY <1>1, <1>3, <2>1 DEF Pipeline!TypeOK
<1> QED
  BY <1>3, <1>4, <1>5 DEF Pipeline!SlicedRight

(***************************************************************************)
(* AmbientPipeline: what the diarizer gets is the audio of the window's    *)
(* utterances to the sample, however late segments come and whatever the   *)
(* cap of the buffer cut off.                                              *)
(***************************************************************************)
THEOREM SlicesRight == Spec => []SlicedRight
<1>1. Init => PipeInv
  BY PipeInit DEF Init
<1>2. PipeInv /\ [Next]_vars => PipeInv'
  BY StepOfEach, PipeStep
<1>3. PipeInv => SlicedRight
  BY PipeSuffices DEF SlicedRight
<1> QED
  BY <1>1, <1>2, <1>3, PTL DEF Spec

-----------------------------------------------------------------------------
(* DeviceRecovery: the budget of the watchdog that presses Restart *)

Young == 0 .. RebootWindow - 1
Books == [seen : -1 .. Escalation, reboots : Seq(Young), since : 0 .. MinReboots]
Ordered(r) == \A i, j \in 1 .. Len(r) : i < j => r[j] <= r[i]

\* Every press but n of them has an attempt of its own on record, no older than it is.
Matched(p, r, n) ==
  /\ Len(p) <= Len(r) + n
  /\ \A i \in 1 .. Len(p), j \in 1 .. Len(r) : j = i + Len(r) + n - Len(p) => r[j] <= p[i]
Spaced(p) == \A i \in 1 .. Len(p) - 1 : p[i] - p[i + 1] >= Cooldown
Begins(q, r) == Len(q) <= Len(r) /\ \A j \in 1 .. Len(q) : q[j] = r[j]

\* Presses whose record is still to come, or was lost.
Unrecorded == forgotten + (IF task \in {"pressed", "failed"} THEN 1 ELSE 0)

RecoveryTypes ==
  /\ device \in {"up", "wedged", "absent"} /\ active \in BOOLEAN /\ late \in BOOLEAN
  /\ task \in {"none", "pressing", "pressed", "failed"}
  /\ mem \in Books /\ disk \in Books /\ presses \in Seq(Young) /\ forgotten \in Nat
  /\ tried \in 0 .. MinReboots /\ restarts \in Nat /\ failedSaves \in Nat

Recorded ==
  /\ Len(mem.reboots) <= MaxPerWindow /\ (task # "none" => Len(mem.reboots) < MaxPerWindow)
  /\ Ordered(mem.reboots) /\ Begins(disk.reboots, mem.reboots)
  /\ Matched(presses, mem.reboots, Unrecorded)

Cooled ==
  /\ forgotten = 0 => Spaced(presses)
  /\ task = "pressing" /\ Len(mem.reboots) > 0 => mem.reboots[Len(mem.reboots)] >= Cooldown

RecoveryInv == RecoveryTypes /\ Recorded /\ Cooled

LEMMA RecoveryNumbers ==
  /\ DarkAfter \in Nat /\ SeenWindow \in Nat /\ Cooldown \in Nat /\ MaxPerWindow \in Nat /\ MaxPerWindow > 0
  /\ RebootWindow \in Nat /\ RebootWindow > 0 /\ RebootWindow <= Escalation /\ Escalation \in Nat
  /\ MinReboots \in Nat /\ Recovery!None = -1
BY RecoveryAssumption DEF Recovery!None

LEMMA BookIs ==
  ASSUME NEW r \in Books
  PROVE  /\ r.seen \in -1 .. Escalation /\ r.reboots \in Seq(Young) /\ r.since \in 0 .. MinReboots
BY DEF Books

\* A tick: what stays in the window is one tick older, what does not comes first.
LEMMA TickIs ==
  ASSUME NEW s \in Seq(Young)
  PROVE  \E k \in 0 .. Len(s), t \in Seq(Young) :
           /\ t = Recovery!Prune(Recovery!AllOlder(s)) /\ Len(t) = Len(s) - k
           /\ \A i \in 1 .. Len(t) : t[i] = s[i + k] + 1
           /\ k > 0 => s[k] + 1 >= RebootWindow
<1> DEFINE n == Len(s)
           o == [i \in 1 .. n |-> s[i] + 1]
           old == {0} \cup {i \in DOMAIN o : o[i] >= RebootWindow}
<1>1. n \in Nat /\ DOMAIN s = 1 .. n /\ \A i \in 1 .. n : s[i] \in Young /\ s[i] \in Nat /\ s[i] < RebootWindow
  BY RecoveryNumbers DEF Young
<1>2. Recovery!AllOlder(s) = o
  <2>1. \A i \in 1 .. n : Recovery!Older(s[i]) = s[i] + 1
    BY <1>1, RecoveryNumbers DEF Recovery!Older
  <2> QED
    BY <1>1, <2>1 DEF Recovery!AllOlder
<1> HIDE DEF n
<1>3. o \in Seq(Nat) /\ Len(o) = n /\ \A i \in 1 .. n : o[i] = s[i] + 1
  BY <1>1
<1> HIDE DEF o
<1>4. old \in SUBSET (0 .. n) /\ old # {}
  BY <1>1, <1>3
<1>5. PICK k \in old : \A j \in old : j <= k
  BY <1>1, <1>4, LargestExists
<1>6. \A k2 \in old : (\A j \in old : j <= k2) => k2 = k
  BY <1>1, <1>4, <1>5
<1>7. (CHOOSE i \in old : \A j \in old : j <= i) = k
  BY <1>5, <1>6
<1>8. Recovery!Prune(o) = SubSeq(o, k + 1, n)
  BY <1>3, <1>7 DEF Recovery!Prune
<1>9. PICK t : t = SubSeq(o, k + 1, n)
  OBVIOUS
<1>10. k \in 0 .. n
  BY <1>4
<1>11. /\ t \in Seq(Nat) /\ Len(t) = n - k /\ DOMAIN t = 1 .. n - k
       /\ \A i \in 1 .. n - k : t[i] = o[i + k]
  <2>1. PICK m \in Int : m = k + 1
    BY <1>10
  <2>2. \A i \in m .. n : o[i] \in Nat
    BY <1>1, <1>3, <1>10, <2>1
  <2>3. /\ SubSeq(o, m, n) \in Seq(Nat)
        /\ Len(SubSeq(o, m, n)) = IF m <= n THEN n - m + 1 ELSE 0
        /\ \A i \in 1 .. n - m + 1 : SubSeq(o, m, n)[i] = o[m + i - 1]
    <3>1. n \in Int
      BY <1>1
    <3> QED
      BY <2>1, <2>2, <3>1, SubSeqProperties
  <2>4. n - m + 1 = n - k /\ (IF m <= n THEN n - m + 1 ELSE 0) = n - k
    BY <1>1, <1>10, <2>1
  <2>5. \A i \in 1 .. n - k : m + i - 1 = i + k
    BY <1>1, <1>10, <2>1
  <2>6. t = SubSeq(o, m, n)
    BY <1>9, <2>1
  <2> QED
    BY <2>3, <2>4, <2>5, <2>6
<1>12. ASSUME NEW i \in 1 .. n - k PROVE i + k \in 1 .. n /\ o[i + k] < RebootWindow
  <2>1. i + k \in 1 .. n /\ i + k > k
    BY <1>1, <1>10
  <2>2. i + k \notin old
    BY <1>1, <1>5, <1>10, <2>1
  <2>3. DOMAIN o = 1 .. n
    BY <1>3
  <2>4. ~(o[i + k] >= RebootWindow)
    BY <2>1, <2>2, <2>3
  <2> QED
    BY <1>1, <1>3, <2>1, <2>4, RecoveryNumbers
<1>13. \A i \in 1 .. n - k : t[i] = s[i + k] + 1 /\ t[i] \in Young
  <2>1. ASSUME NEW i \in 1 .. n - k PROVE t[i] = s[i + k] + 1 /\ t[i] \in Young
    <3>1. i + k \in 1 .. n /\ t[i] = s[i + k] + 1 /\ t[i] < RebootWindow
      BY <1>3, <1>11, <1>12
    <3> QED
      BY <1>1, <3>1, RecoveryNumbers DEF Young
  <2> QED
    BY <2>1
<1>14. t \in Seq(Young)
  BY <1>11, <1>13
<1>15. k > 0 => s[k] + 1 >= RebootWindow
  <2> SUFFICES ASSUME k > 0 PROVE s[k] + 1 >= RebootWindow
    OBVIOUS
  <2>1. k \in DOMAIN o /\ o[k] >= RebootWindow
    BY <1>5, <1>10
  <2> QED
    BY <1>3, <1>10, <2>1
<1> QED
  BY <1>2, <1>8, <1>9, <1>10, <1>11, <1>13, <1>14, <1>15 DEF n

Ticked(s) == Recovery!Prune(Recovery!AllOlder(s))

\* The records of attempts stay in order and stay those of the presses.
LEMMA RecordsTick ==
  ASSUME NEW r \in Seq(Young), Ordered(r)
  PROVE  /\ Ticked(r) \in Seq(Young) /\ Ordered(Ticked(r)) /\ Len(Ticked(r)) <= Len(r)
         /\ (Len(r) > 0 => r[Len(r)] >= Cooldown)
              => (Len(Ticked(r)) > 0 => Ticked(r)[Len(Ticked(r))] >= Cooldown)
         /\ \A p \in Seq(Young), n \in Nat : Matched(p, r, n) => Matched(Ticked(p), Ticked(r), n)
         /\ \A q \in Seq(Young) : Begins(q, r) => Begins(Ticked(q), Ticked(r))
<1>1. PICK b \in 0 .. Len(r), t \in Seq(Young) :
        /\ t = Ticked(r) /\ Len(t) = Len(r) - b
        /\ \A i \in 1 .. Len(t) : t[i] = r[i + b] + 1
        /\ b > 0 => r[b] + 1 >= RebootWindow
  BY TickIs DEF Ticked
<1>2. /\ Len(r) \in Nat /\ \A i \in 1 .. Len(r) : r[i] \in Nat /\ r[i] < RebootWindow
      /\ Len(t) \in Nat /\ \A i \in 1 .. Len(t) : t[i] \in Nat /\ t[i] < RebootWindow
  <2>1. \A x \in Young : x \in Nat /\ x < RebootWindow
    BY RecoveryNumbers DEF Young
  <2>2. \A s \in Seq(Young) : Len(s) \in Nat /\ \A i \in 1 .. Len(s) : s[i] \in Young
    OBVIOUS
  <2> QED
    BY <2>1, <2>2
<1>3. Ordered(t)
  <2> SUFFICES ASSUME NEW i \in 1 .. Len(t), NEW j \in 1 .. Len(t), i < j PROVE t[j] <= t[i]
    BY DEF Ordered
  <2>1. i + b \in 1 .. Len(r) /\ j + b \in 1 .. Len(r) /\ i + b < j + b
    BY <1>1, <1>2
  <2>2. r[j + b] <= r[i + b]
    BY <2>1 DEF Ordered
  <2> QED
    BY <1>1, <1>2, <2>1, <2>2
<1>4. ASSUME Len(r) > 0 => r[Len(r)] >= Cooldown, Len(t) > 0 PROVE t[Len(t)] >= Cooldown
  <2>1. Len(t) \in 1 .. Len(t) /\ Len(t) + b = Len(r) /\ Len(r) > 0
    BY <1>1, <1>2, <1>4
  <2> QED
    BY <1>1, <1>2, <1>4, <2>1, RecoveryNumbers
<1>5. ASSUME NEW p \in Seq(Young), NEW n \in Nat, Matched(p, r, n) PROVE Matched(Ticked(p), t, n)
  <2>1. PICK a \in 0 .. Len(p), s \in Seq(Young) :
          /\ s = Ticked(p) /\ Len(s) = Len(p) - a
          /\ \A i \in 1 .. Len(s) : s[i] = p[i + a] + 1
          /\ a > 0 => p[a] + 1 >= RebootWindow
    BY TickIs DEF Ticked
  <2>2. /\ Len(p) \in Nat /\ \A i \in 1 .. Len(p) : p[i] \in Nat /\ p[i] < RebootWindow
        /\ Len(s) \in Nat /\ \A i \in 1 .. Len(s) : s[i] \in Nat /\ s[i] < RebootWindow
    <3>1. \A x \in Young : x \in Nat /\ x < RebootWindow
      BY RecoveryNumbers DEF Young
    <3>2. \A q \in Seq(Young) : Len(q) \in Nat /\ \A i \in 1 .. Len(q) : q[i] \in Young
      OBVIOUS
    <3> QED
      BY <3>1, <3>2
  <2>3. /\ Len(p) <= Len(r) + n
        /\ \A i \in 1 .. Len(p), j \in 1 .. Len(r) : j = i + Len(r) + n - Len(p) => r[j] <= p[i]
    BY <1>5 DEF Matched
  <2>4. Len(s) <= Len(t) + n
    <3>1. CASE Len(s) = 0
      BY <1>2, <3>1
    <3>2. CASE Len(s) > 0
      <4>0. PICK j \in Int : j = a + 1 + Len(r) + n - Len(p)
        <5>1. a \in Int /\ Len(r) \in Int /\ n \in Int /\ Len(p) \in Int
          BY <1>2, <2>1, <2>2
        <5>2. \A w, x, y, z \in Int : w + 1 + x + y - z \in Int
          OBVIOUS
        <5>3. a + 1 + Len(r) + n - Len(p) \in Int
          BY <5>1, <5>2
        <5> QED
          BY <5>3
      <4>1. a + 1 \in 1 .. Len(p) /\ 1 \in 1 .. Len(s) /\ j \in Int /\ j >= a + 1
        BY <1>2, <2>1, <2>2, <2>3, <3>2, <4>0
      <4>2. s[1] = p[1 + a] + 1 /\ p[a + 1] + 1 < RebootWindow
        BY <2>1, <2>2, <4>1
      <4>3. b < j
        <5> SUFFICES ASSUME j <= b PROVE FALSE
          BY <1>2, <4>1
        <5>1. j \in 1 .. Len(r) /\ b \in 1 .. Len(r) /\ b > 0
          BY <1>1, <1>2, <4>1
        <5>2. r[j] <= p[a + 1]
          BY <2>3, <4>1, <4>0, <5>1
        <5>3. r[b] <= r[j]
          <6>1. CASE j = b
            BY <1>2, <5>1, <6>1
          <6>2. CASE j < b
            BY <5>1, <6>2 DEF Ordered
          <6>3. j = b \/ j < b
            BY <1>2, <4>1, <5>1
          <6> QED
            BY <6>1, <6>2, <6>3
        <5>4. r[b] + 1 >= RebootWindow /\ r[b] \in Nat /\ r[j] \in Nat /\ p[a + 1] \in Nat
          BY <1>1, <1>2, <2>2, <4>1, <5>1
        <5> QED
          BY SMTT(30), <4>2, <5>2, <5>3, <5>4, RecoveryNumbers
      <4> QED
        BY <1>1, <1>2, <2>1, <2>2, <4>3, <4>0
    <3> QED
      BY <2>2, <3>1, <3>2
  <2>5. ASSUME NEW i \in 1 .. Len(s), NEW j \in 1 .. Len(t), j = i + Len(t) + n - Len(s)
        PROVE  t[j] <= s[i]
    <3>1. /\ i + a \in 1 .. Len(p) /\ j + b \in 1 .. Len(r)
          /\ j + b = (i + a) + Len(r) + n - Len(p)
      BY <1>1, <1>2, <2>1, <2>2, <2>5
    <3>2. r[j + b] <= p[i + a]
      BY <2>3, <3>1
    <3> QED
      BY SMTT(30), <1>1, <1>2, <2>1, <2>2, <3>1, <3>2
  <2> QED
    BY <2>1, <2>4, <2>5 DEF Matched
<1>6. ASSUME NEW q \in Seq(Young), Begins(q, r) PROVE Begins(Ticked(q), t)
  <2>1. PICK a \in 0 .. Len(q), s \in Seq(Young) :
          /\ s = Ticked(q) /\ Len(s) = Len(q) - a
          /\ \A i \in 1 .. Len(s) : s[i] = q[i + a] + 1
          /\ a > 0 => q[a] + 1 >= RebootWindow
    BY TickIs DEF Ticked
  <2>2. /\ Len(q) \in Nat /\ Len(q) <= Len(r) /\ \A j \in 1 .. Len(q) : q[j] = r[j]
        /\ Len(s) \in Nat /\ \A i \in 1 .. Len(s) : s[i] \in Nat /\ s[i] < RebootWindow
    <3>1. \A x \in Young : x \in Nat /\ x < RebootWindow
      BY RecoveryNumbers DEF Young
    <3>2. \A z \in Seq(Young) : Len(z) \in Nat /\ \A i \in 1 .. Len(z) : z[i] \in Young
      OBVIOUS
    <3> QED
      BY <1>6, <3>1, <3>2 DEF Begins
  <2>3. CASE Len(s) = 0
    BY <1>2, <2>1, <2>3 DEF Begins
  <2>4. CASE Len(s) > 0
    <3>1. b <= a
      <4> SUFFICES ASSUME a < b PROVE FALSE
        BY <1>1, <2>1
      <4>1. b > 0 /\ b \in 1 .. Len(r) /\ r[b] + 1 >= RebootWindow
        BY <1>1, <1>2, <2>1
      \* The youngest of q is no younger than r[b], or is r[b] or a later one.
      <4>2. PICK m \in 1 .. Len(q) : m > a /\ (m = b \/ (m = Len(q) /\ m < b))
        <5>1. CASE b <= Len(q)
          BY <4>1, <5>1, <2>2
        <5>2. CASE Len(q) < b
          <6>1. Len(q) \in 1 .. Len(q) /\ Len(q) > a
            BY <2>1, <2>2, <2>4
          <6> QED
            BY <5>2, <6>1
        <5> QED
          BY <2>2, <4>1, <5>1, <5>2
      <4>3. m - a \in 1 .. Len(s) /\ m \in 1 .. Len(r)
        BY <1>2, <2>1, <2>2, <4>2
      <4>4. s[m - a] = q[m] + 1 /\ q[m] = r[m] /\ r[m] + 1 < RebootWindow
        <5>1. (m - a) + a = m
          BY <2>1, <4>2
        <5> QED
          BY <2>1, <2>2, <4>2, <4>3, <5>1
      <4>5. r[b] <= r[m]
        <5>1. CASE m = b
          BY <1>2, <4>1, <5>1
        <5>2. CASE m < b
          BY <4>1, <4>3, <5>2 DEF Ordered
        <5> QED
          BY <4>2, <5>1, <5>2
      <4>6. r[b] \in Nat /\ r[m] \in Nat
        BY <1>2, <4>1, <4>3
      <4> QED
        BY <4>1, <4>4, <4>5, <4>6, RecoveryNumbers
    <3>2. a <= b
      <4> SUFFICES ASSUME b < a PROVE FALSE
        BY <1>1, <2>1
      <4>1. a > 0 /\ a \in 1 .. Len(q) /\ a \in 1 .. Len(r) /\ a - b \in 1 .. Len(t)
        BY <1>1, <1>2, <2>1, <2>2
      <4>2. t[a - b] = r[a] + 1 /\ q[a] = r[a] /\ t[a - b] < RebootWindow
        <5>1. (a - b) + b = a
          BY <1>1, <2>1
        <5> QED
          BY <1>1, <1>2, <2>2, <4>1, <5>1
      <4>3. q[a] + 1 >= RebootWindow /\ r[a] \in Nat
        BY <1>2, <2>1, <4>1
      <4> QED
        BY <4>2, <4>3, RecoveryNumbers
    <3>3. a = b
      BY <1>1, <2>1, <3>1, <3>2
    <3>4. ASSUME NEW i \in 1 .. Len(s) PROVE s[i] = t[i]
      <4>1. i + a \in 1 .. Len(q) /\ i \in 1 .. Len(t)
        BY <1>1, <1>2, <2>1, <2>2, <3>3
      <4> QED
        BY <1>1, <2>1, <2>2, <3>3, <4>1
    <3>5. Len(s) <= Len(t)
      BY <1>1, <1>2, <2>1, <2>2, <3>3
    <3> QED
      BY <2>1, <3>4, <3>5 DEF Begins
  <2> QED
    BY <2>2, <2>3, <2>4
<1> QED
  BY <1>1, <1>2, <1>3, <1>4, <1>5, <1>6

\* Presses stay as far apart as they were.
LEMMA SpacedTick ==
  ASSUME NEW p \in Seq(Young), Spaced(p)
  PROVE  Ticked(p) \in Seq(Young) /\ Spaced(Ticked(p))
<1>1. PICK a \in 0 .. Len(p), s \in Seq(Young) :
        /\ s = Ticked(p) /\ Len(s) = Len(p) - a
        /\ \A i \in 1 .. Len(s) : s[i] = p[i + a] + 1
  BY TickIs DEF Ticked
<1>2. Len(p) \in Nat /\ Len(s) \in Nat /\ \A i \in 1 .. Len(p) : p[i] \in Nat
  BY RecoveryNumbers DEF Young
<1>3. ASSUME NEW i \in 1 .. Len(s) - 1 PROVE s[i] - s[i + 1] >= Cooldown
  <2>1. /\ i + a \in 1 .. Len(p) - 1 /\ i + a \in 1 .. Len(p) /\ (i + 1) + a = (i + a) + 1
        /\ (i + a) + 1 \in 1 .. Len(p) /\ i \in 1 .. Len(s) /\ i + 1 \in 1 .. Len(s)
    BY <1>1, <1>2
  <2>2. p[i + a] - p[(i + a) + 1] >= Cooldown
    BY <2>1 DEF Spaced
  <2>3. s[i] = p[i + a] + 1 /\ s[i + 1] = p[(i + a) + 1] + 1
    BY <1>1, <2>1
  <2> QED
    BY SMTT(30), <1>2, <2>1, <2>2, <2>3, RecoveryNumbers
<1> QED
  BY <1>1, <1>3 DEF Spaced

\* Something new at the end of a list of ages is younger than the rest.
LEMMA AppendIs ==
  ASSUME NEW s \in Seq(Young)
  PROVE  /\ Append(s, 0) \in Seq(Young) /\ Len(Append(s, 0)) = Len(s) + 1 /\ Len(s) \in Nat
         /\ Append(s, 0)[Len(s) + 1] = 0 /\ \A i \in 1 .. Len(s) : Append(s, 0)[i] = s[i] /\ s[i] \in Nat
<1>1. 0 \in Young /\ \A x \in Young : x \in Nat
  BY RecoveryNumbers DEF Young
<1> QED
  BY <1>1

\* An attempt goes on record: for the press that waits for it, or for none.
LEMMA MatchedRecord ==
  ASSUME NEW p \in Seq(Young), NEW r \in Seq(Young), NEW n \in Nat, Ordered(r), Matched(p, r, n + 1)
  PROVE  Matched(p, Append(r, 0), n) /\ Ordered(Append(r, 0))
<1>1. PICK q \in Seq(Young) : q = Append(r, 0)
  BY AppendIs
<1>2. /\ Len(q) = Len(r) + 1 /\ Len(r) \in Nat /\ Len(p) \in Nat
      /\ q[Len(r) + 1] = 0 /\ \A j \in 1 .. Len(r) : q[j] = r[j] /\ r[j] \in Nat
  BY <1>1, AppendIs
<1>3. \A i \in 1 .. Len(p) : p[i] \in Nat
  BY RecoveryNumbers DEF Young
<1>4. ASSUME NEW i \in 1 .. Len(p), NEW j \in 1 .. Len(q), j = i + Len(q) + n - Len(p) PROVE q[j] <= p[i]
  <2>1. CASE j = Len(r) + 1
    BY <1>2, <1>3, <2>1
  <2>2. CASE j # Len(r) + 1
    <3>1. j \in 1 .. Len(r) /\ j = i + Len(r) + (n + 1) - Len(p)
      BY <1>2, <1>4, <2>2
    <3>2. r[j] <= p[i]
      BY <3>1 DEF Matched
    <3> QED
      BY <1>2, <3>1, <3>2
  <2> QED
    BY <2>1, <2>2
<1>5. Len(p) <= Len(q) + n
  BY <1>2 DEF Matched
<1>6. ASSUME NEW i \in 1 .. Len(q), NEW j \in 1 .. Len(q), i < j PROVE q[j] <= q[i]
  <2>1. i \in 1 .. Len(r)
    BY <1>2, <1>6
  <2>2. CASE j = Len(r) + 1
    BY <1>2, <2>1, <2>2
  <2>3. CASE j # Len(r) + 1
    <3>1. j \in 1 .. Len(r)
      BY <1>2, <2>3
    <3>2. r[j] <= r[i]
      BY <1>6, <2>1, <3>1 DEF Ordered
    <3> QED
      BY <1>2, <2>1, <3>1, <3>2
  <2> QED
    BY <2>2, <2>3
<1> QED
  BY <1>1, <1>4, <1>5, <1>6 DEF Matched, Ordered

\* A press waits for its record.
LEMMA MatchedPress ==
  ASSUME NEW p \in Seq(Young), NEW r \in Seq(Young), NEW n \in Nat, Matched(p, r, n)
  PROVE  Matched(Append(p, 0), r, n + 1)
<1>1. PICK q \in Seq(Young) : q = Append(p, 0)
  BY AppendIs
<1>2. /\ Len(q) = Len(p) + 1 /\ Len(p) \in Nat /\ Len(r) \in Nat
      /\ \A i \in 1 .. Len(p) : q[i] = p[i]
  BY <1>1, AppendIs
<1>3. ASSUME NEW i \in 1 .. Len(q), NEW j \in 1 .. Len(r), j = i + Len(r) + (n + 1) - Len(q) PROVE r[j] <= q[i]
  <2>1. i \in 1 .. Len(p) /\ j = i + Len(r) + n - Len(p)
    BY <1>2, <1>3
  <2> QED
    BY <1>2, <2>1 DEF Matched
<1>4. Len(q) <= Len(r) + (n + 1)
  BY <1>2 DEF Matched
<1> QED
  BY <1>1, <1>3, <1>4 DEF Matched

\* An attempt that ended before its press may have a record too many.
LEMMA MatchedMore ==
  ASSUME NEW p \in Seq(Young), NEW r \in Seq(Young), NEW n \in Nat, Ordered(r), Matched(p, r, n)
  PROVE  Matched(p, r, n + 1)
<1>1. /\ Len(p) \in Nat /\ Len(r) \in Nat /\ \A i \in 1 .. Len(p) : p[i] \in Nat
      /\ \A j \in 1 .. Len(r) : r[j] \in Nat
  BY RecoveryNumbers DEF Young
<1>2. ASSUME NEW i \in 1 .. Len(p), NEW j \in 1 .. Len(r), j = i + Len(r) + (n + 1) - Len(p) PROVE r[j] <= p[i]
  <2>1. PICK k \in Int : k = j - 1
    OBVIOUS
  <2>2. k \in 1 .. Len(r) /\ k = i + Len(r) + n - Len(p) /\ k < j
    BY <1>1, <1>2, <2>1 DEF Matched
  <2>3. r[k] <= p[i] /\ r[j] <= r[k]
    BY <2>2 DEF Matched, Ordered
  <2> QED
    BY SMTT(30), <1>1, <2>2, <2>3
<1>3. Len(p) <= Len(r) + (n + 1)
  BY <1>1 DEF Matched
<1> QED
  BY <1>2, <1>3 DEF Matched

\* A restart reads the records of an earlier moment.
LEMMA MatchedForget ==
  ASSUME NEW p \in Seq(Young), NEW r \in Seq(Young), NEW q \in Seq(Young), NEW n \in Nat,
         Begins(q, r), Matched(p, r, n)
  PROVE  Matched(p, q, n + (Len(r) - Len(q))) /\ (Ordered(r) => Ordered(q))
<1>1. /\ Len(p) \in Nat /\ Len(r) \in Nat /\ Len(q) \in Nat /\ Len(q) <= Len(r)
      /\ \A j \in 1 .. Len(q) : q[j] = r[j]
  BY DEF Begins
<1>2. ASSUME NEW i \in 1 .. Len(p), NEW j \in 1 .. Len(q), j = i + Len(q) + (n + (Len(r) - Len(q))) - Len(p)
      PROVE  q[j] <= p[i]
  <2>1. j \in 1 .. Len(r) /\ j = i + Len(r) + n - Len(p)
    BY <1>1, <1>2
  <2> QED
    BY <1>1, <2>1 DEF Matched
<1>3. Len(p) <= Len(q) + (n + (Len(r) - Len(q)))
  BY <1>1 DEF Matched
<1>4. Ordered(r) => Ordered(q)
  BY <1>1 DEF Ordered
<1> QED
  BY <1>2, <1>3, <1>4 DEF Matched

LEMMA RecoveryInit == Recovery!Init => RecoveryInv
<1> SUFFICES ASSUME Recovery!Init PROVE RecoveryInv
  OBVIOUS
<1>1. /\ mem = [seen |-> -1, reboots |-> <<>>, since |-> 0] /\ disk = mem /\ presses = <<>> /\ forgotten = 0
      /\ tried = 0 /\ restarts = 0 /\ failedSaves = 0 /\ task = "none" /\ device = "absent"
      /\ active = FALSE /\ late = FALSE
  BY DEF Recovery!Init, Recovery!Fresh, Recovery!None
<1>2. [seen |-> -1, reboots |-> <<>>, since |-> 0] \in Books
  <2>1. -1 \in -1 .. Escalation /\ <<>> \in Seq(Young) /\ 0 \in 0 .. MinReboots
    BY RecoveryNumbers
  <2> QED
    BY <2>1 DEF Books
<1>3. RecoveryTypes
  <2>1. tried \in 0 .. MinReboots /\ forgotten \in Nat /\ restarts \in Nat /\ failedSaves \in Nat
    <3>1. tried = 0 /\ forgotten = 0 /\ restarts = 0 /\ failedSaves = 0
      BY <1>1
    <3> QED
      BY <3>1, RecoveryNumbers
  <2>2. presses \in Seq(Young) /\ mem \in Books /\ disk \in Books
    BY <1>1, <1>2
  <2>3. /\ device \in {"up", "wedged", "absent"} /\ active \in BOOLEAN /\ late \in BOOLEAN
        /\ task \in {"none", "pressing", "pressed", "failed"}
    BY <1>1
  <2> QED
    BY <2>1, <2>2, <2>3 DEF RecoveryTypes
<1>4. mem.reboots = <<>> /\ disk.reboots = <<>> /\ Len(<<>>) = 0
  BY <1>1
<1>5. Unrecorded = 0
  BY <1>1 DEF Unrecorded
<1>6. Recorded
  BY <1>1, <1>4, <1>5, RecoveryNumbers DEF Recorded, Ordered, Begins, Matched
<1>7. Cooled
  BY <1>1, <1>4 DEF Cooled, Spaced
<1> QED
  BY <1>3, <1>6, <1>7 DEF RecoveryInv

LEMMA RecoveryFacts ==
  ASSUME RecoveryInv
  PROVE  /\ RecoveryTypes /\ Recorded /\ Cooled
         /\ mem.reboots \in Seq(Young) /\ disk.reboots \in Seq(Young) /\ presses \in Seq(Young)
         /\ Len(mem.reboots) \in Nat /\ Len(disk.reboots) \in Nat /\ Len(presses) \in Nat
         /\ mem \in Books /\ disk \in Books /\ forgotten \in Nat /\ Unrecorded \in Nat
         /\ mem.seen \in -1 .. Escalation /\ mem.since \in 0 .. MinReboots
<1>1. RecoveryTypes /\ Recorded /\ Cooled
  BY DEF RecoveryInv
<1>2. mem \in Books /\ disk \in Books /\ presses \in Seq(Young) /\ forgotten \in Nat
  BY <1>1 DEF RecoveryTypes
<1>3. /\ mem.reboots \in Seq(Young) /\ disk.reboots \in Seq(Young)
      /\ mem.seen \in -1 .. Escalation /\ mem.since \in 0 .. MinReboots
  BY <1>2, BookIs
<1>4. \A s \in Seq(Young) : Len(s) \in Nat
  OBVIOUS
<1>5. Unrecorded \in Nat
  BY <1>2 DEF Unrecorded
<1> QED
  BY <1>1, <1>2, <1>3, <1>4, <1>5

\* The device comes, wedges and goes; a dead connection is noticed.
LEMMA WorldRecovers ==
  ASSUME RecoveryInv, Recovery!Connects \/ Recovery!Leaves \/ Recovery!Reaped
  PROVE  RecoveryInv'
<1>1. /\ device' \in {"up", "wedged", "absent"} /\ active' \in BOOLEAN
      /\ UNCHANGED <<mem, disk, task, late, presses, forgotten, tried, restarts, failedSaves>>
  BY RecoveryFacts DEF Recovery!Connects, Recovery!Leaves, Recovery!Reaped, RecoveryTypes
<1>2. RecoveryTypes'
  BY <1>1, RecoveryFacts DEF RecoveryTypes
<1>3. Recorded' /\ Cooled'
  BY <1>1, RecoveryFacts DEF Recorded, Cooled, Unrecorded
<1> QED
  BY <1>2, <1>3 DEF RecoveryInv

\* A book a tick later.
LEMMA BookTick ==
  ASSUME NEW r \in Books
  PROVE  /\ Recovery!Aged(r) \in Books /\ Recovery!Aged(r).reboots = Ticked(r.reboots)
         /\ Recovery!Aged(r).seen = Recovery!Older(r.seen) /\ Recovery!Aged(r).since = r.since
         /\ Recovery!MarkSeen(Recovery!Aged(r)) \in Books
         /\ Recovery!MarkSeen(Recovery!Aged(r)).reboots = Ticked(r.reboots)
         /\ Recovery!MarkSeen(Recovery!Aged(r)).seen = 0 /\ Recovery!MarkSeen(Recovery!Aged(r)).since = 0
<1>1. r.seen \in -1 .. Escalation /\ r.reboots \in Seq(Young) /\ r.since \in 0 .. MinReboots
  BY BookIs
<1>2. Ticked(r.reboots) \in Seq(Young)
  BY <1>1, TickIs DEF Ticked
<1>3. Recovery!Older(r.seen) \in -1 .. Escalation /\ 0 \in -1 .. Escalation /\ 0 \in 0 .. MinReboots
  BY <1>1, RecoveryNumbers DEF Recovery!Older
<1>4. Recovery!Aged(r) = [r EXCEPT !.seen = Recovery!Older(r.seen), !.reboots = Ticked(r.reboots)]
  BY DEF Recovery!Aged, Ticked
<1>5. /\ Recovery!Aged(r) \in Books /\ Recovery!Aged(r).reboots = Ticked(r.reboots)
      /\ Recovery!Aged(r).seen = Recovery!Older(r.seen) /\ Recovery!Aged(r).since = r.since
  BY <1>1, <1>2, <1>3, <1>4 DEF Books
<1>6. PICK a \in Books : a = Recovery!Aged(r)
  BY <1>5
<1>7. /\ [a EXCEPT !.seen = 0, !.since = 0] \in Books
      /\ [a EXCEPT !.seen = 0, !.since = 0].reboots = a.reboots
      /\ [a EXCEPT !.seen = 0, !.since = 0].seen = 0 /\ [a EXCEPT !.seen = 0, !.since = 0].since = 0
  BY <1>3 DEF Books
<1> QED
  BY <1>5, <1>6, <1>7 DEF Recovery!MarkSeen

LEMMA UpToIs ==
  ASSUME NEW n \in Nat, NEW a \in Nat
  PROVE  Recovery!UpTo(n, a) \in 0 .. n /\ (a <= n => Recovery!UpTo(n, a) = a)
BY DEF Recovery!UpTo

\* A tick of the health loop: everything is a tick older, and a reboot is scheduled only
\* where the budget has room and the last attempt has cooled.
LEMMA TickRecovers ==
  ASSUME RecoveryInv, Recovery!HealthTick
  PROVE  RecoveryInv'
<1>0. /\ mem.reboots \in Seq(Young) /\ disk.reboots \in Seq(Young) /\ presses \in Seq(Young)
      /\ mem \in Books /\ disk \in Books /\ Unrecorded \in Nat /\ RecoveryTypes /\ Recorded /\ Cooled
      /\ Len(mem.reboots) \in Nat
  BY RecoveryFacts
<1>1. /\ presses' = Ticked(presses) /\ UNCHANGED <<device, active, forgotten, restarts>>
      /\ late' = (task # "none")
  BY DEF Recovery!HealthTick, Ticked
<1>2. /\ mem' \in {Recovery!MarkSeen(Recovery!Aged(mem)), Recovery!Aged(mem)}
      /\ disk' \in {mem', Recovery!Aged(disk)} /\ failedSaves' \in Nat
  <2>1. CASE active
    BY <1>0, <2>1 DEF Recovery!HealthTick, Recovery!Save, RecoveryTypes
  <2>2. CASE ~active
    BY <1>0, <2>2 DEF Recovery!HealthTick, RecoveryTypes
  <2> QED
    BY <2>1, <2>2
<1>3. \/ task' = task
      \/ task = "none" /\ task' = "pressing" /\ Recovery!CanReboot(mem')
  BY DEF Recovery!HealthTick, Recovery!ShouldReboot
<1>4. tried' \in 0 .. MinReboots
  <2>1. Recovery!UpTo(MinReboots, tried + 1) \in 0 .. MinReboots /\ 0 \in 0 .. MinReboots
    <3>1. tried + 1 \in Nat
      BY <1>0, RecoveryNumbers DEF RecoveryTypes
    <3> QED
      BY <3>1, UpToIs, RecoveryNumbers
  <2> QED
    BY <1>0, <2>1 DEF Recovery!HealthTick, RecoveryTypes
<1>5. /\ mem' \in Books /\ disk' \in Books /\ mem'.reboots = Ticked(mem.reboots)
      /\ disk'.reboots \in {Ticked(mem.reboots), Ticked(disk.reboots)}
  BY <1>0, <1>2, BookTick
<1>6. PICK r \in Seq(Young) : r = Ticked(mem.reboots)
  BY <1>0, RecordsTick DEF Recorded
<1>7. /\ Ordered(r) /\ Len(r) <= Len(mem.reboots) /\ Matched(presses', r, Unrecorded)
      /\ Begins(disk'.reboots, r) /\ Len(r) \in Nat
  <2>1. Ordered(r) /\ Len(r) <= Len(mem.reboots) /\ Matched(Ticked(presses), r, Unrecorded)
    BY <1>0, <1>6, RecordsTick DEF Recorded
  <2>2. Begins(Ticked(disk.reboots), r)
    BY <1>0, <1>6, RecordsTick DEF Recorded
  <2>3. Begins(r, r) /\ Len(r) \in Nat
    BY DEF Begins
  <2> QED
    BY <1>1, <1>5, <1>6, <2>1, <2>2, <2>3
<1>8. RecoveryTypes'
  <2>1. presses' \in Seq(Young)
    BY <1>0, <1>1, TickIs DEF Ticked
  <2>2. late' \in BOOLEAN /\ task' \in {"none", "pressing", "pressed", "failed"}
    BY <1>0, <1>1, <1>3 DEF RecoveryTypes
  <2> QED
    BY <1>0, <1>1, <1>2, <1>4, <1>5, <2>1, <2>2 DEF RecoveryTypes
<1>9. Unrecorded' = Unrecorded
  BY <1>1, <1>3 DEF Unrecorded
<1>10. Recovery!CanReboot(mem') => /\ Len(r) < MaxPerWindow
                                   /\ Len(r) > 0 => r[Len(r)] >= Cooldown
  <2>1. Len(<<>>) = 0
    OBVIOUS
  <2> QED
    BY <1>5, <1>6, <2>1 DEF Recovery!CanReboot
<1>11. Recorded'
  <2>1. Len(r) <= MaxPerWindow
    BY <1>0, <1>7, RecoveryNumbers DEF Recorded
  <2>2. task' # "none" => Len(r) < MaxPerWindow
    BY <1>0, <1>3, <1>7, <1>10, RecoveryNumbers DEF Recorded
  <2> QED
    BY <1>5, <1>6, <1>7, <1>9, <2>1, <2>2 DEF Recorded
<1>12. Cooled'
  <2>1. forgotten' = 0 => Spaced(presses')
    BY <1>0, <1>1, SpacedTick DEF Cooled
  <2>2. task' = "pressing" /\ Len(r) > 0 => r[Len(r)] >= Cooldown
    <3>1. CASE task' = task /\ task = "pressing"
      <4>1. Len(mem.reboots) > 0 => mem.reboots[Len(mem.reboots)] >= Cooldown
        BY <1>0, <3>1 DEF Cooled
      <4> QED
        BY <1>0, <1>6, <4>1, RecordsTick DEF Recorded
    <3> QED
      BY <1>3, <1>10, <3>1
  <2> QED
    BY <1>5, <1>6, <2>1, <2>2 DEF Cooled
<1> QED
  BY <1>8, <1>11, <1>12 DEF RecoveryInv

\* The press, or an attempt that ended without one.
LEMMA PressRecovers ==
  ASSUME RecoveryInv, Recovery!Press \/ Recovery!PressFails
  PROVE  RecoveryInv'
<1>0. /\ mem.reboots \in Seq(Young) /\ presses \in Seq(Young) /\ Unrecorded \in Nat /\ forgotten \in Nat
      /\ RecoveryTypes /\ Recorded /\ Cooled /\ Len(mem.reboots) \in Nat /\ Len(presses) \in Nat
  BY RecoveryFacts
<1>1. /\ task = "pressing" /\ task' \in {"pressed", "failed"}
      /\ presses' \in {presses, Append(presses, 0)} /\ device' \in {"up", "wedged", "absent"}
      /\ UNCHANGED <<late, active, mem, disk, forgotten, tried, restarts, failedSaves>>
  BY <1>0 DEF Recovery!Press, Recovery!PressFails, RecoveryTypes
<1>2. Unrecorded = forgotten /\ Unrecorded' = Unrecorded + 1
  BY <1>0, <1>1 DEF Unrecorded
<1>3. Append(presses, 0) \in Seq(Young)
  BY <1>0, AppendIs
<1>4. RecoveryTypes'
  BY <1>0, <1>1, <1>3 DEF RecoveryTypes
<1>5. Matched(presses', mem.reboots, Unrecorded + 1)
  BY <1>0, <1>1, MatchedPress, MatchedMore DEF Recorded
<1>6. Recorded'
  BY <1>0, <1>1, <1>2, <1>5 DEF Recorded
<1>7. forgotten = 0 => Spaced(presses')
  <2> SUFFICES ASSUME forgotten = 0, presses' = Append(presses, 0) PROVE Spaced(presses')
    BY <1>0, <1>1 DEF Cooled
  <2>1. PICK q \in Seq(Young) : q = Append(presses, 0)
    BY <1>3
  <2>2. /\ Len(q) = Len(presses) + 1 /\ q[Len(presses) + 1] = 0
        /\ \A i \in 1 .. Len(presses) : q[i] = presses[i] /\ presses[i] \in Nat
    BY <1>0, <2>1, AppendIs
  <2>3. ASSUME NEW i \in 1 .. Len(q) - 1 PROVE q[i] - q[i + 1] >= Cooldown
    <3>1. CASE i + 1 <= Len(presses)
      <4>1. i \in 1 .. Len(presses) - 1 /\ i \in 1 .. Len(presses) /\ i + 1 \in 1 .. Len(presses)
        BY <1>0, <3>1
      <4>2. presses[i] - presses[i + 1] >= Cooldown
        BY <1>0, <4>1 DEF Cooled, Spaced
      <4> QED
        BY <2>2, <4>1, <4>2
    <3>2. CASE ~(i + 1 <= Len(presses))
      <4>1. i = Len(presses) /\ i \in 1 .. Len(presses)
        BY <1>0, <2>2, <3>2
      <4>2. Len(mem.reboots) > 0 /\ Len(mem.reboots) \in 1 .. Len(mem.reboots)
        BY <1>0, <1>2, <4>1 DEF Recorded, Matched
      <4>3. mem.reboots[Len(mem.reboots)] <= presses[i]
        <5>1. Len(mem.reboots) = i + Len(mem.reboots) + Unrecorded - Len(presses)
          <6>1. Unrecorded = 0
            BY <1>2
          <6>2. \A a, b \in Nat : a = b + a + 0 - b
            OBVIOUS
          <6>3. Len(mem.reboots) = Len(presses) + Len(mem.reboots) + 0 - Len(presses)
            BY <1>0, <6>2
          <6> QED
            BY <4>1, <6>1, <6>3
        <5> QED
          BY <1>0, <4>1, <4>2, <5>1 DEF Recorded, Matched
      <4>4. mem.reboots[Len(mem.reboots)] >= Cooldown /\ mem.reboots[Len(mem.reboots)] \in Nat
        <5>1. mem.reboots[Len(mem.reboots)] >= Cooldown
          BY <1>0, <1>1, <4>2 DEF Cooled
        <5>2. PICK s \in Seq(Young) : s = mem.reboots
          BY <1>0
        <5>3. s[Len(s)] \in Young
          BY <4>2, <5>2
        <5> QED
          BY <5>1, <5>2, <5>3, RecoveryNumbers DEF Young
      <4>5. q[i + 1] = 0 /\ q[i] = presses[i] /\ presses[i] \in Nat
        BY <2>2, <4>1
      <4> QED
        BY <4>3, <4>4, <4>5, RecoveryNumbers
    <3> QED
      BY <3>1, <3>2
  <2> QED
    BY <2>1, <2>3 DEF Spaced
<1>8. Cooled'
  BY <1>1, <1>7 DEF Cooled
<1> QED
  BY <1>4, <1>6, <1>8 DEF RecoveryInv

\* The attempt goes on record.
LEMMA RecordRecovers ==
  ASSUME RecoveryInv, Recovery!Record
  PROVE  RecoveryInv'
<1>0. /\ mem.reboots \in Seq(Young) /\ disk.reboots \in Seq(Young) /\ presses \in Seq(Young)
      /\ Unrecorded \in Nat /\ forgotten \in Nat /\ mem \in Books /\ disk \in Books
      /\ RecoveryTypes /\ Recorded /\ Cooled /\ Len(mem.reboots) \in Nat /\ mem.since \in 0 .. MinReboots
      /\ Len(disk.reboots) \in Nat
  BY RecoveryFacts
<1>1. /\ task \in {"pressed", "failed"} /\ task' = "none" /\ late' = FALSE
      /\ mem' = Recovery!RecordReboot(mem) /\ disk' \in {mem', disk} /\ failedSaves' \in Nat
      /\ UNCHANGED <<device, active, presses, forgotten, tried, restarts>>
  BY <1>0 DEF Recovery!Record, Recovery!Save, RecoveryTypes
<1>2. PICK s \in Seq(Young) : s = Append(mem.reboots, 0)
  BY <1>0, AppendIs
<1>3. /\ Len(s) = Len(mem.reboots) + 1 /\ \A j \in 1 .. Len(mem.reboots) : s[j] = mem.reboots[j]
  BY <1>0, <1>2, AppendIs
<1>4. PICK n \in 0 .. MinReboots : n = Recovery!UpTo(MinReboots, mem.since + 1)
  <2>1. mem.since + 1 \in Nat
    BY <1>0, RecoveryNumbers
  <2> QED
    BY <2>1, UpToIs, RecoveryNumbers
<1>5. mem' = [mem EXCEPT !.reboots = s, !.since = n]
  BY <1>1, <1>2, <1>4 DEF Recovery!RecordReboot
<1>6. mem' \in Books /\ mem'.reboots = s /\ disk' \in Books
  BY <1>0, <1>1, <1>5 DEF Books
<1>7. RecoveryTypes'
  BY <1>0, <1>1, <1>6 DEF RecoveryTypes
<1>8. Unrecorded = Unrecorded' + 1 /\ Unrecorded' \in Nat
  BY <1>0, <1>1 DEF Unrecorded
<1>9. PICK u \in Nat : u = Unrecorded' /\ Unrecorded = u + 1
  BY <1>8
<1>10. Ordered(mem.reboots) /\ Matched(presses, mem.reboots, u + 1)
  BY <1>0, <1>9 DEF Recorded
<1>11. Matched(presses, s, u) /\ Ordered(s)
  BY <1>0, <1>2, <1>10, MatchedRecord
<1>12. Begins(s, s) /\ Begins(disk.reboots, s)
  BY <1>0, <1>3 DEF Recorded, Begins
<1>13. Len(s) <= MaxPerWindow
  BY <1>0, <1>1, <1>3, RecoveryNumbers DEF Recorded
<1>14. Recorded'
  BY <1>1, <1>6, <1>9, <1>11, <1>12, <1>13 DEF Recorded
<1>15. Cooled'
  BY <1>0, <1>1 DEF Cooled
<1> QED
  BY <1>7, <1>14, <1>15 DEF RecoveryInv

\* The bridge restarts with the book of its file.
LEMMA RestartRecovers ==
  ASSUME RecoveryInv, Recovery!Restart
  PROVE  RecoveryInv'
<1>0. /\ mem.reboots \in Seq(Young) /\ disk.reboots \in Seq(Young) /\ presses \in Seq(Young)
      /\ Unrecorded \in Nat /\ forgotten \in Nat /\ mem \in Books /\ disk \in Books
      /\ RecoveryTypes /\ Recorded /\ Cooled /\ Len(mem.reboots) \in Nat /\ Len(disk.reboots) \in Nat
  BY RecoveryFacts
<1>1. /\ restarts' \in Nat /\ mem' = disk /\ active' = FALSE /\ task' = "none" /\ late' = FALSE
      /\ device' \in {"up", "wedged", "absent"} /\ UNCHANGED <<disk, presses, tried, failedSaves>>
      /\ forgotten' = forgotten + (IF task \in {"pressed", "failed"} THEN 1 ELSE 0)
                      + (IF Len(mem.reboots) > Len(disk.reboots)
                         THEN Len(mem.reboots) - Len(disk.reboots) ELSE 0)
  BY <1>0 DEF Recovery!Restart, RecoveryTypes
<1>2. Begins(disk.reboots, mem.reboots) /\ Len(disk.reboots) <= Len(mem.reboots)
  BY <1>0 DEF Recorded, Begins
<1>3. /\ forgotten' = Unrecorded + (Len(mem.reboots) - Len(disk.reboots)) /\ forgotten' \in Nat
      /\ forgotten' >= forgotten
  <2>1. PICK x \in {0, 1} : x = IF task \in {"pressed", "failed"} THEN 1 ELSE 0
    OBVIOUS
  <2>2. PICK y \in Nat : /\ y = IF Len(mem.reboots) > Len(disk.reboots)
                                THEN Len(mem.reboots) - Len(disk.reboots) ELSE 0
                         /\ y = Len(mem.reboots) - Len(disk.reboots)
    <3>1. \A a, b \in Nat : b <= a => (IF a > b THEN a - b ELSE 0) = a - b /\ a - b \in Nat
      OBVIOUS
    <3> QED
      BY <1>0, <1>2, <3>1
  <2>3. forgotten' = forgotten + x + y
    BY <1>1, <2>1, <2>2
  <2>4. Unrecorded = forgotten + x
    BY <2>1 DEF Unrecorded
  <2>5. forgotten + x + y \in Nat /\ forgotten + x + y >= forgotten
    <3>1. \A a, b, c \in Nat : a + b + c \in Nat /\ a + b + c >= a
      OBVIOUS
    <3>2. x \in Nat
      BY <2>1
    <3> QED
      BY <1>0, <2>2, <3>1, <3>2
  <2> QED
    BY <2>2, <2>3, <2>4, <2>5
<1>4. Unrecorded' = forgotten'
  <2>1. Unrecorded' = forgotten' + 0
    BY <1>1 DEF Unrecorded
  <2>2. \A x \in Nat : x + 0 = x
    OBVIOUS
  <2> QED
    BY <1>3, <2>1, <2>2
<1>5. RecoveryTypes'
  BY <1>0, <1>1, <1>3 DEF RecoveryTypes
<1>6. Matched(presses, disk.reboots, forgotten') /\ Ordered(disk.reboots)
  BY <1>0, <1>2, <1>3, MatchedForget DEF Recorded
<1>7. Begins(disk.reboots, disk.reboots) /\ Len(disk.reboots) <= MaxPerWindow
  BY <1>0, <1>2, RecoveryNumbers DEF Begins, Recorded
<1>8. Recorded'
  BY <1>1, <1>4, <1>6, <1>7 DEF Recorded
<1>9. forgotten' = 0 => forgotten = 0
  <2>1. \A x, y \in Nat : y >= x /\ y = 0 => x = 0
    OBVIOUS
  <2> QED
    BY <1>0, <1>3, <2>1
<1>10. Cooled'
  BY <1>0, <1>1, <1>9 DEF Cooled
<1> QED
  BY <1>5, <1>8, <1>10 DEF RecoveryInv

LEMMA RecoveryStep == RecoveryInv /\ [Recovery!Next]_recoveryVars => RecoveryInv'
<1> SUFFICES ASSUME RecoveryInv, [Recovery!Next]_recoveryVars PROVE RecoveryInv'
  OBVIOUS
<1>1. CASE Recovery!Next
  <2>1. CASE Recovery!Connects \/ Recovery!Leaves \/ Recovery!Reaped
    BY <2>1, WorldRecovers
  <2>2. CASE Recovery!HealthTick
    BY <2>2, TickRecovers
  <2>3. CASE Recovery!Press \/ Recovery!PressFails
    BY <2>3, PressRecovers
  <2>4. CASE Recovery!Record
    BY <2>4, RecordRecovers
  <2>5. CASE Recovery!Restart
    BY <2>5, RestartRecovers
  <2> QED
    BY <1>1, <2>1, <2>2, <2>3, <2>4, <2>5 DEF Recovery!Next
<1>2. CASE UNCHANGED recoveryVars
  BY <1>2 DEF recoveryVars, RecoveryInv, RecoveryTypes, Recorded, Cooled, Unrecorded
<1> QED
  BY <1>1, <1>2

LEMMA RecoverySuffices == RecoveryInv => Recovery!TypeOK /\ Recovery!PressBudget
<1> SUFFICES ASSUME RecoveryInv PROVE Recovery!TypeOK /\ Recovery!PressBudget
  OBVIOUS
<1>0. /\ RecoveryTypes /\ Recorded /\ Cooled /\ mem \in Books /\ disk \in Books
      /\ Len(mem.reboots) \in Nat /\ Len(disk.reboots) \in Nat /\ Len(presses) \in Nat /\ forgotten \in Nat
  BY RecoveryFacts
<1>1. Recovery!TypeOK
  <2>1. \A r \in {mem, disk} : r.seen \in -1 .. Escalation /\ r.since \in 0 .. MinReboots
    BY <1>0, BookIs
  <2>2. Len(mem.reboots) <= MaxPerWindow /\ Len(disk.reboots) <= MaxPerWindow
    BY <1>0, RecoveryNumbers DEF Recorded, Begins
  <2> QED
    BY <1>0, <2>1, <2>2 DEF RecoveryTypes, Recovery!TypeOK
<1>2. Len(presses) <= MaxPerWindow + forgotten
  <2>1. Len(presses) <= Len(mem.reboots) + Unrecorded
    BY <1>0 DEF Recorded, Matched
  <2>2. CASE task = "none"
    BY <1>0, <2>1, <2>2, RecoveryNumbers DEF Recorded, Unrecorded
  <2>3. CASE task # "none"
    <3>1. Unrecorded \in {forgotten, forgotten + 1}
      BY <1>0 DEF Unrecorded
    <3> QED
      BY <1>0, <2>1, <2>3, <3>1, RecoveryNumbers DEF Recorded
  <2> QED
    BY <2>2, <2>3
<1>3. forgotten = 0 => \A i \in 1 .. Len(presses) - 1 : presses[i] - presses[i + 1] >= Cooldown
  BY <1>0 DEF Cooled, Spaced
<1> QED
  BY <1>1, <1>2, <1>3 DEF Recovery!PressBudget

(* The page: at least one attempt since the device was last seen, where one is enough. *)

\* Nothing was tried since the device was last seen: an attempt under way is one that was
\* overtaken by the device coming back, and so is the one on record, with all the others.
FailInv ==
  /\ failedSaves = 0 => disk = mem
  /\ tried = 0 /\ task # "none" => late /\ mem.seen = 0
  /\ failedSaves = 0 /\ tried = 0 /\ mem.since >= 1 =>
       /\ mem.seen >= 0 /\ (mem.seen < RebootWindow \/ mem.seen < DarkAfter)
       /\ \A j \in 1 .. Len(mem.reboots) : mem.reboots[j] >= mem.seen

LEMMA FailInit == Recovery!Init => FailInv
BY DEF Recovery!Init, Recovery!Fresh, FailInv

LEMMA FailTick ==
  ASSUME DarkAfter <= SeenWindow, RebootWindow <= SeenWindow, SeenWindow < Escalation, MinReboots = 1,
         RecoveryInv, FailInv, Recovery!HealthTick
  PROVE  FailInv'
<1>0. /\ RecoveryTypes /\ mem \in Books /\ disk \in Books /\ mem.reboots \in Seq(Young)
      /\ mem.seen \in -1 .. Escalation /\ mem.since \in 0 .. MinReboots /\ Len(mem.reboots) \in Nat
      /\ tried \in 0 .. MinReboots
  BY RecoveryFacts DEF RecoveryTypes
<1>1. ~late /\ late' = (task # "none") /\ failedSaves \in Nat
  BY <1>0 DEF Recovery!HealthTick, RecoveryTypes
<1>2. CASE active
  <2>1. /\ mem' = Recovery!MarkSeen(Recovery!Aged(mem)) /\ tried' = 0 /\ task' = task
        /\ Recovery!Save(mem', Recovery!Aged(disk))
    BY <1>2 DEF Recovery!HealthTick
  <2>2. mem'.seen = 0 /\ mem'.since = 0
    BY <1>0, <2>1, BookTick
  <2>3. failedSaves' = 0 => disk' = mem'
    BY <1>1, <2>1 DEF Recovery!Save
  <2>4. ~(mem'.since >= 1)
    BY <2>2
  <2>5. task' # "none" => late' /\ mem'.seen = 0
    BY <1>1, <2>1, <2>2
  <2> QED
    BY <2>3, <2>4, <2>5 DEF FailInv
<1>3. CASE ~active
  <2>1. /\ mem' = Recovery!Aged(mem) /\ disk' = Recovery!Aged(disk) /\ failedSaves' = failedSaves
        /\ active' = active
        /\ task = "none" /\ Recovery!ShouldReboot(mem') => tried' = Recovery!UpTo(MinReboots, tried + 1)
        /\ ~(task = "none" /\ Recovery!ShouldReboot(mem')) => task' = task /\ tried' = tried
    BY <1>3 DEF Recovery!HealthTick
  <2>2. Recovery!UpTo(MinReboots, tried + 1) # 0
    BY <1>0 DEF Recovery!UpTo
  <2>3. tried' = 0 => ~(task = "none" /\ Recovery!ShouldReboot(mem')) /\ tried = 0 /\ task' = "none" /\ task = "none"
    BY <1>1, <2>1, <2>2 DEF FailInv
  <2>4. ASSUME failedSaves' = 0, tried' = 0, mem'.since >= 1
        PROVE  /\ mem'.seen >= 0 /\ (mem'.seen < RebootWindow \/ mem'.seen < DarkAfter)
               /\ \A j \in 1 .. Len(mem'.reboots) : mem'.reboots[j] >= mem'.seen
    <3>1. /\ mem'.reboots = Ticked(mem.reboots) /\ mem'.since = mem.since
          /\ mem'.seen = Recovery!Older(mem.seen)
      BY <1>0, <2>1, BookTick
    <3>2. /\ mem.seen >= 0 /\ (mem.seen < RebootWindow \/ mem.seen < DarkAfter)
          /\ \A j \in 1 .. Len(mem.reboots) : mem.reboots[j] >= mem.seen
      BY <2>1, <2>3, <2>4, <3>1 DEF FailInv
    <3>3. PICK n \in Nat : n = mem.seen + 1 /\ n = mem'.seen /\ n <= SeenWindow
      <4>1. mem.seen < Escalation /\ mem.seen \in Nat /\ mem.seen + 1 <= SeenWindow
        BY <1>0, <3>2, RecoveryNumbers
      <4>2. Recovery!Older(mem.seen) = mem.seen + 1
        BY <4>1, RecoveryNumbers DEF Recovery!Older
      <4> QED
        BY <3>1, <4>1, <4>2
    <3>4. PICK k \in 0 .. Len(mem.reboots), t \in Seq(Young) :
            /\ t = mem'.reboots /\ Len(t) = Len(mem.reboots) - k
            /\ \A i \in 1 .. Len(t) : t[i] = mem.reboots[i + k] + 1
      <4>1. PICK q \in Seq(Young) : q = mem.reboots
        BY <1>0
      <4>2. PICK k \in 0 .. Len(q), t \in Seq(Young) :
              /\ t = Ticked(q) /\ Len(t) = Len(q) - k
              /\ \A i \in 1 .. Len(t) : t[i] = q[i + k] + 1
        BY TickIs DEF Ticked
      <4>3. t = mem'.reboots /\ k \in 0 .. Len(mem.reboots) /\ Len(t) = Len(mem.reboots) - k
        BY <3>1, <4>1, <4>2
      <4>4. \A i \in 1 .. Len(t) : t[i] = mem.reboots[i + k] + 1
        BY <4>1, <4>2
      <4> QED
        BY <4>3, <4>4
    <3>5. \A i \in 1 .. Len(mem.reboots) : mem.reboots[i] \in Nat
      BY <1>0, RecoveryNumbers DEF Young
    <3>6. ASSUME NEW j \in 1 .. Len(t) PROVE t[j] >= n /\ t[j] < RebootWindow
      <4>1. j + k \in 1 .. Len(mem.reboots)
        BY <1>0, <3>4
      <4>2. t[j] \in Young
        OBVIOUS
      <4>3. mem.reboots[j + k] \in Nat /\ mem.reboots[j + k] >= mem.seen
        BY <3>2, <3>5, <4>1
      <4>4. t[j] = mem.reboots[j + k] + 1
        BY <3>4
      <4>5. \A a, b \in Nat : a >= b => a + 1 >= b + 1
        OBVIOUS
      <4>6. mem.seen \in Nat
        BY <1>0, <3>2, RecoveryNumbers
      <4>7. t[j] >= n
        BY <3>3, <4>3, <4>4, <4>5, <4>6
      <4> QED
        BY <4>2, <4>7, RecoveryNumbers DEF Young
    <3>7. n < RebootWindow \/ n < DarkAfter
      <4> SUFFICES ASSUME n >= RebootWindow, n >= DarkAfter PROVE FALSE
        BY RecoveryNumbers
      <4>1. Len(t) = 0
        <5>1. Len(t) > 0 => 1 \in 1 .. Len(t)
          OBVIOUS
        <5>2. Len(t) > 0 => t[1] >= n /\ t[1] < RebootWindow /\ t[1] \in Nat
          BY <3>6, <5>1, RecoveryNumbers DEF Young
        <5>3. Len(t) \in Nat
          OBVIOUS
        <5> QED
          BY <5>2, <5>3, RecoveryNumbers
      <4>2. t = <<>>
        BY <4>1
      <4>3. Recovery!CanReboot(mem')
        BY <3>4, <4>1, <4>2, RecoveryNumbers DEF Recovery!CanReboot
      <4>4. n \in DarkAfter .. SeenWindow /\ n # -1
        BY <3>3, RecoveryNumbers
      <4>5. Recovery!ShouldReboot(mem')
        BY <1>3, <3>3, <4>3, <4>4, RecoveryNumbers DEF Recovery!ShouldReboot
      <4> QED
        BY <2>3, <2>4, <4>5
    <3>8. n >= 0
      OBVIOUS
    <3> QED
      BY <3>3, <3>4, <3>6, <3>7, <3>8
  <2>5. failedSaves' = 0 => disk' = mem'
    BY <2>1 DEF FailInv
  <2> QED
    BY <2>3, <2>4, <2>5 DEF FailInv
<1> QED
  BY <1>2, <1>3

LEMMA FailStep ==
  ASSUME DarkAfter <= SeenWindow, RebootWindow <= SeenWindow, SeenWindow < Escalation, MinReboots = 1,
         RecoveryInv, FailInv, [Recovery!Next]_recoveryVars
  PROVE  FailInv'
<1>0. /\ mem.reboots \in Seq(Young) /\ mem \in Books /\ failedSaves \in Nat /\ Len(mem.reboots) \in Nat
  BY RecoveryFacts DEF RecoveryTypes
<1>1. CASE Recovery!HealthTick
  BY <1>1, FailTick
<1>2. CASE Recovery!Connects \/ Recovery!Leaves \/ Recovery!Reaped
  BY <1>2 DEF FailInv, Recovery!Connects, Recovery!Leaves, Recovery!Reaped
<1>3. CASE Recovery!Press \/ Recovery!PressFails
  <2>1. task = "pressing" /\ UNCHANGED <<late, mem, disk, tried, failedSaves>>
    BY <1>3 DEF Recovery!Press, Recovery!PressFails
  <2> QED
    BY <2>1 DEF FailInv
<1>4. CASE Recovery!Record
  <2>1. /\ task # "none" /\ task' = "none" /\ mem' = Recovery!RecordReboot(mem)
        /\ tried' = tried /\ Recovery!Save(mem', disk)
    BY <1>4 DEF Recovery!Record
  <2>2. failedSaves' = 0 => disk' = mem'
    BY <1>0, <2>1 DEF Recovery!Save
  <2>3. mem'.seen = mem.seen /\ mem'.reboots = Append(mem.reboots, 0)
    BY <1>0, <2>1 DEF Recovery!RecordReboot, Books
  <2>4. PICK s \in Seq(Young) : s = Append(mem.reboots, 0)
    BY <1>0, AppendIs
  <2>5. \A j \in 1 .. Len(s) : s[j] >= 0
    BY RecoveryNumbers DEF Young
  <2>6. tried = 0 => mem.seen = 0
    BY <2>1 DEF FailInv
  <2>7. 0 >= 0 /\ 0 < RebootWindow
    BY RecoveryNumbers
  <2> QED
    BY <2>1, <2>2, <2>3, <2>4, <2>5, <2>6, <2>7 DEF FailInv
<1>5. CASE Recovery!Restart
  <2>1. mem' = disk /\ disk' = disk /\ task' = "none" /\ tried' = tried /\ failedSaves' = failedSaves
    BY <1>5 DEF Recovery!Restart
  <2> QED
    BY <2>1 DEF FailInv
<1>6. CASE UNCHANGED recoveryVars
  BY <1>6 DEF recoveryVars, FailInv
<1> QED
  BY <1>1, <1>2, <1>3, <1>4, <1>5, <1>6 DEF Recovery!Next

(***************************************************************************)
(* DeviceRecovery: the button is pressed no more often than the budget     *)
(* allows, counted over the presses themselves and not over what the       *)
(* bridge remembers of them, and two presses are a cooldown apart; the     *)
(* exceptions are the presses whose record a restart lost.                 *)
(***************************************************************************)
THEOREM BudgetKept == Spec => []Recovery!PressBudget
<1>1. Init => RecoveryInv
  BY RecoveryInit DEF Init
<1>2. RecoveryInv /\ [Next]_vars => RecoveryInv'
  BY StepOfEach, RecoveryStep
<1>3. RecoveryInv => Recovery!PressBudget
  BY RecoverySuffices
<1> QED
  BY <1>1, <1>2, <1>3, PTL DEF Spec

(***************************************************************************)
(* DeviceRecovery: with the default of one attempt before a page, a human  *)
(* is paged only when the watchdog did try since the device was last seen: *)
(* the rolling window is over before the device counts as absent, and that *)
(* before the page, as in the defaults (3600, 7200, 14400 s).              *)
(***************************************************************************)
THEOREM RecoveryIsTrue ==
  ASSUME MinReboots = 1,
         DarkAfter <= SeenWindow, RebootWindow <= SeenWindow, SeenWindow < Escalation
  PROVE  Spec => []RecoveryTrue
<1> DEFINE Both == RecoveryInv /\ FailInv
<1>1. Init => Both
  BY RecoveryInit, FailInit DEF Init
<1>2. Both /\ [Next]_vars => Both'
  BY StepOfEach, RecoveryStep, FailStep
<1>3. Both => RecoveryTrue
  <2> SUFFICES ASSUME RecoveryInv, FailInv PROVE Recovery!PressBudget /\ Recovery!FailingIsTrue
    BY DEF RecoveryTrue, Recovery!RecoveryTrue
  <2>1. Recovery!FailingIsTrue
    <3> SUFFICES ASSUME Recovery!RecoveryFailing, failedSaves = 0, tried = 0 PROVE FALSE
      BY RecoveryFacts DEF Recovery!FailingIsTrue, RecoveryTypes
    <3>1. mem.seen >= Escalation /\ mem.since >= 1 /\ mem.seen \in -1 .. Escalation
      BY RecoveryFacts DEF Recovery!RecoveryFailing
    <3>2. mem.seen < RebootWindow \/ mem.seen < DarkAfter
      BY <3>1 DEF FailInv
    <3> QED
      BY <3>1, <3>2, RecoveryNumbers
  <2> QED
    BY <2>1, RecoverySuffices
<1> QED
  BY <1>1, <1>2, <1>3, PTL DEF Spec

(***************************************************************************)
(* Every variable of every component of the bridges' servers stays within  *)
(* its type: the six inductive invariants above, side by side.             *)
(***************************************************************************)
THEOREM AmbientTypes == Spec => []TypeOK
<1> DEFINE All == DiarInv /\ RecoveryInv /\ PipeInv /\ EnrollInv /\ OmiInv /\ MeetingInv
<1>1. Init => All
  BY DiarInit, RecoveryInit, PipeInit, EnrollInit, OmiInit, MeetingInit DEF Init
<1>2. All /\ [Next]_vars => All'
  BY StepOfEach, DiarStep, RecoveryStep, PipeStep, EnrollStep, OmiStep, MeetingStep
<1>3. All => TypeOK
  BY DiarSuffices, RecoverySuffices, PipeSuffices, EnrollSuffices, OmiSuffices, MeetingSuffices DEF TypeOK
<1> QED
  BY <1>1, <1>2, <1>3, PTL DEF Spec
=============================================================================
