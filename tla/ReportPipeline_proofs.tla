------------------------ MODULE ReportPipeline_proofs ------------------------
(***************************************************************************)
(* Proofs about ReportPipeline, for any sections, texts and verifier.      *)
(***************************************************************************)
EXTENDS ReportPipeline, TLAPS

LEMMA InitIInv == Init => IInv
<1> SUFFICES ASSUME Init PROVE IInv
    OBVIOUS
<1>1. TypeOK
    BY DEF Init, TypeOK, Narration, Bare, Unjudged, Stances
<1>2. JudgedForms = {}
    BY DEF Init, JudgedForms
<1>3. GateHeld /\ VerdictsAreSaid /\ Progress /\ Explained
    BY DEF Init, GateHeld, VerdictsAreSaid, Progress, Explained, Unjudged
<1>4. BothGatesPassed /\ BlockedNeverSent /\ JudgeSeesOnlyClean
      /\ FullyVerifiedMeansNarrated /\ NothingDroppedSilently
    BY <1>2 DEF Init, BothGatesPassed, BlockedNeverSent, JudgeSeesOnlyClean,
                FullyVerifiedMeansNarrated, NothingDroppedSilently, Bare
<1>. QED BY <1>1, <1>3, <1>4 DEF IInv

LEMMA TypeStep == TypeOK /\ [Next]_vars => TypeOK'
<1> SUFFICES ASSUME TypeOK, [Next]_vars PROVE TypeOK'
    OBVIOUS
<1> USE DEF TypeOK, settings
<1>1. WriterForm \in Narration
    BY DEF WriterForm, Narration
<1>2. CASE Guard
    BY <1>2 DEF Guard
<1>3. CASE WriterFails \/ WriterAnswers
    BY <1>3 DEF WriterFails, WriterAnswers, Send
<1>4. CASE Gate
    BY <1>4 DEF Gate
<1>5. CASE NothingToJudge
    BY <1>5 DEF NothingToJudge
<1>6. CASE JudgeFails \/ ServiceBreaks
    BY <1>1, <1>6 DEF JudgeFails, ServiceBreaks, Send, Forms
<1>7. CASE JudgeAnswers
    BY <1>1, <1>7 DEF JudgeAnswers, Send, Forms, ReadVerdict
<1>8. CASE Compose
    BY <1>1, <1>8 DEF Compose, Narration
<1>9. CASE UNCHANGED vars
    BY <1>9 DEF vars
<1>. QED BY <1>2, <1>3, <1>4, <1>5, <1>6, <1>7, <1>8, <1>9 DEF Next

\* What the judge is shown is either what the form carries or nothing new.
LEMMA FormIsClean ==
    ASSUME TypeOK, GateHeld
    PROVE  \A k \in Sections : WriterForm[k] # NoText =>
              k \in machineOk /\ <<k, WriterForm[k]>> \in Clean
  BY DEF TypeOK, GateHeld, WriterForm, Passes, Narration

LEMMA BareWhenBlocked ==
    ASSUME TypeOK, Progress, Blocked
    PROVE  Narrated(WriterForm) = {}
  BY DEF TypeOK, Progress, WriterForm, Narrated

\* Sending shows the judge at most the writer's form.
LEMMA JudgedStep ==
    /\ Send([to |-> "writer"]) => JudgedForms' = JudgedForms
    /\ Send([to |-> "judge", form |-> WriterForm]) =>
          /\ JudgedForms \subseteq JudgedForms'
          /\ JudgedForms' \subseteq JudgedForms \cup {WriterForm}
          /\ keyed => WriterForm \in JudgedForms'
<1> DEFINE asked == [to |-> "judge", form |-> WriterForm]
<1>1. asked.form = WriterForm /\ asked.to = "judge"
    OBVIOUS
<1>2. asked # [to |-> "writer"]
    BY <1>1
<1> HIDE DEF asked
<1>3. Send([to |-> "writer"]) => JudgedForms' = JudgedForms
    BY DEF Send, JudgedForms
<1>4. Send(asked) => /\ JudgedForms \subseteq JudgedForms'
                     /\ JudgedForms' \subseteq JudgedForms \cup {WriterForm}
                     /\ keyed => WriterForm \in JudgedForms'
  <2>1. Send(asked) => sent \subseteq sent' /\ sent' \subseteq sent \cup {asked}
                       /\ (keyed => asked \in sent')
      BY DEF Send
  <2>. QED BY <1>1, <1>2, <2>1 DEF JudgedForms
<1>. QED BY <1>3, <1>4 DEF asked

LEMMA Inductive == IInv /\ [Next]_vars => IInv'
<1> SUFFICES ASSUME IInv, [Next]_vars PROVE IInv'
    OBVIOUS
<1>1. TypeOK /\ TypeOK'
    BY TypeStep DEF IInv
<1> USE <1>1 DEF IInv, settings
<1>2. CASE Guard
  <2>1. JudgedForms' = JudgedForms /\ WriterForm' = WriterForm /\ Blocked' = Blocked
      BY <1>2 DEF Guard, JudgedForms, WriterForm, Blocked
  <2>. QED BY <1>2, <2>1
           DEF Guard, GateHeld, Passes, VerdictsAreSaid, Progress, Explained,
               BothGatesPassed, BlockedNeverSent, JudgeSeesOnlyClean,
               FullyVerifiedMeansNarrated, NothingDroppedSilently
<1>3. CASE WriterFails \/ WriterAnswers
  <2>1. JudgedForms' = JudgedForms /\ Blocked' = Blocked /\ ~Blocked
      BY <1>3, JudgedStep DEF WriterFails, WriterAnswers, Blocked, Progress
  <2>2. machineOk = {} /\ machineOk' = {} /\ verdict' = Unjudged
      BY <1>3 DEF WriterFails, WriterAnswers, Progress
  <2>. QED BY <1>3, <2>1, <2>2
           DEF WriterFails, WriterAnswers, GateHeld, VerdictsAreSaid, Unjudged, Progress,
               Explained, BothGatesPassed, BlockedNeverSent, JudgeSeesOnlyClean,
               FullyVerifiedMeansNarrated, NothingDroppedSilently
<1>4. CASE Gate
  <2>1. /\ JudgedForms' = JudgedForms /\ Blocked' = Blocked /\ ~Blocked
        /\ verdict' = Unjudged /\ verdict = Unjudged
      BY <1>4 DEF Gate, JudgedForms, Blocked, Progress
  <2>. QED BY <1>4, <2>1
           DEF Gate, GateHeld, Passes, VerdictsAreSaid, Unjudged, Progress, Explained,
               BothGatesPassed, BlockedNeverSent, JudgeSeesOnlyClean,
               FullyVerifiedMeansNarrated, NothingDroppedSilently
<1>5. CASE NothingToJudge
  <2>1. JudgedForms' = JudgedForms /\ WriterForm' = WriterForm /\ Blocked' = Blocked
      BY <1>5 DEF NothingToJudge, JudgedForms, WriterForm, Blocked
  <2>. QED BY <1>5, <2>1
           DEF NothingToJudge, GateHeld, Passes, VerdictsAreSaid, Progress, Explained,
               BothGatesPassed, BlockedNeverSent, JudgeSeesOnlyClean,
               FullyVerifiedMeansNarrated, NothingDroppedSilently
<1>6. CASE JudgeFails \/ JudgeAnswers \/ (ServiceBreaks /\ pc = "judge")
  <2>1. /\ pc = "judge" /\ Send([to |-> "judge", form |-> WriterForm])
        /\ WriterForm' = WriterForm /\ Blocked' = Blocked /\ ~Blocked
      BY <1>6, BareWhenBlocked
         DEF JudgeFails, JudgeAnswers, ServiceBreaks, WriterForm, Blocked
  <2>2. JudgeSeesOnlyClean'
      BY <2>1, JudgedStep, FormIsClean DEF JudgeSeesOnlyClean
  <2>3. VerdictsAreSaid'
    <3>1. CASE JudgeAnswers
      <4> SUFFICES ASSUME NEW k \in Sections, verdict'[k] = "OK"
                   PROVE  said'[k] = "OK" /\ \E form \in JudgedForms' : form[k] = WriterForm'[k]
          BY DEF VerdictsAreSaid
      <4>1. said'[k] = "OK"
          BY <3>1 DEF JudgeAnswers, ReadVerdict, Stances
      <4>2. WriterForm \in JudgedForms'
          BY <2>1, <3>1, JudgedStep DEF JudgeAnswers
      <4>. QED BY <2>1, <4>1, <4>2
    <3>2. CASE verdict' = verdict
        BY <2>1, <3>2 DEF VerdictsAreSaid, Progress, Unjudged
    <3>. QED BY <1>6, <3>1, <3>2 DEF JudgeFails, ServiceBreaks
  <2>4. BothGatesPassed'
      BY <1>6, <2>1
         DEF JudgeFails, JudgeAnswers, ServiceBreaks, BothGatesPassed, Progress, Bare
  <2>5. GateHeld' /\ Progress'
      BY <1>6, <2>1
         DEF JudgeFails, JudgeAnswers, ServiceBreaks, GateHeld, Passes, Progress
  <2>6. Explained' /\ BlockedNeverSent' /\ FullyVerifiedMeansNarrated'
        /\ NothingDroppedSilently'
      BY <1>6, <2>1
         DEF JudgeFails, JudgeAnswers, ServiceBreaks, Explained, BlockedNeverSent,
             FullyVerifiedMeansNarrated, NothingDroppedSilently
  <2>. QED BY <2>2, <2>3, <2>4, <2>5, <2>6
<1>7. CASE ServiceBreaks /\ pc = "write"
  <2>1. JudgedForms' = JudgedForms /\ Blocked' = Blocked /\ ~Blocked
        /\ WriterForm' = WriterForm
      BY <1>7, JudgedStep DEF ServiceBreaks, Blocked, Progress, WriterForm
  <2>. QED BY <1>7, <2>1
           DEF ServiceBreaks, GateHeld, Passes, VerdictsAreSaid, Progress, Explained,
               BothGatesPassed, BlockedNeverSent, JudgeSeesOnlyClean,
               FullyVerifiedMeansNarrated, NothingDroppedSilently
<1>8. CASE Compose
  <2>1. JudgedForms' = JudgedForms /\ WriterForm' = WriterForm /\ Blocked' = Blocked
      BY <1>8 DEF Compose, JudgedForms, WriterForm, Blocked
  <2>2. \A k \in Sections : final'[k] = IF Adopted(k) THEN WriterForm[k] ELSE NoText
      BY <1>8 DEF Compose
  <2>3. \A k \in Sections : Adopted(k) <=> final'[k] # NoText
    <3>1. \A k \in machineOk : WriterForm[k] # NoText
        BY PipelineAssumption DEF TypeOK, GateHeld, Passes, WriterForm
    <3>. QED BY <2>2, <3>1 DEF Adopted
  <2>4. BothGatesPassed'
      BY <1>8, <2>1, <2>2, <2>3, FormIsClean
         DEF Compose, Adopted, BothGatesPassed, VerdictsAreSaid
  <2>5. FullyVerifiedMeansNarrated'
      BY <1>8, <2>3 DEF Compose, FullyVerifiedMeansNarrated, Narrated
  <2>6. NothingDroppedSilently'
      BY <1>8, <2>3
         DEF Compose, NothingDroppedSilently, Narrated, Adopted, BlockedByJudge, Explained
  <2>7. Explained' /\ Progress' /\ GateHeld' /\ VerdictsAreSaid'
      BY <1>8, <2>1
         DEF Compose, Explained, Progress, GateHeld, Passes, VerdictsAreSaid
  <2>8. BlockedNeverSent' /\ JudgeSeesOnlyClean'
      BY <1>8, <2>1 DEF Compose, BlockedNeverSent, JudgeSeesOnlyClean
  <2>. QED BY <2>4, <2>5, <2>6, <2>7, <2>8
<1>9. CASE UNCHANGED vars
  <2>1. JudgedForms' = JudgedForms /\ WriterForm' = WriterForm /\ Blocked' = Blocked
      BY <1>9 DEF vars, JudgedForms, WriterForm, Blocked
  <2>. QED BY <1>9, <2>1
           DEF vars, GateHeld, Passes, VerdictsAreSaid, Progress, Explained,
               BothGatesPassed, BlockedNeverSent, JudgeSeesOnlyClean,
               FullyVerifiedMeansNarrated, NothingDroppedSilently, Narrated
<1>. QED BY <1>2, <1>3, <1>4, <1>5, <1>6, <1>7, <1>8, <1>9 DEF Next, ServiceBreaks

\* The strengthened invariant holds in every reachable state.
THEOREM Invariant == Spec => []IInv
  BY InitIInv, Inductive, PTL DEF Spec

\* Every variable of the pipeline keeps its type.
THEOREM TypeCorrect == Spec => []TypeOK
  BY Invariant, PTL DEF IInv

\* Only text both agents passed reaches the user (pipeline.py, its first rule).
THEOREM OnlyPassedTextShips == Spec => []BothGatesPassed
  BY Invariant, PTL DEF IInv

\* A blocked payload reaches neither agent.
THEOREM BlockedStaysInside == Spec => []BlockedNeverSent
  BY Invariant, PTL DEF IInv

\* The machine gate cannot be opened by the judge: it stands before it.
THEOREM MachineGateFirst == Spec => []JudgeSeesOnlyClean
  BY Invariant, PTL DEF IInv

\* fully_verified says exactly that every section carries its narration.
THEOREM FullyVerifiedIsExact == Spec => []FullyVerifiedMeansNarrated
  BY Invariant, PTL DEF IInv

\* Whatever is left out of the report is noted in it.
THEOREM OmissionsAreNoted == Spec => []NothingDroppedSilently
  BY Invariant, PTL DEF IInv
================================================================================
