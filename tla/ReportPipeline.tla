---------------------------- MODULE ReportPipeline ----------------------------
(***************************************************************************)
(* One report of reports/ai_explanation: the egress guard, the writing     *)
(* agent, the machine gate on every section, the judging agent and the     *)
(* composition (build_report_from_spec). The model behind both agents is   *)
(* an external HTTP service that may fail, time out, answer with something *)
(* else, cut its answer, leave sections out or invent section keys.        *)
(*                                                                         *)
(* The figures of a section come from the calculation engines and stand in *)
(* every form the pipeline builds; only the narrations are modelled. Clean *)
(* is what spec.verify accepts: the pairs of a section and a text without  *)
(* figures, unknown products or forbidden phrases.                         *)
(***************************************************************************)
CONSTANTS Sections, Texts, Clean, NoText

ASSUME PipelineAssumption ==
    /\ Clean \subseteq Sections \X Texts
    /\ NoText \notin Texts

VARIABLES flagged,      \* the payload holds something that looks personal
          guarded,      \* settings.report_ai_egress_guard
          keyed,        \* settings.gemini_api_key is set
          pc,
          draft,        \* section -> text of the writer's parsed answer
          machineOk,    \* sections the machine gate adopted
          verdict,      \* section -> the judge's verdict, as read
          final,        \* section -> narration of the composed report
          fullyVerified,
          notes,        \* sections, or "report", a note explains
          sent,         \* history: what left the system, and for whom
          said          \* history: what the judge actually answered

settings == <<flagged, guarded, keyed>>
vars == <<settings, pc, draft, machineOk, verdict, final, fullyVerified, notes,
          sent, said>>

Narration == [Sections -> Texts \cup {NoText}]
Bare == [k \in Sections |-> NoText]
Unjudged == [k \in Sections |-> "NOT_JUDGED"]

\* What the judge may say of a section; "absent" stands for a missing entry and
\* for one that is not an object.
Stances == {"OK", "ISSUE", "other", "absent"}

Init ==
    /\ flagged \in BOOLEAN /\ guarded \in BOOLEAN /\ keyed \in BOOLEAN
    /\ pc = "guard"
    /\ draft = Bare
    /\ machineOk = {}
    /\ verdict = Unjudged
    /\ final = Bare
    /\ fullyVerified = FALSE
    /\ notes = {}
    /\ sent = {}
    /\ said = [k \in Sections |-> "absent"]

\* guard_payload: a finding stops the transfer, unless the guard is off. The
\* form then stays bare and the judge has nothing to read.
Blocked == flagged /\ guarded

\* Fault: the finding is noted and the payload sent all the same.
WarnOnly ==
    /\ pc = "guard"
    /\ pc' = "write"
    /\ notes' = IF Blocked THEN notes \cup {"report"} ELSE notes
    /\ UNCHANGED <<settings, draft, machineOk, verdict, final, fullyVerified, sent, said>>

Guard ==
    /\ pc = "guard"
    /\ IF Blocked THEN pc' = "judge" /\ notes' = notes \cup {"report"}
                  ELSE pc' = "write" /\ UNCHANGED notes
    /\ UNCHANGED <<settings, draft, machineOk, verdict, final, fullyVerified, sent, said>>

\* GeminiClient.generate refuses before sending when no key is configured.
Send(message) == sent' = IF keyed THEN sent \cup {message} ELSE sent

\* Fault: the writer is asked again after every failure.
RetryWriter ==
    /\ pc = "write"
    /\ Send([to |-> "writer"])
    /\ pc' = "write"
    /\ notes' = notes \cup {"report"}
    /\ UNCHANGED <<settings, draft, machineOk, verdict, final, fullyVerified, said>>

\* generate() reports a failure (no key, transport or timeout, HTTP status, no
\* text, a cut text), or the text is not a JSON object: the form stays bare.
WriterFails ==
    /\ pc = "write"
    /\ Send([to |-> "writer"])
    /\ pc' = "judge"
    /\ notes' = notes \cup {"report"}
    /\ UNCHANGED <<settings, draft, machineOk, verdict, final, fullyVerified, said>>

WriterAnswers ==
    /\ pc = "write" /\ keyed
    /\ Send([to |-> "writer"])
    /\ draft' \in Narration
    /\ pc' = "gate"
    /\ UNCHANGED <<settings, machineOk, verdict, final, fullyVerified, notes, said>>

\* Blank sections and sections the verifier rejects stay empty, each with a note.
Passes(k) == <<k, draft[k]>> \in Clean

Gate ==
    /\ pc = "gate"
    /\ machineOk' = {k \in Sections : Passes(k)}
    /\ notes' = notes \cup {k \in Sections : ~Passes(k)}
    /\ pc' = "judge"
    /\ UNCHANGED <<settings, draft, verdict, final, fullyVerified, sent, said>>

\* The form handed to the judge carries the adopted narrations only.
WriterForm == [k \in Sections |-> IF k \in machineOk THEN draft[k] ELSE NoText]
Narrated(form) == {k \in Sections : form[k] # NoText}

NothingToJudge ==
    /\ pc = "judge" /\ Narrated(WriterForm) = {}
    /\ pc' = "compose"
    /\ notes' = notes \cup {"report"}
    /\ UNCHANGED <<settings, draft, machineOk, verdict, final, fullyVerified, sent, said>>

JudgeFails ==
    /\ pc = "judge" /\ Narrated(WriterForm) # {}
    /\ Send([to |-> "judge", form |-> WriterForm])
    /\ pc' = "compose"
    /\ notes' = notes \cup {"report"}
    /\ UNCHANGED <<settings, draft, machineOk, verdict, final, fullyVerified, said>>

\* Anything but OK or ISSUE, and any section left out, is NOT_JUDGED. Verdicts
\* on sections that were not asked about are not read.
ReadVerdict(stance) == IF stance \in {"OK", "ISSUE"} THEN stance ELSE "NOT_JUDGED"

JudgeAnswers ==
    /\ pc = "judge" /\ keyed /\ Narrated(WriterForm) # {}
    /\ Send([to |-> "judge", form |-> WriterForm])
    /\ said' \in [Sections -> Stances]
    /\ verdict' = [k \in Sections |-> IF k \in Narrated(WriterForm)
                                      THEN ReadVerdict(said'[k]) ELSE "NOT_JUDGED"]
    /\ pc' = "compose"
    /\ UNCHANGED <<settings, draft, machineOk, final, fullyVerified, notes>>

\* response.json() of an unreadable 200 body raises through the whole pipeline.
ServiceBreaks ==
    /\ pc = "write" \/ (pc = "judge" /\ Narrated(WriterForm) # {})
    /\ keyed
    /\ Send(IF pc = "write" THEN [to |-> "writer"]
                            ELSE [to |-> "judge", form |-> WriterForm])
    /\ pc' = "raised"
    /\ UNCHANGED <<settings, draft, machineOk, verdict, final, fullyVerified, notes, said>>

\* Faults: a section without a verdict counts as passed; the judge alone
\* decides.
AdoptedByDefault(k) == k \in machineOk /\ verdict[k] # "ISSUE"
AdoptedByJudge(k) == verdict[k] # "ISSUE"

\* _outcome: both gates, in this order of blame.
Adopted(k) == k \in machineOk /\ verdict[k] = "OK"
BlockedByJudge(k) == k \in machineOk /\ verdict[k] # "OK"

Compose ==
    /\ pc = "compose"
    /\ final' = [k \in Sections |-> IF Adopted(k) THEN WriterForm[k] ELSE NoText]
    /\ fullyVerified' = (Sections # {} /\ \A k \in Sections : Adopted(k))
    /\ notes' = notes \cup {k \in Sections : BlockedByJudge(k)}
    /\ pc' = "done"
    /\ UNCHANGED <<settings, draft, machineOk, verdict, sent, said>>

Finished == pc \in {"done", "raised"}

Next ==
    \/ Guard
    \/ WriterFails \/ WriterAnswers
    \/ Gate
    \/ NothingToJudge \/ JudgeFails \/ JudgeAnswers
    \/ ServiceBreaks
    \/ Compose

\* Each HTTP call has a timeout (gemini_timeout_seconds), so a request thread
\* that is running always takes its next step.
Spec == Init /\ [][Next]_vars /\ WF_vars(Next)

-------------------------------------------------------------------------------
Forms == [to : {"judge"}, form : Narration]

\* Every variable has its type.
TypeOK ==
    /\ flagged \in BOOLEAN /\ guarded \in BOOLEAN /\ keyed \in BOOLEAN
    /\ pc \in {"guard", "write", "gate", "judge", "compose", "done", "raised"}
    /\ draft \in Narration
    /\ machineOk \in SUBSET Sections
    /\ verdict \in [Sections -> {"OK", "ISSUE", "NOT_JUDGED"}]
    /\ final \in Narration
    /\ fullyVerified \in BOOLEAN
    /\ notes \in SUBSET (Sections \cup {"report"})
    /\ sent \in SUBSET ({[to |-> "writer"]} \cup Forms)
    /\ said \in [Sections -> Stances]

JudgedForms == {m.form : m \in sent \ {[to |-> "writer"]}}

\* A narration reaches the user only if the machine gate accepts that very
\* text and the judge, shown that very text, answered OK about its section.
BothGatesPassed ==
    \A k \in Sections :
        final[k] # NoText =>
            /\ <<k, final[k]>> \in Clean
            /\ said[k] = "OK"
            /\ \E form \in JudgedForms : form[k] = final[k]

\* A payload the guard stops leaves the system by neither agent: the judge's
\* own call has no guard and relies on the form it is given being bare.
BlockedNeverSent == Blocked => sent = {}

\* The machine gate stands before the judge: whatever the judge is shown has
\* passed it, so no verdict can open it.
JudgeSeesOnlyClean ==
    \A form \in JudgedForms : \A k \in Sections :
        form[k] # NoText => <<k, form[k]>> \in Clean

\* A report called fully verified has a narration in every section, and one
\* with a narration in every section is called so.
FullyVerifiedMeansNarrated ==
    pc = "done" => (fullyVerified <=> Sections # {} /\ Narrated(final) = Sections)

\* No section loses its narration without a note about it or about the report.
NothingDroppedSilently ==
    pc = "done" => \A k \in Sections \ Narrated(final) : k \in notes \/ "report" \in notes

\* Every report comes to an end, however the service behaves.
Concludes == <>Finished

\* gemini.py: a failure is returned as a result, "not an exception that breaks
\* the pipeline"; the template report is always provided.
NeverRaises == pc # "raised"

-------------------------------------------------------------------------------
(* The inductive strengthening. *)

\* Sections adopted by the machine gate hold clean texts.
GateHeld == \A k \in machineOk : Passes(k)

\* Verdicts are the judge's words about the form it was shown.
VerdictsAreSaid ==
    \A k \in Sections : verdict[k] = "OK" =>
        said[k] = "OK" /\ \E form \in JudgedForms : form[k] = WriterForm[k]

\* Until the gate has run nothing is adopted or judged, and until the
\* composition nothing is final.
Progress ==
    /\ pc \in {"guard", "write", "gate"} => machineOk = {} /\ verdict = Unjudged
    /\ pc = "judge" => verdict = Unjudged
    /\ pc \notin {"done"} => final = Bare
    /\ pc = "guard" => sent = {}
    /\ Blocked => pc \notin {"write", "gate"} /\ machineOk = {}

\* Sections without a machine-checked narration have their note.
Explained ==
    pc \in {"judge", "compose", "done"} =>
        \A k \in Sections \ machineOk : k \in notes \/ "report" \in notes

IInv ==
    /\ TypeOK
    /\ GateHeld /\ VerdictsAreSaid /\ Progress /\ Explained
    /\ BothGatesPassed /\ BlockedNeverSent /\ JudgeSeesOnlyClean
    /\ FullyVerifiedMeansNarrated /\ NothingDroppedSilently
================================================================================
