-------------------------------- MODULE Ralph --------------------------------
(***************************************************************************)
(* The Ralph strategy of spore-core (harness/ralph.rs) around a            *)
(* SelfVerifying one: windows that each run the inner strategy on a fresh  *)
(* conversation and a fresh budget, until the progress checkpoint of the   *)
(* project says that the task is complete.                                 *)
(*                                                                         *)
(* The checkpoint lives in the run store, where only the host writes it,   *)
(* whenever it likes.  "open" stands for a progress entry that is invalid, *)
(* not complete, or has something remaining.                               *)
(***************************************************************************)
EXTENDS SelfVerify

CONSTANTS
    Resets,     \* values of max_resets
    NoRalph,    \* no Ralph around the strategy: it is the whole task
    MaxWrites   \* bound: writes of the checkpoint

ASSUME RalphAssumption == Resets \subseteq Nat \cup {NoRalph} /\ MaxWrites \in Nat

VARIABLES
    resets,
    stage,      \* "opens", "runs", "checks", a way out, or "bare" without Ralph
    window,
    seeded,     \* a resume_seed waits for the first window
    progress, features,   \* the checkpoint
    withdrawn,  \* history: the host took progress back after the check had read it
    writes

ralph == <<resets, stage, window, seeded, progress, features, withdrawn, writes>>

allvars == <<vars, ralph>>

Progress == {"absent", "open", "done"}
Features == {"absent", "failing", "passing"}

Outs == {"done", "unmet", "handed", "skipped"}

RalphTypeOK ==
    /\ TypeOK
    /\ resets \in Resets
    /\ stage \in {"opens", "runs", "checks", "bare"} \cup Outs
    /\ window \in Nat /\ seeded \in BOOLEAN
    /\ progress \in Progress /\ features \in Features
    /\ withdrawn \in BOOLEAN /\ writes \in 0..MaxWrites

\* The checkpoint may be left from an earlier task of the project.
RalphInit ==
    /\ Init
    /\ resets \in Resets
    /\ stage = (IF resets = NoRalph THEN "bare" ELSE "opens") /\ window = 0 /\ seeded = FALSE
    /\ progress \in Progress /\ features \in Features
    /\ stage = "bare" => progress = "absent" /\ features = "absent"
    /\ withdrawn = FALSE /\ writes = 0

-----------------------------------------------------------------------------

\* ralph_completion_status: an absent feature list is no objection.
Complete == progress = "done" /\ features # "failing"

\* Mistaken: the window goes on with the conversation of the last one.
OpensOn ==
    /\ stage = "opens" /\ stage' = "runs"
    /\ pc' = "start"
    /\ turns' = 0 /\ given' = 0 /\ verdicts' = 0 /\ told' = {}
    /\ seeded' = FALSE
    /\ UNCHANGED <<conf, max, iteration, scope, work, reports, session, total, runs,
                   resets, window, progress, features, withdrawn, writes>>

\* A fresh conversation, but for the build of a window that was resumed, and no
\* turns taken.
Opens ==
    /\ stage = "opens" /\ stage' = "runs"
    /\ pc' = "start"
    /\ turns' = 0 /\ given' = 0
    /\ IF seeded THEN UNCHANGED <<session, verdicts, told>>
       ELSE session' = {} /\ verdicts' = 0 /\ told' = {}
    /\ seeded' = FALSE
    /\ UNCHANGED <<conf, max, iteration, scope, work, reports, total, runs,
                   resets, window, progress, features, withdrawn, writes>>

Runs == stage \in {"runs", "bare"} /\ Strategy /\ UNCHANGED ralph

\* Mistaken: one window more than max_resets.
NextWindowLate ==
    /\ stage' = IF window < AtLeast(1, resets) THEN "opens" ELSE "unmet"
    /\ window' = window + 1
    /\ scope' = NewScope(NoCap, 0)

\* Mistaken: the windows are not counted.
NextWindowAgain ==
    /\ stage' = "opens"
    /\ scope' = NewScope(NoCap, 0)
    /\ UNCHANGED window

NextWindow ==
    /\ stage' = IF window + 1 < AtLeast(1, resets) THEN "opens" ELSE "unmet"
    /\ window' = window + 1
    /\ scope' = NewScope(NoCap, 0)

Closed == stage = "runs" /\ pc \in {"passed", "unverified", "misconfigured"}

settled == <<conf, pc, max, iteration, carried, reports, runs, resets, seeded,
             progress, features, writes>>

\* An exhausted window is given up without a look at the checkpoint.
GivesWindowUp ==
    /\ stage = "runs" /\ pc = "exhausted" /\ NextWindow
    /\ UNCHANGED <<settled, withdrawn>>

\* After any other, failed or not, the checkpoint decides: first progress is read.
ReadsProgress ==
    /\ Closed
    /\ \/ progress # "done" /\ NextWindow
       \/ progress = "done" /\ stage' = "checks" /\ UNCHANGED <<window, scope>>
    /\ withdrawn' = FALSE
    /\ UNCHANGED settled

\* Mistaken: progress alone is believed.
SkipsFeatures ==
    /\ stage = "checks" /\ stage' = "done"
    /\ UNCHANGED <<settled, window, scope, withdrawn>>

\* If it is done, the feature list, which the host may have written in between.
ReadsFeatures ==
    /\ stage = "checks"
    /\ \/ features = "failing" /\ NextWindow
       \/ features # "failing" /\ stage' = "done" /\ UNCHANGED <<window, scope>>
    /\ UNCHANGED <<settled, withdrawn>>

HandsOver ==
    /\ stage = "runs" /\ pc \in {"asking", "paused", "escalated"}
    /\ stage' = "handed"
    /\ UNCHANGED <<vars, resets, window, seeded, progress, features, withdrawn, writes>>

\* A resume drives the whole tree again, from window 0.
RalphResumes ==
    /\ stage = "handed" /\ Resumes
    /\ stage' = "opens" /\ window' = 0 /\ seeded' = TRUE
    /\ UNCHANGED <<resets, progress, features, withdrawn, writes>>

RalphSkips ==
    /\ stage = "handed" /\ Skips
    /\ stage' = "skipped"
    /\ UNCHANGED <<resets, window, seeded, progress, features, withdrawn, writes>>

\* write_ralph_progress, write_ralph_feature_list: two entries, written one at a time.
HostWrites ==
    /\ stage # "bare" /\ writes < MaxWrites /\ writes' = writes + 1
    /\ \/ progress' \in {"open", "done"} /\ UNCHANGED features
       \/ features' \in {"failing", "passing"} /\ UNCHANGED progress
    /\ withdrawn' = (withdrawn \/ (stage = "checks" /\ progress' = "open"))
    /\ UNCHANGED <<vars, resets, stage, window, seeded>>

Windows == Opens \/ Runs \/ GivesWindowUp \/ ReadsProgress \/ ReadsFeatures \/ HandsOver

Bare == stage = "bare" /\ (Resumes \/ Redrives \/ Skips) /\ UNCHANGED ralph

RalphNext == Windows \/ RalphResumes \/ RalphSkips \/ HostWrites \/ Bare

RalphSpec == RalphInit /\ [][RalphNext]_allvars

\* As for the strategy alone; the run store answers.
RalphFairSpec == RalphSpec /\ WF_allvars(Windows)

-----------------------------------------------------------------------------
(* What holds.                                                             *)

\* What Ralph reports is true of the checkpoint when it reports it, though the two entries
\* are read apart and written apart: unmet after a look at it is of one that is not
\* complete, and success of one that is, but for progress the host took back in between.
ReportIsCheckpoint ==
    [][/\ stage # "done" /\ stage' = "done" =>
              Complete \/ (withdrawn /\ features # "failing")
       /\ stage # "unmet" /\ stage' = "unmet" /\ pc # "exhausted" => ~ Complete]_allvars

\* No more windows than max_resets between two handovers, and one at least.
WindowsAreBounded ==
    /\ RalphTypeOK
    /\ stage \in {"runs", "checks"} => window < resets \/ window = 0
    /\ stage = "unmet" => window = resets \/ resets = 0

\* Every SelfVerifying strategy comes to an end, with or without a limit on turns;
\* every run of Ralph ends or is handed to a human, whatever the windows do and
\* whatever the host writes; and a checkpoint that is complete and stays so is reported,
\* unless a human takes over or the last window runs out of budget.
RalphEnds ==
    /\ pc = "start" ~> pc \in Ends
    /\ stage = "opens" ~> stage \in Outs
    /\ (stage = "opens" /\ Complete) ~>
          \/ ~ Complete
          \/ stage \in Outs \ {"unmet"}
          \/ stage = "unmet" /\ pc = "exhausted"

=============================================================================
