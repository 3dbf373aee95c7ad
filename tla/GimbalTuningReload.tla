------------------------- MODULE GimbalTuningReload -------------------------
(***************************************************************************)
(* Tuning of the serial gimbal from its files while the program runs: the  *)
(* reader thread (runtime/gimbal_tuning_reload.cpp), its mailbox, and the  *)
(* control thread that takes the parameters and drives the rate PID        *)
(* (runtime/serial_gimbal_control_adapter.cpp, modules/gimbal_control/pid).*)
(* The PID's integral is abstracted to where it came from.                 *)
(***************************************************************************)
EXTENDS Naturals

CONSTANT MaxSaves   \* bound of the model: how often a file is saved

VARIABLES
  files,    \* what is on disk
  reader,   \* the thread: [pc, texts, candidate, attempted, lastGood]
  pending,  \* the mailbox: None or parameters
  config,   \* the parameters that the adapter uses
  pid,      \* per axis "zero", "fresh" or, with a break since it began, "stale"
  shown,    \* history: all that was on disk
  editor    \* history: [saves, since, twice]

vars == <<files, reader, pending, config, pid, shown, editor>>

None == [kind |-> "none"]
Axes == {"yaw", "pitch"}

\* gimbal_control.yaml holds the rate limits, the algorithm's file the gains;
\* "missing" cannot be read, "broken" not parsed, and "frozen" changes what may
\* not change without a restart.
Texts ==
  [common : {"startup", "limits", "missing"},
   algorithm : {"startup", "gains", "broken", "missing"},
   transport : {"startup", "frozen", "missing"}]

Readable(texts) == \A f \in DOMAIN texts : texts[f] # "missing"
Tunable(texts) == Readable(texts) /\ texts.algorithm # "broken" /\ texts.transport # "frozen"

\* A limit of the yaw axis and the gains of the pitch axis.
Parsed(texts) ==
  [kind |-> "tuning", yaw |-> texts.common = "limits", pitch |-> texts.algorithm = "gains"]

StartupTexts == [common |-> "startup", algorithm |-> "startup", transport |-> "startup"]
Startup == Parsed(StartupTexts)

Init ==
  /\ files = StartupTexts
  /\ reader = [pc |-> "common", texts |-> StartupTexts, candidate |-> None, attempted |-> None,
               lastGood |-> Startup]
  /\ pending = None
  /\ config = Startup
  /\ pid = [a \in Axes |-> "zero"]
  /\ shown = {StartupTexts}
  /\ editor = [saves |-> 0, since |-> [f \in DOMAIN StartupTexts |-> FALSE], twice |-> FALSE]

-----------------------------------------------------------------------------
\* An editor saves one file at a time.  History: which files it saved since they were read
\* last, and whether it ever saved one twice between two readings.
Save ==
  /\ editor.saves < MaxSaves
  /\ \E f \in DOMAIN files : \E t \in {u[f] : u \in Texts} \ {files[f]} :
       /\ files' = [files EXCEPT ![f] = t]
       /\ editor' = [editor EXCEPT !.saves = @ + 1, !.since[f] = TRUE,
                                    !.twice = @ \/ editor.since[f]]
  /\ shown' = shown \cup {files'}
  /\ UNCHANGED <<reader, pending, config, pid>>

-----------------------------------------------------------------------------
\* The reader.  The three files are read one after the other.
ReadFile(f, next) ==
  /\ reader.pc = f
  /\ files[f] # "missing"
  /\ reader' = [reader EXCEPT !.pc = next, !.texts[f] = files[f]]
  /\ editor' = [editor EXCEPT !.since[f] = FALSE]
  /\ UNCHANGED <<files, pending, config, pid, shown>>

\* A file that cannot be read ends the pass.  The next one starts over and compares with
\* the last one that was finished.
GiveUpPass ==
  /\ reader.pc \in DOMAIN files
  /\ files[reader.pc] = "missing"
  /\ reader' = [reader EXCEPT !.pc = "common"]
  /\ UNCHANGED <<files, pending, config, pid, shown, editor>>

Read ==
  \/ ReadFile("common", "algorithm")
  \/ ReadFile("algorithm", "transport")
  \/ ReadFile("transport", "compare")
  \/ GiveUpPass

\* Texts are parsed when two readings agree, and only once.
Settled_AtOnce == reader.attempted # reader.texts
Settled == reader.candidate = reader.texts /\ reader.attempted # reader.texts

IsNews(next) == next # reader.lastGood

Compare ==
  /\ reader.pc = "compare"
  /\ LET next == Parsed(reader.texts)
         publishes == Settled /\ Tunable(reader.texts) /\ IsNews(next)
     IN /\ reader' = [reader EXCEPT !.pc = "common", !.candidate = reader.texts,
                        !.attempted = IF Settled THEN reader.texts ELSE @,
                        !.lastGood = IF publishes THEN next ELSE @]
        /\ pending' = IF publishes THEN next ELSE pending
  /\ UNCHANGED <<files, config, pid, shown, editor>>

Reader == Read \/ Compare

-----------------------------------------------------------------------------
\* The control thread: SerialGimbalControlAdapter::Send.

\* A cycle: the command is refused (stop, sink or feedback not usable), or the
\* PID steps, at most 100 ms after the last step or later, and the command is
\* sent or lost.
Cycles == [step : BOOLEAN, gap : BOOLEAN, inBand : BOOLEAN, sent : BOOLEAN]

Zero == [a \in Axes |-> "zero"]

\* ApplyTuning resets the axes whose parameters change.
Tuned_Keeps(next) == [a \in Axes |-> IF next[a] # config[a] /\ pid[a] # "zero" THEN "stale" ELSE pid[a]]
Tuned(next) == [a \in Axes |-> IF next[a] # config[a] THEN "zero" ELSE pid[a]]

\* A step after a gap starts anew; within the deadband it leaves nothing.
Stepped(memory, c) ==
  [a \in Axes |-> IF c.inBand THEN "zero"
                  ELSE IF memory[a] = "stale" /\ ~c.gap THEN "stale" ELSE "fresh"]

\* ResetPid after a refused cycle and after a send that failed.
AfterSend_KeepsLost(memory, c) ==
  IF ~c.step THEN Zero
  ELSE [a \in Axes |-> IF c.sent \/ Stepped(memory, c)[a] = "zero" THEN Stepped(memory, c)[a] ELSE "stale"]
AfterSend(memory, c) == IF c.step /\ c.sent THEN Stepped(memory, c) ELSE Zero

Send ==
  /\ \E c \in Cycles :
       pid' = AfterSend(IF pending = None THEN pid ELSE Tuned(pending), c)
  /\ config' = IF pending = None THEN config ELSE pending
  /\ pending' = None
  /\ UNCHANGED <<files, reader, shown, editor>>

Next == Save \/ Reader \/ Send

Spec == Init /\ [][Next]_vars

-----------------------------------------------------------------------------
\* gimbal_tuning_reload.hpp 21: what is published is a snapshot of the files, a set that
\* was on disk as a whole, although they are saved and read one by one.
TunedFromWholeFiles ==
  {config, pending} \ {None} \subseteq {Parsed(texts) : texts \in {t \in shown : Tunable(t)}}

\* So it is as long as no file is saved, and saved once more, between two of its readings:
\* the two readings that agree then enclose a moment at which all files were as read.  A
\* file that is removed and written again has been saved twice.
TunedFromSteadyFiles == editor.twice \/ TunedFromWholeFiles

\* pid_rate_controller.hpp, serial_gimbal_control_adapter.cpp 46-77: an axis
\* never integrates across a change of its parameters or a cycle that was
\* refused, lost or late.
PidForgetsBreaks == \A a \in Axes : pid[a] # "stale"

\* The gimbal follows parameters of one snapshot, and never an integral of others.
PidIsTuned == TunedFromSteadyFiles /\ PidForgetsBreaks
=============================================================================
