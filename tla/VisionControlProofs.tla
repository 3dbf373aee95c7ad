-------------------------- MODULE VisionControlProofs --------------------------
(***************************************************************************)
(* Theorems of VisionControl, for every timeout, threshold, combination of *)
(* optional parts and length of the run.                                   *)
(***************************************************************************)
EXTENDS VisionControl, TLAPS

USE PolicyAssumption, RuntimeAssumption

\* The components whose faults end a run.
Vital == {"CAMERA", "VISION_PIPELINE", "CONTROL_RUNTIME", "COMMAND_SINK"}

\* What every report and every recovery keeps.  A failed component is an active
\* one: otherwise the next fault would enter it as merely degraded.
SoundSupervisor(s) ==
  /\ s \in Supervisor
  /\ \A f, g \in s.terminal : f = g
  /\ \A f \in s.terminal : f.component \in Vital
  /\ \A c \in Components : s.component[c].health = "FAILED" => s.component[c].active

\* What a report or a recovery never takes back.
KeepsFailures(s, t) ==
  /\ s.terminal # {} => t.terminal = s.terminal
  /\ \A c \in Components : s.component[c].health = "FAILED" => t.component[c].health = "FAILED"

\* A run of the optional parts has no terminal fault: only these codes end it.
LEMMA ComponentsOfCodes ==
  /\ \A code \in Codes : ComponentOf(code) \in Components
  /\ \A code \in CameraGlitches \cup CameraFailures \cup PipelineFailures
                   \cup ControlFailures \cup SinkFaults : ComponentOf(code) \in Vital
  /\ Vital \subseteq Components
BY DEF ComponentOf, Codes, Components, Vital, CameraGlitches, CameraFailures, PipelineFailures,
       ControlFailures, SinkFaults, EvaluationFaults, WindowFaults, DiagnosticsFaults

\* A component that enters a fault is active and is not made less failed.
LEMMA EnteredIsActive ==
  ASSUME NEW d \in ComponentState, NEW code, NEW t \in Nat,
         d.health = "FAILED" => d.active
  PROVE  /\ Entered(d, code, t) \in ComponentState
         /\ Entered(d, code, t).active
         /\ d.health = "FAILED" => Entered(d, code, t).health = "FAILED"
<1>1. CASE ~d.active
  <2> DEFINE n == IF Counted(code) THEN 1 ELSE 0
  <2>1. n \in 0 .. (DisableAfter + 1)
    OBVIOUS
  <2> HIDE DEF n
  <2> QED
    BY <1>1, <2>1 DEF Entered, ComponentState, Time, n
<1>2. CASE d.active
  <2> DEFINE n == IF Counted(code) /\ d.consecutive <= DisableAfter
                  THEN d.consecutive + 1 ELSE d.consecutive
  <2>1. n \in 0 .. (DisableAfter + 1)
    BY DEF ComponentState
  <2>2. Entered(d, code, t) = [d EXCEPT !.consecutive = n]
    BY <1>2 DEF Entered
  <2> HIDE DEF n
  <2> QED
    BY <1>2, <2>1, <2>2 DEF ComponentState
<1> QED
  BY <1>1, <1>2 DEF ComponentState

\* RuntimeSupervisor::ReportAt keeps the supervisor sound, takes no failure back
\* and latches a fault whenever it decides to terminate.
LEMMA ReportIsSound ==
  ASSUME NEW s, SoundSupervisor(s), NEW code \in Codes, NEW t \in Nat
  PROVE  /\ SoundSupervisor(Report(s, code, t))
         /\ KeepsFailures(s, Report(s, code, t))
         /\ Decision(s, code, t).terminate => Report(s, code, t).terminal # {}
<1> DEFINE k == ComponentOf(code)
           c == Reported(s, code, t)
           e == IF Terminates(code, c, t) THEN [c EXCEPT !.health = "FAILED"] ELSE c
           r == Report(s, code, t)
<1>1. k \in Components
  BY ComponentsOfCodes
<1>2. s.component[k] \in ComponentState
  BY <1>1 DEF SoundSupervisor, Supervisor
<1>3. /\ c \in ComponentState
      /\ c.active
      /\ s.component[k].health = "FAILED" => c.health = "FAILED"
  BY <1>1, <1>2, EnteredIsActive DEF SoundSupervisor, Reported
<1>4. /\ e \in ComponentState
      /\ e.active
      /\ s.component[k].health = "FAILED" => e.health = "FAILED"
  BY <1>3 DEF ComponentState
<1>5. /\ r.component = [s.component EXCEPT ![k] = e]
      /\ r.terminal = Latched(s, code, c, t)
      /\ r = [component |-> r.component, terminal |-> r.terminal]
  BY DEF Report
<1>6. r.component \in [Components -> ComponentState]
  BY <1>1, <1>4, <1>5 DEF SoundSupervisor, Supervisor
<1>7. /\ Latched(s, code, c, t) \in SUBSET Fault
      /\ \A f, g \in Latched(s, code, c, t) : f = g
      /\ \A f \in Latched(s, code, c, t) : f.component \in Vital
  <2>1. CASE s.terminal = {} /\ Terminates(code, c, t)
    <3>1. k \in Vital
      BY <2>1, ComponentsOfCodes DEF Terminates
    <3>2. c.firstSeen \in Time
      BY <1>3 DEF ComponentState
    <3> QED
      BY <1>1, <2>1, <3>1, <3>2 DEF Latched, Fault
  <2>2. CASE ~(s.terminal = {} /\ Terminates(code, c, t))
    BY <2>2 DEF Latched, SoundSupervisor, Supervisor
  <2> QED
    BY <2>1, <2>2
<1>8. SoundSupervisor(r)
  <2>1. r \in Supervisor
    BY <1>5, <1>6, <1>7 DEF Supervisor
  <2>2. \A d \in Components : r.component[d].health = "FAILED" => r.component[d].active
    BY <1>1, <1>4, <1>5 DEF SoundSupervisor, Supervisor
  <2> QED
    BY <1>5, <1>7, <2>1, <2>2 DEF SoundSupervisor
<1>9. KeepsFailures(s, r)
  <2>1. s.terminal # {} => r.terminal = s.terminal
    BY <1>5 DEF Latched
  <2>2. \A d \in Components : s.component[d].health = "FAILED" => r.component[d].health = "FAILED"
    BY <1>1, <1>4, <1>5 DEF SoundSupervisor, Supervisor
  <2> QED
    BY <2>1, <2>2 DEF KeepsFailures
<1>10. Decision(s, code, t).terminate => r.terminal # {}
  BY <1>5 DEF Decision, Latched
<1> QED
  BY <1>8, <1>9, <1>10

\* RuntimeSupervisor::RecoverAt does too, and never touches the terminal fault.
LEMMA RecoverIsSound ==
  ASSUME NEW s, SoundSupervisor(s), NEW k \in Components, NEW t \in Nat
  PROVE  /\ SoundSupervisor(Recover(s, k, t))
         /\ KeepsFailures(s, Recover(s, k, t))
         /\ Recover(s, k, t).terminal = s.terminal
<1> DEFINE c == s.component[k]
           r == Recover(s, k, t)
<1>1. c \in ComponentState
  BY DEF SoundSupervisor, Supervisor
<1>2. /\ Recovered(c, t) \in ComponentState
      /\ c.health = "FAILED" => Recovered(c, t).health = "FAILED"
      /\ Recovered(c, t).health = "FAILED" => Recovered(c, t).active
  BY <1>1 DEF SoundSupervisor, Recovered, ComponentState, Time
<1>3. /\ r.component = [s.component EXCEPT ![k] = Recovered(c, t)]
      /\ r.terminal = s.terminal
      /\ r \in Supervisor
  BY <1>2 DEF SoundSupervisor, Supervisor, Recover
<1>4. \A d \in Components :
        /\ s.component[d].health = "FAILED" => r.component[d].health = "FAILED"
        /\ r.component[d].health = "FAILED" => r.component[d].active
  BY <1>2, <1>3 DEF SoundSupervisor, Supervisor
<1> QED
  BY <1>3, <1>4 DEF SoundSupervisor, KeepsFailures

-----------------------------------------------------------------------------
(* The inductive invariant. *)

\* Who runs when: the control thread starts with the loop and has ended, after a
\* last stop, when the process ends.
ThreadInv ==
  /\ ~HasControl => control.pc = "none" /\ wire = "STOP" /\ vision.pc \notin {"start", "startFailed"}
  /\ vision.pc \in {"start", "startFailed"} => control.pc = "none" /\ sup.terminal = {}
  /\ VisionAt("done") => control.pc \in {"none", "ended"} /\ wire = "STOP"

\* Run returns a failure only after a terminal fault was latched, and a reason
\* that was read early is that fault's.
AnswerInv ==
  /\ vision.pc \in {"stop", "join", "answer"} => sup.terminal # {}
  /\ vision.answer # {} => sup.terminal # {} /\ vision.answer = TerminalReason(sup)
  /\ outcome # {} <=> vision.pc \in {"exit", "exitJoin", "done"}

IInv == TypeOK /\ SoundSupervisor(sup) /\ ThreadInv /\ AnswerInv

\* What every step keeps: the invariant, the failures, and the promise of a run.
Kept == IInv' /\ KeepsFailures(sup, sup') /\ [Lifecycle!Next]_(Lifecycle!vars)

\* What a step that reports, recovers or is silent leaves to the next one.
News ==
  /\ SoundSupervisor(sup')
  /\ hist' \in History
  /\ KeepsFailures(sup, sup')
  /\ sup.terminal # {} => sup'.terminal # {} /\ TerminalReason(sup') = TerminalReason(sup)

\* A report latches a fault if it decides to terminate, and some codes always do.
LEMMA ReportsAreSound ==
  ASSUME IInv, NEW code \in Codes, NEW t \in Nat, Reports(code, t)
  PROVE  /\ News
         /\ Decision(sup, code, t).terminate => sup'.terminal # {}
         /\ code \in CameraFailures \cup PipelineFailures \cup ControlFailures
              => sup'.terminal # {}
<1>1. SoundSupervisor(sup)
  BY DEF IInv
<1>2. sup' = Report(sup, code, t)
  BY DEF Reports
<1>3. hist' \in History
  <2> DEFINE l == IF sup.terminal = {} /\ sup'.terminal # {} THEN t ELSE hist.latched
             e == IF code \in EvaluationFaults /\ hist.evaluation <= DisableAfter
                  THEN hist.evaluation + 1 ELSE hist.evaluation
             w == IF code \in WindowFaults /\ hist.window <= DisableAfter
                  THEN hist.window + 1 ELSE hist.window
  <2>1. hist \in History
    BY DEF IInv, TypeOK
  <2>2. l \in Time /\ e \in 0 .. (DisableAfter + 1) /\ w \in 0 .. (DisableAfter + 1)
    BY <2>1 DEF History, Time
  <2>3. hist' = [hist EXCEPT !.latched = l, !.evaluation = e, !.window = w]
    BY DEF Reports
  <2> HIDE DEF l, e, w
  <2> QED
    BY <2>1, <2>2, <2>3 DEF History
<1>4. /\ SoundSupervisor(sup')
      /\ KeepsFailures(sup, sup')
      /\ Decision(sup, code, t).terminate => sup'.terminal # {}
  BY <1>1, <1>2, ReportIsSound
<1>5. code \in CameraFailures \cup PipelineFailures \cup ControlFailures
        => Decision(sup, code, t).terminate
  BY DEF Decision, Terminates
<1> QED
  BY <1>3, <1>4, <1>5 DEF News, KeepsFailures, TerminalReason

LEMMA RecoversAreSound ==
  ASSUME IInv, NEW k \in Components, NEW t \in Nat, Recovers(k, t)
  PROVE  News /\ sup'.terminal = sup.terminal
<1>1. SoundSupervisor(sup)
  BY DEF IInv
<1>2. sup' = Recover(sup, k, t)
  BY DEF Recovers
<1>3. hist' \in History
  <2> DEFINE f == IF k = "CAMERA" THEN t ELSE hist.frame
             s == IF k = "COMMAND_SINK" THEN t ELSE hist.sink
             e == IF k = "SIMULATION_EVALUATION" THEN 0 ELSE hist.evaluation
             w == IF k = "DEBUG_WINDOW" /\ ~vision.windowFailed THEN 0 ELSE hist.window
  <2>1. hist \in History
    BY DEF IInv, TypeOK
  <2>2. f \in Time /\ s \in Time /\ e \in 0 .. (DisableAfter + 1) /\ w \in 0 .. (DisableAfter + 1)
    BY <2>1 DEF History, Time
  <2>3. hist' = [hist EXCEPT !.frame = f, !.sink = s, !.evaluation = e, !.window = w]
    BY DEF Recovers
  <2> HIDE DEF f, s, e, w
  <2> QED
    BY <2>1, <2>2, <2>3 DEF History
<1>4. /\ SoundSupervisor(sup')
      /\ KeepsFailures(sup, sup')
      /\ sup'.terminal = sup.terminal
  BY <1>1, <1>2, RecoverIsSound
<1> QED
  BY <1>3, <1>4 DEF News, TerminalReason

\* A step that reports nothing.
LEMMA NoNewsIsSound ==
  ASSUME IInv, NoNews
  PROVE  News /\ sup'.terminal = sup.terminal
BY DEF IInv, TypeOK, NoNews, News, KeepsFailures, SoundSupervisor, TerminalReason

\* While nothing but the supervisor's news is new to the outside, the step is a
\* latch or a stutter of the promise.
LEMMA NewsIsLatchOrStutter ==
  ASSUME IInv, ~VisionAt("done"), ~VisionAt("done")', News, UNCHANGED <<wire, outcome>>,
         (control.pc \in {"none", "report", "ended"}) <=> (control.pc' \in {"none", "report", "ended"})
  PROVE  [Lifecycle!Next]_(Lifecycle!vars)
<1>1. CASE sup'.terminal = sup.terminal
  BY <1>1 DEF Lifecycle!vars, VisionAt
<1>2. CASE sup'.terminal # sup.terminal
  <2>1. sup.terminal = {} /\ sup'.terminal # {}
    BY <1>2 DEF News, KeepsFailures
  <2>2. sup'.terminal \subseteq Fault /\ \A f, g \in sup'.terminal : f = g
    BY DEF News, SoundSupervisor, Supervisor
  <2> QED
    BY <2>1, <2>2 DEF Lifecycle!Next, Lifecycle!Latch, VisionAt
<1> QED
  BY <1>1, <1>2

-----------------------------------------------------------------------------
(* Every step keeps the invariant and the promise. *)

\* A step of the main thread to one of pcs that keeps the reason it has read.
Moves(pcs) == vision' \in Vision /\ vision'.pc \in pcs /\ vision'.answer = vision.answer

LEMMA VisionMoves ==
  ASSUME vision \in Vision
  PROVE  /\ \A pc \in {"startFailed", "begin", "head", "terminal", "grab", "process", "update",
                       "evaluate", "log", "publish", "show", "poll", "join", "answer", "exit",
                       "exitJoin", "done"} : VisionTo(pc) => Moves({pc})
         /\ \A reason \in Reasons : StopWith(reason) => Moves({"stop"})
         /\ (UNCHANGED vision) => Moves({vision.pc})
BY DEF Moves, Vision, VisionTo, StopWith

\* A sound supervisor has a reason for its terminal fault.
LEMMA ReasonsOfFaults ==
  ASSUME NEW s, SoundSupervisor(s)
  PROVE  TerminalReason(s) \subseteq Reasons
BY DEF SoundSupervisor, TerminalReason, ReasonOf, Vital, Reasons

LEMMA BeginKeeps ==
  ASSUME IInv, Begin
  PROVE  Kept
<1> vision \in Vision
  BY DEF IInv, TypeOK
<1>1. News
  BY RecoversAreSound DEF Begin, Components, IInv, TypeOK
<1>2. Moves({"head"})
  BY VisionMoves DEF Begin
<1>3. TypeOK'
  BY <1>1, <1>2 DEF IInv, TypeOK, News, SoundSupervisor, Moves, Begin
<1>4. ThreadInv' /\ AnswerInv'
  BY <1>1, <1>2 DEF IInv, ThreadInv, AnswerInv, News, Moves, Begin, VisionAt
<1>5. [Lifecycle!Next]_(Lifecycle!vars)
  BY <1>1, <1>2, NewsIsLatchOrStutter DEF Moves, Begin, VisionAt
<1> QED
  BY <1>1, <1>3, <1>4, <1>5 DEF Kept, IInv, News

LEMMA HeadKeeps ==
  ASSUME IInv, Head
  PROVE  Kept
<1> vision \in Vision
  BY DEF IInv, TypeOK
<1>1. News /\ sup'.terminal = sup.terminal
  BY NoNewsIsSound DEF Head
<1>2. /\ Moves({"terminal", "exit"})
      /\ stopping => vision'.pc = "exit"
      /\ ~stopping => vision'.pc = "terminal"
  BY VisionMoves DEF Head, Moves, Vision
<1>3. TypeOK'
  BY <1>1, <1>2 DEF IInv, TypeOK, News, SoundSupervisor, Moves, Head, Outcomes
<1>4. ThreadInv' /\ AnswerInv'
  BY <1>1, <1>2 DEF IInv, ThreadInv, AnswerInv, News, Moves, Head, VisionAt
<1>5. [Lifecycle!Next]_(Lifecycle!vars)
  BY <1>1, <1>2 DEF IInv, ThreadInv, AnswerInv, Moves, NoNews, Head, VisionAt,
            Lifecycle!Next, Lifecycle!vars, Lifecycle!Conclude
<1> QED
  BY <1>1, <1>3, <1>4, <1>5 DEF Kept, IInv, News

LEMMA CheckTerminalKeeps ==
  ASSUME IInv, CheckTerminal
  PROVE  Kept
<1> vision \in Vision
  BY DEF IInv, TypeOK
<1>1. News /\ sup'.terminal = sup.terminal
  BY NoNewsIsSound DEF CheckTerminal
<1>2. /\ vision' \in Vision
      /\ sup.terminal = {} => Moves({"grab"})
      /\ sup.terminal # {} => vision'.pc = "stop" /\ vision'.answer = TerminalReason(sup)
  <2>1. TerminalReason(sup) \in SUBSET Reasons
    BY ReasonsOfFaults DEF IInv
  <2>2. CASE sup.terminal = {}
    BY <2>2, VisionMoves DEF CheckTerminal, Moves
  <2>3. CASE sup.terminal # {}
    BY <2>1, <2>3 DEF CheckTerminal, Vision
  <2> QED
    BY <2>2, <2>3
<1>3. TypeOK'
  BY <1>1, <1>2 DEF IInv, TypeOK, News, SoundSupervisor, Moves, CheckTerminal
<1>4. ThreadInv' /\ AnswerInv'
  BY <1>1, <1>2 DEF IInv, ThreadInv, AnswerInv, News, Moves, CheckTerminal, VisionAt
<1>5. [Lifecycle!Next]_(Lifecycle!vars)
  BY <1>1, <1>2, NewsIsLatchOrStutter DEF Moves, CheckTerminal, VisionAt
<1> QED
  BY <1>1, <1>3, <1>4, <1>5 DEF Kept, IInv, News

LEMMA StartControlKeeps ==
  ASSUME IInv, StartControl
  PROVE  Kept
<1> vision \in Vision
  BY DEF IInv, TypeOK
<1>1. News /\ sup'.terminal = sup.terminal
  BY NoNewsIsSound DEF StartControl
<1>2. /\ Moves({"begin", "startFailed"})
      /\ control' = control \/ control' = [control EXCEPT !.pc = "head", !.running = TRUE]
      /\ control' = control \/ vision'.pc = "begin"
  BY VisionMoves DEF StartControl, Moves
<1>3. TypeOK'
  BY <1>1, <1>2 DEF IInv, TypeOK, News, SoundSupervisor, Moves, StartControl, Control, Commands
<1>4. ThreadInv' /\ AnswerInv'
  BY <1>1, <1>2 DEF IInv, ThreadInv, AnswerInv, News, Moves, StartControl, VisionAt
<1>5. [Lifecycle!Next]_(Lifecycle!vars)
  BY <1>1, <1>2 DEF IInv, ThreadInv, AnswerInv, Moves, NoNews, StartControl, VisionAt,
            Lifecycle!Next, Lifecycle!vars, Lifecycle!StartSending, Lifecycle!Command
<1> QED
  BY <1>1, <1>3, <1>4, <1>5 DEF Kept, IInv, News

LEMMA StartFailedKeeps ==
  ASSUME IInv, StartFailed
  PROVE  Kept
<1> vision \in Vision
  BY DEF IInv, TypeOK
<1>1. News /\ sup'.terminal # {}
  BY ReportsAreSound DEF StartFailed, IInv, TypeOK, Codes, CameraGlitches, CameraFailures, PipelineFailures, ControlFailures,
         EvaluationFaults, WindowFaults, DiagnosticsFaults
<1>2. /\ vision' \in Vision
      /\ vision'.pc = "answer" /\ vision'.answer = {"CONTROL_FAILURE"}
      /\ TerminalReason(sup') = {"CONTROL_FAILURE"}
  <2>1. vision' \in Vision /\ vision'.pc = "answer" /\ vision'.answer = {"CONTROL_FAILURE"}
    BY DEF StartFailed, Vision, Reasons
  <2>2. sup.terminal = {}
    BY DEF IInv, ThreadInv, StartFailed, VisionAt
  <2>3. \A f \in sup'.terminal : f.component = "CONTROL_RUNTIME"
    <3> DEFINE code == "CONTROL_THREAD_EXCEPTION"
               c == Reported(sup, code, now)
    <3>1. ComponentOf(code) = "CONTROL_RUNTIME"
      BY DEF ComponentOf, ControlFailures, CameraGlitches, CameraFailures, PipelineFailures,
             SinkFaults, EvaluationFaults, WindowFaults, DiagnosticsFaults
    <3>2. sup'.terminal = Latched(sup, code, c, now)
      BY DEF StartFailed, Reports, Report
    <3> HIDE DEF c
    <3> QED
      BY <2>2, <3>1, <3>2 DEF Latched
  <2>4. TerminalReason(sup') = {"CONTROL_FAILURE"}
    BY <1>1, <2>3 DEF TerminalReason, ReasonOf
  <2> QED
    BY <2>1, <2>4
<1>3. TypeOK'
  BY <1>1, <1>2 DEF IInv, TypeOK, News, SoundSupervisor, Moves, StartFailed
<1>4. ThreadInv' /\ AnswerInv'
  BY <1>1, <1>2 DEF IInv, ThreadInv, AnswerInv, News, Moves, StartFailed, VisionAt
<1>5. [Lifecycle!Next]_(Lifecycle!vars)
  BY <1>1, <1>2, NewsIsLatchOrStutter DEF Moves, StartFailed, VisionAt
<1> QED
  BY <1>1, <1>3, <1>4, <1>5 DEF Kept, IInv, News

LEMMA GrabFrameKeeps ==
  ASSUME IInv, GrabFrame
  PROVE  Kept
<1> vision \in Vision
  BY DEF IInv, TypeOK
<1>1. News
  BY RecoversAreSound DEF GrabFrame, Components, IInv, TypeOK
<1>2. Moves({"process"})
  BY VisionMoves DEF GrabFrame
<1>3. TypeOK'
  BY <1>1, <1>2 DEF IInv, TypeOK, News, SoundSupervisor, Moves, GrabFrame
<1>4. ThreadInv' /\ AnswerInv'
  BY <1>1, <1>2 DEF IInv, ThreadInv, AnswerInv, News, Moves, GrabFrame, VisionAt
<1>5. [Lifecycle!Next]_(Lifecycle!vars)
  BY <1>1, <1>2, NewsIsLatchOrStutter DEF Moves, GrabFrame, VisionAt
<1> QED
  BY <1>1, <1>3, <1>4, <1>5 DEF Kept, IInv, News

LEMMA GrabFailsKeeps ==
  ASSUME IInv, NEW code \in CameraGlitches \cup CameraFailures, GrabFails(code)
  PROVE  Kept
<1> vision \in Vision
  BY DEF IInv, TypeOK
<1>1. /\ News
      /\ Decision(sup, code, now).terminate => sup'.terminal # {}
  BY ReportsAreSound DEF GrabFails, IInv, TypeOK, Codes
<1>2. /\ Moves({"stop", "poll", "head"})
      /\ ~Decision(sup, code, now).terminate => vision'.pc \in {"poll", "head"}
  BY VisionMoves DEF GrabFails, FromPoll, Moves, Reasons
<1>3. TypeOK'
  BY <1>1, <1>2 DEF IInv, TypeOK, News, SoundSupervisor, Moves, GrabFails
<1>4. ThreadInv' /\ AnswerInv'
  BY <1>1, <1>2 DEF IInv, ThreadInv, AnswerInv, News, Moves, GrabFails, VisionAt
<1>5. [Lifecycle!Next]_(Lifecycle!vars)
  BY <1>1, <1>2, NewsIsLatchOrStutter DEF Moves, GrabFails, VisionAt
<1> QED
  BY <1>1, <1>3, <1>4, <1>5 DEF Kept, IInv, News

LEMMA ProcessKeeps ==
  ASSUME IInv, Process
  PROVE  Kept
<1> vision \in Vision
  BY DEF IInv, TypeOK
<1>1. News /\ (Reports("VISION_PIPELINE_EXCEPTION", now) => sup'.terminal # {})
  BY NoNewsIsSound, ReportsAreSound DEF Process, IInv, TypeOK, Codes, CameraGlitches, CameraFailures, PipelineFailures, ControlFailures,
         EvaluationFaults, WindowFaults, DiagnosticsFaults
<1>2. /\ Moves({"update", "stop"})
      /\ vision'.pc = "stop" => Reports("VISION_PIPELINE_EXCEPTION", now)
  BY VisionMoves DEF Process, Moves, Reasons
<1>3. TypeOK'
  BY <1>1, <1>2 DEF IInv, TypeOK, News, SoundSupervisor, Moves, Process
<1>4. ThreadInv' /\ AnswerInv'
  BY <1>1, <1>2 DEF IInv, ThreadInv, AnswerInv, News, Moves, Process, VisionAt
<1>5. [Lifecycle!Next]_(Lifecycle!vars)
  BY <1>1, <1>2, NewsIsLatchOrStutter DEF Moves, Process, VisionAt
<1> QED
  BY <1>1, <1>3, <1>4, <1>5 DEF Kept, IInv, News

LEMMA UpdateKeeps ==
  ASSUME IInv, Update
  PROVE  Kept
<1> vision \in Vision
  BY DEF IInv, TypeOK
<1>1. News /\ (Reports("CONTROL_UPDATE_EXCEPTION", now) => sup'.terminal # {})
  BY NoNewsIsSound, ReportsAreSound DEF Update, IInv, TypeOK, Codes, CameraGlitches, CameraFailures, PipelineFailures, ControlFailures,
         EvaluationFaults, WindowFaults, DiagnosticsFaults
<1>2. /\ Moves({"evaluate", "publish", "show", "head", "stop"})
      /\ vision'.pc = "stop" => Reports("CONTROL_UPDATE_EXCEPTION", now)
  BY VisionMoves DEF Update, FromEvaluate, FromPublish, FromShow, Moves, Reasons
<1>3. TypeOK'
  BY <1>1, <1>2 DEF IInv, TypeOK, News, SoundSupervisor, Moves, Update
<1>4. ThreadInv' /\ AnswerInv'
  BY <1>1, <1>2 DEF IInv, ThreadInv, AnswerInv, News, Moves, Update, VisionAt
<1>5. [Lifecycle!Next]_(Lifecycle!vars)
  BY <1>1, <1>2, NewsIsLatchOrStutter DEF Moves, Update, VisionAt
<1> QED
  BY <1>1, <1>3, <1>4, <1>5 DEF Kept, IInv, News

LEMMA EvaluateKeeps ==
  ASSUME IInv, Evaluate
  PROVE  Kept
<1> vision \in Vision
  BY DEF IInv, TypeOK
<1>1. News
  BY NoNewsIsSound, RecoversAreSound, ReportsAreSound DEF Evaluate, IInv, TypeOK, Codes, CameraGlitches, CameraFailures, PipelineFailures, ControlFailures,
         EvaluationFaults, WindowFaults, DiagnosticsFaults, Components
<1>2. Moves({"log", "publish", "show", "head"})
  <2>1. CASE VisionTo(FromPublish) \/ VisionTo("log")
    BY <2>1, VisionMoves DEF FromPublish, FromShow, Moves
  <2>2. CASE ~(VisionTo(FromPublish) \/ VisionTo("log"))
    BY <2>2 DEF Evaluate, FromPublish, FromShow, Moves, Vision, Decision, Disables
  <2> QED
    BY <2>1, <2>2
<1>3. TypeOK'
  BY <1>1, <1>2 DEF IInv, TypeOK, News, SoundSupervisor, Moves, Evaluate
<1>4. ThreadInv' /\ AnswerInv'
  BY <1>1, <1>2 DEF IInv, ThreadInv, AnswerInv, News, Moves, Evaluate, VisionAt
<1>5. [Lifecycle!Next]_(Lifecycle!vars)
  BY <1>1, <1>2, NewsIsLatchOrStutter DEF Moves, Evaluate, VisionAt
<1> QED
  BY <1>1, <1>3, <1>4, <1>5 DEF Kept, IInv, News

LEMMA LogHealthKeeps ==
  ASSUME IInv, LogHealth
  PROVE  Kept
<1> vision \in Vision
  BY DEF IInv, TypeOK
<1>1. News
  BY NoNewsIsSound, ReportsAreSound DEF LogHealth, IInv, TypeOK, Codes, CameraGlitches, CameraFailures, PipelineFailures, ControlFailures,
         EvaluationFaults, WindowFaults, DiagnosticsFaults, Components
<1>2. Moves({"publish", "show", "head"})
  BY VisionMoves DEF LogHealth, FromPublish, FromShow, Moves
<1>3. TypeOK'
  BY <1>1, <1>2 DEF IInv, TypeOK, News, SoundSupervisor, Moves, LogHealth
<1>4. ThreadInv' /\ AnswerInv'
  BY <1>1, <1>2 DEF IInv, ThreadInv, AnswerInv, News, Moves, LogHealth, VisionAt
<1>5. [Lifecycle!Next]_(Lifecycle!vars)
  BY <1>1, <1>2, NewsIsLatchOrStutter DEF Moves, LogHealth, VisionAt
<1> QED
  BY <1>1, <1>3, <1>4, <1>5 DEF Kept, IInv, News

LEMMA PublishKeeps ==
  ASSUME IInv, Publish
  PROVE  Kept
<1> vision \in Vision
  BY DEF IInv, TypeOK
<1>1. News
  BY RecoversAreSound, ReportsAreSound DEF Publish, IInv, TypeOK, Codes, CameraGlitches, CameraFailures, PipelineFailures, ControlFailures,
         EvaluationFaults, WindowFaults, DiagnosticsFaults, Components
<1>2. Moves({"show", "head"})
  BY VisionMoves DEF Publish, FromShow, Moves
<1>3. TypeOK'
  BY <1>1, <1>2 DEF IInv, TypeOK, News, SoundSupervisor, Moves, Publish
<1>4. ThreadInv' /\ AnswerInv'
  BY <1>1, <1>2 DEF IInv, ThreadInv, AnswerInv, News, Moves, Publish, VisionAt
<1>5. [Lifecycle!Next]_(Lifecycle!vars)
  BY <1>1, <1>2, NewsIsLatchOrStutter DEF Moves, Publish, VisionAt
<1> QED
  BY <1>1, <1>3, <1>4, <1>5 DEF Kept, IInv, News

LEMMA WindowMoves ==
  ASSUME vision \in Vision, NEW next \in {"poll", "head"}, WindowFails(next)
  PROVE  Moves({"poll", "head"})
BY DEF WindowFails, Moves, Vision, Decision, Disables

LEMMA ShowKeeps ==
  ASSUME IInv, Show
  PROVE  Kept
<1> vision \in Vision
  BY DEF IInv, TypeOK
<1>1. News
  BY NoNewsIsSound, ReportsAreSound DEF Show, WindowFails, IInv, TypeOK, Codes, CameraGlitches, CameraFailures, PipelineFailures, ControlFailures,
         EvaluationFaults, WindowFaults, DiagnosticsFaults, Components
<1>2. Moves({"poll", "head"})
  BY VisionMoves, WindowMoves DEF Show, Moves
<1>3. TypeOK'
  BY <1>1, <1>2 DEF IInv, TypeOK, News, SoundSupervisor, Moves, Show
<1>4. ThreadInv' /\ AnswerInv'
  BY <1>1, <1>2 DEF IInv, ThreadInv, AnswerInv, News, Moves, Show, VisionAt
<1>5. [Lifecycle!Next]_(Lifecycle!vars)
  BY <1>1, <1>2, NewsIsLatchOrStutter DEF Moves, Show, VisionAt
<1> QED
  BY <1>1, <1>3, <1>4, <1>5 DEF Kept, IInv, News

LEMMA PollKeeps ==
  ASSUME IInv, Poll
  PROVE  Kept
<1> vision \in Vision
  BY DEF IInv, TypeOK
<1>1. News /\ (NoNews => sup'.terminal = sup.terminal)
  BY NoNewsIsSound, RecoversAreSound, ReportsAreSound DEF Poll, WindowFails, IInv, TypeOK, Codes, CameraGlitches, CameraFailures, PipelineFailures, ControlFailures,
         EvaluationFaults, WindowFaults, DiagnosticsFaults, Components
<1>2. /\ Moves({"poll", "head", "exit"})
      /\ \/ vision'.pc \in {"poll", "head"} /\ UNCHANGED outcome
         \/ vision'.pc = "exit" /\ outcome' = {"NORMAL"} /\ NoNews
  BY VisionMoves, WindowMoves DEF Poll, Moves
<1>3. TypeOK'
  BY <1>1, <1>2 DEF IInv, TypeOK, News, SoundSupervisor, Moves, Poll, Outcomes
<1>4. ThreadInv' /\ AnswerInv'
  BY <1>1, <1>2 DEF IInv, ThreadInv, AnswerInv, News, Moves, Poll, VisionAt
<1>5. [Lifecycle!Next]_(Lifecycle!vars)
  <2>1. CASE UNCHANGED outcome
    BY <1>1, <1>2, <2>1, NewsIsLatchOrStutter DEF Moves, Poll, VisionAt
  <2>2. CASE vision'.pc = "exit" /\ outcome' = {"NORMAL"} /\ NoNews
    BY <1>1, <2>2 DEF IInv, AnswerInv, Poll, VisionAt, Lifecycle!Next, Lifecycle!vars,
                      Lifecycle!Conclude
  <2> QED
    BY <1>2, <2>1, <2>2
<1> QED
  BY <1>1, <1>3, <1>4, <1>5 DEF Kept, IInv, News

LEMMA LowerFlagKeeps ==
  ASSUME IInv, NEW from \in {"stop", "exit"}, NEW to \in {"join", "exitJoin"},
         from = "stop" <=> to = "join", LowerFlag(from, to)
  PROVE  Kept
<1> vision \in Vision
  BY DEF IInv, TypeOK
<1>1. News /\ sup'.terminal = sup.terminal
  BY NoNewsIsSound DEF LowerFlag
<1>2. Moves({to}) /\ control' \in Control /\ control'.pc = control.pc
  BY VisionMoves DEF LowerFlag, IInv, TypeOK, Control
<1>3. TypeOK'
  BY <1>1, <1>2 DEF IInv, TypeOK, News, SoundSupervisor, Moves, LowerFlag
<1>4. ThreadInv' /\ AnswerInv'
  BY <1>1, <1>2 DEF IInv, ThreadInv, AnswerInv, News, Moves, LowerFlag, VisionAt
<1>5. [Lifecycle!Next]_(Lifecycle!vars)
  BY <1>1, <1>2, NewsIsLatchOrStutter DEF Moves, LowerFlag, VisionAt
<1> QED
  BY <1>1, <1>3, <1>4, <1>5 DEF Kept, IInv, News

LEMMA SendsLastStopKeeps ==
  ASSUME IInv, NEW from \in {"join", "exitJoin"}, NEW to \in {"answer", "done"},
         from = "join" <=> to = "answer", SendsLastStop(from, to)
  PROVE  Kept
<1> vision \in Vision
  BY DEF IInv, TypeOK
<1>1. News /\ sup'.terminal = sup.terminal
  BY NoNewsIsSound DEF SendsLastStop
<1>2. Moves({to}) /\ wire' = "STOP"
  BY VisionMoves DEF SendsLastStop, IInv, ThreadInv
<1>3. TypeOK'
  BY <1>1, <1>2 DEF IInv, TypeOK, News, SoundSupervisor, Moves, SendsLastStop, Commands
<1>4. ThreadInv' /\ AnswerInv'
  BY <1>1, <1>2 DEF IInv, ThreadInv, AnswerInv, News, Moves, SendsLastStop, VisionAt
<1>5. [Lifecycle!Next]_(Lifecycle!vars)
  BY <1>1, <1>2 DEF IInv, AnswerInv, Moves, SendsLastStop, VisionAt, Lifecycle!Next,
                    Lifecycle!vars, Lifecycle!Command, Lifecycle!End
<1> QED
  BY <1>1, <1>3, <1>4, <1>5 DEF Kept, IInv, News

LEMMA AnswerKeeps ==
  ASSUME IInv, Answer
  PROVE  Kept
<1> vision \in Vision
  BY DEF IInv, TypeOK
<1>1. News /\ sup'.terminal = sup.terminal
  BY NoNewsIsSound DEF Answer
<1>2. Moves({"exit"})
  BY VisionMoves DEF Answer
<1>3. outcome' = TerminalReason(sup) /\ sup.terminal # {}
  BY DEF IInv, AnswerInv, Answer, VisionAt
<1>4. \E f \in sup.terminal : outcome' = {ReasonOf(f.component)}
  <2>1. \A f, g \in sup.terminal : f = g
    BY DEF IInv, TypeOK
  <2> QED
    BY <1>3, <2>1 DEF TerminalReason
<1>5. TypeOK'
  <2>1. outcome' \in SUBSET Outcomes
    BY <1>3, ReasonsOfFaults DEF IInv, Outcomes
  <2> QED
    BY <1>1, <1>2, <2>1 DEF IInv, TypeOK, News, SoundSupervisor, Moves, Answer
<1>6. ThreadInv' /\ AnswerInv'
  BY <1>1, <1>2, <1>4 DEF IInv, ThreadInv, AnswerInv, News, Moves, Answer, VisionAt
<1>7. [Lifecycle!Next]_(Lifecycle!vars)
  BY <1>1, <1>2, <1>4 DEF IInv, AnswerInv, Moves, Answer, VisionAt, Lifecycle!Next,
                          Lifecycle!vars, Lifecycle!Conclude
<1> QED
  BY <1>1, <1>5, <1>6, <1>7 DEF Kept, IInv, News

\* One disjunct of VisionStep at a time.
LEMMA VisionKeeps == ASSUME IInv, VisionStep PROVE Kept
<1>1. CASE LowerFlag("stop", "join") \/ LowerFlag("exit", "exitJoin")
  BY <1>1, LowerFlagKeeps
<1>2. CASE SendsLastStop("join", "answer") \/ SendsLastStop("exitJoin", "done")
  BY <1>2, SendsLastStopKeeps
<1> QED
  BY <1>1, <1>2, StartControlKeeps, StartFailedKeeps, BeginKeeps, HeadKeeps, CheckTerminalKeeps,
     GrabFrameKeeps, GrabFailsKeeps, ProcessKeeps, UpdateKeeps, EvaluateKeeps, LogHealthKeeps,
     PublishKeeps, ShowKeeps, PollKeeps, AnswerKeeps
  DEF VisionStep

\* A step of the control thread to one of pcs.  None is taken after the end, nor
\* without a command sink.
Drives(pcs) == control' \in Control /\ control'.pc \in pcs

LEMMA ControlSteps ==
  ASSUME IInv, control.pc \notin {"none", "ended"}
  PROVE  HasControl /\ ~VisionAt("done") /\ vision.pc \notin {"start", "startFailed"}
BY DEF IInv, ThreadInv

LEMMA BeginCycleKeeps ==
  ASSUME IInv, BeginCycle
  PROVE  Kept
<1> HasControl /\ ~VisionAt("done") /\ vision.pc \notin {"start", "startFailed"}
  BY ControlSteps DEF BeginCycle, ControlAt
<1>1. News /\ sup'.terminal = sup.terminal
  BY NoNewsIsSound DEF BeginCycle
<1>2. Drives({"health", "ended"})
  BY DEF IInv, TypeOK, Drives, Control, BeginCycle, ControlTo, CycleEnds, Idle
<1>3. TypeOK'
  BY <1>1, <1>2 DEF IInv, TypeOK, News, SoundSupervisor, Drives, Commands, BeginCycle
<1>4. ThreadInv' /\ AnswerInv'
  BY <1>1, <1>2 DEF IInv, ThreadInv, AnswerInv, News, Drives, BeginCycle, VisionAt
<1>5. [Lifecycle!Next]_(Lifecycle!vars)
  BY <1>1, <1>2 DEF Drives, BeginCycle, VisionAt, ControlAt, Commands, Lifecycle!Next,
                    Lifecycle!vars, Lifecycle!StopSending
<1> QED
  BY <1>1, <1>3, <1>4, <1>5 DEF Kept, IInv, News

LEMMA ReadHealthKeeps ==
  ASSUME IInv, ReadHealth
  PROVE  Kept
<1> HasControl /\ ~VisionAt("done") /\ vision.pc \notin {"start", "startFailed"}
  BY ControlSteps DEF ReadHealth, ControlAt
<1>1. News /\ sup'.terminal = sup.terminal
  BY NoNewsIsSound DEF ReadHealth
<1>2. Drives({"act"})
  BY DEF IInv, TypeOK, Drives, Control, ReadHealth, ControlTo, CycleEnds, Idle
<1>3. TypeOK'
  BY <1>1, <1>2 DEF IInv, TypeOK, News, SoundSupervisor, Drives, Commands, ReadHealth
<1>4. ThreadInv' /\ AnswerInv'
  BY <1>1, <1>2 DEF IInv, ThreadInv, AnswerInv, News, Drives, ReadHealth, VisionAt
<1>5. [Lifecycle!Next]_(Lifecycle!vars)
  BY <1>1, <1>2, NewsIsLatchOrStutter DEF Drives, ReadHealth, VisionAt, ControlAt
<1> QED
  BY <1>1, <1>3, <1>4, <1>5 DEF Kept, IInv, News

LEMMA ActKeeps ==
  ASSUME IInv, Act
  PROVE  Kept
<1> HasControl /\ ~VisionAt("done") /\ vision.pc \notin {"start", "startFailed"}
  BY ControlSteps DEF Act, ControlAt
<1>1. News /\ sup'.terminal = sup.terminal
  BY NoNewsIsSound DEF Act
<1>2. Drives({"observe"})
  BY DEF IInv, TypeOK, Drives, Control, Act, ControlTo, CycleEnds, Idle
<1>3. TypeOK'
  BY <1>1, <1>2 DEF IInv, TypeOK, News, SoundSupervisor, Drives, Commands, Act
<1>4. ThreadInv' /\ AnswerInv'
  BY <1>1, <1>2 DEF IInv, ThreadInv, AnswerInv, News, Drives, Act, VisionAt
<1>5. [Lifecycle!Next]_(Lifecycle!vars)
  BY <1>1, <1>2 DEF Drives, Act, VisionAt, ControlAt, Commands, Lifecycle!Next,
                    Lifecycle!vars, Lifecycle!Command
<1> QED
  BY <1>1, <1>3, <1>4, <1>5 DEF Kept, IInv, News

LEMMA CycleThrowsKeeps ==
  ASSUME IInv, CycleThrows
  PROVE  Kept
<1> HasControl /\ ~VisionAt("done") /\ vision.pc \notin {"start", "startFailed"}
  BY ControlSteps DEF CycleThrows, ControlAt
<1>1. News /\ sup'.terminal = sup.terminal
  BY NoNewsIsSound DEF CycleThrows
<1>2. Drives({"caught"})
  BY DEF IInv, TypeOK, Drives, Control, CycleThrows, ControlTo, CycleEnds, Idle
<1>3. TypeOK'
  BY <1>1, <1>2 DEF IInv, TypeOK, News, SoundSupervisor, Drives, Commands, CycleThrows
<1>4. ThreadInv' /\ AnswerInv'
  BY <1>1, <1>2 DEF IInv, ThreadInv, AnswerInv, News, Drives, CycleThrows, VisionAt
<1>5. [Lifecycle!Next]_(Lifecycle!vars)
  BY <1>1, <1>2, NewsIsLatchOrStutter DEF Drives, CycleThrows, VisionAt, ControlAt
<1> QED
  BY <1>1, <1>3, <1>4, <1>5 DEF Kept, IInv, News

LEMMA ObserveCommandChannelKeeps ==
  ASSUME IInv, ObserveCommandChannel
  PROVE  Kept
<1> HasControl /\ ~VisionAt("done") /\ vision.pc \notin {"start", "startFailed"}
  BY ControlSteps DEF ObserveCommandChannel, ControlAt
<1>1. News
  BY RecoversAreSound, ReportsAreSound DEF ObserveCommandChannel, SinkFault, SinkFaults, Components, Codes, IInv, TypeOK, Control
<1>2. Drives({"head", "safeStop"})
  <2>1. \A code \in Codes : Decision(sup, code, control.now).terminate \in BOOLEAN
    BY DEF Decision, Terminates
  <2>2. control \in Control
    BY DEF IInv, TypeOK
  <2>3. SinkFault \in Codes
    BY DEF SinkFault, SinkFaults, Codes
  <2> DEFINE t == Decision(sup, SinkFault, control.now).terminate
  <2>4. t \in BOOLEAN
    BY <2>1, <2>3
  <2>5. \/ \E b \in BOOLEAN : CycleEnds("head", b)
        \/ control' = [control EXCEPT !.pc = "safeStop", !.terminate = t]
    <3>1. control.running \in BOOLEAN
      BY <2>2 DEF Control
    <3>2. (control.running /\ ~t) \in BOOLEAN
      OBVIOUS
    <3> QED
      BY <3>1, <3>2 DEF ObserveCommandChannel
  <2> HIDE DEF t
  <2>6. CASE \E b \in BOOLEAN : CycleEnds("head", b)
    <3>1. PICK b \in BOOLEAN : control' = [Idle EXCEPT !.pc = "head", !.running = b]
      BY <2>6 DEF CycleEnds
    <3>2. Idle \in Control
      BY DEF Idle, Control
    <3> QED
      BY <3>1, <3>2 DEF Drives, Control
  <2>7. CASE control' = [control EXCEPT !.pc = "safeStop", !.terminate = t]
    BY <2>2, <2>4, <2>7 DEF Drives, Control
  <2> QED
    BY <2>5, <2>6, <2>7
<1>3. TypeOK'
  BY <1>1, <1>2 DEF IInv, TypeOK, News, SoundSupervisor, Drives, Commands, ObserveCommandChannel
<1>4. ThreadInv' /\ AnswerInv'
  BY <1>1, <1>2 DEF IInv, ThreadInv, AnswerInv, News, Drives, ObserveCommandChannel, VisionAt
<1>5. [Lifecycle!Next]_(Lifecycle!vars)
  BY <1>1, <1>2, NewsIsLatchOrStutter DEF Drives, ObserveCommandChannel, VisionAt, ControlAt
<1> QED
  BY <1>1, <1>3, <1>4, <1>5 DEF Kept, IInv, News

LEMMA SafeStopKeeps ==
  ASSUME IInv, SafeStop
  PROVE  Kept
<1> HasControl /\ ~VisionAt("done") /\ vision.pc \notin {"start", "startFailed"}
  BY ControlSteps DEF SafeStop, ControlAt
<1>1. News /\ sup'.terminal = sup.terminal
  BY NoNewsIsSound DEF SafeStop
<1>2. Drives({"head"})
  BY DEF IInv, TypeOK, Drives, Control, SafeStop, ControlTo, CycleEnds, Idle
<1>3. TypeOK'
  BY <1>1, <1>2 DEF IInv, TypeOK, News, SoundSupervisor, Drives, Commands, SafeStop
<1>4. ThreadInv' /\ AnswerInv'
  BY <1>1, <1>2 DEF IInv, ThreadInv, AnswerInv, News, Drives, SafeStop, VisionAt
<1>5. [Lifecycle!Next]_(Lifecycle!vars)
  BY <1>1, <1>2 DEF Drives, SafeStop, VisionAt, ControlAt, Commands, Lifecycle!Next,
                    Lifecycle!vars, Lifecycle!Command
<1> QED
  BY <1>1, <1>3, <1>4, <1>5 DEF Kept, IInv, News

LEMMA CaughtKeeps ==
  ASSUME IInv, Caught
  PROVE  Kept
<1> HasControl /\ ~VisionAt("done") /\ vision.pc \notin {"start", "startFailed"}
  BY ControlSteps DEF Caught, ControlAt
<1>1. News /\ sup'.terminal = sup.terminal
  BY NoNewsIsSound DEF Caught
<1>2. Drives({"report"})
  BY DEF IInv, TypeOK, Drives, Control, Caught, ControlTo, CycleEnds, Idle
<1>3. TypeOK'
  BY <1>1, <1>2 DEF IInv, TypeOK, News, SoundSupervisor, Drives, Commands, Caught
<1>4. ThreadInv' /\ AnswerInv'
  BY <1>1, <1>2 DEF IInv, ThreadInv, AnswerInv, News, Drives, Caught, VisionAt
<1>5. [Lifecycle!Next]_(Lifecycle!vars)
  BY <1>1, <1>2 DEF Drives, Caught, VisionAt, ControlAt, Commands, Lifecycle!Next,
                    Lifecycle!vars, Lifecycle!StopSending
<1> QED
  BY <1>1, <1>3, <1>4, <1>5 DEF Kept, IInv, News

LEMMA ReportExceptionKeeps ==
  ASSUME IInv, ReportException
  PROVE  Kept
<1> HasControl /\ ~VisionAt("done") /\ vision.pc \notin {"start", "startFailed"}
  BY ControlSteps DEF ReportException, ControlAt
<1>1. News
  BY ReportsAreSound DEF ReportException, Codes, ControlFailures, IInv, TypeOK
<1>2. Drives({"ended"})
  BY DEF IInv, TypeOK, Drives, Control, ReportException, ControlTo, CycleEnds, Idle
<1>3. TypeOK'
  BY <1>1, <1>2 DEF IInv, TypeOK, News, SoundSupervisor, Drives, Commands, ReportException
<1>4. ThreadInv' /\ AnswerInv'
  BY <1>1, <1>2 DEF IInv, ThreadInv, AnswerInv, News, Drives, ReportException, VisionAt
<1>5. [Lifecycle!Next]_(Lifecycle!vars)
  BY <1>1, <1>2, NewsIsLatchOrStutter DEF Drives, ReportException, VisionAt, ControlAt
<1> QED
  BY <1>1, <1>3, <1>4, <1>5 DEF Kept, IInv, News

LEMMA ControlKeeps == ASSUME IInv, ControlStep PROVE Kept
BY BeginCycleKeeps, ReadHealthKeeps, ActKeeps, CycleThrowsKeeps, ObserveCommandChannelKeeps,
   SafeStopKeeps, CaughtKeeps, ReportExceptionKeeps
DEF ControlStep

LEMMA EnvironmentKeeps == ASSUME IInv, Signal \/ Tick \/ UNCHANGED vars PROVE Kept
<1>1. UNCHANGED <<sup, vision, control, snapshot, wire, outcome, hist>>
  BY DEF Signal, Tick, vars
<1>2. now' \in Nat /\ stopping' \in BOOLEAN
  <2>1. now \in Nat /\ stopping \in BOOLEAN
    BY DEF IInv, TypeOK
  <2>2. CASE Tick
    BY <2>1, <2>2 DEF Tick
  <2>3. CASE Signal \/ UNCHANGED vars
    BY <2>1, <2>3 DEF Signal, vars
  <2> QED
    BY <2>2, <2>3
<1>3. TypeOK'
  BY <1>1, <1>2 DEF IInv, TypeOK
<1>4. SoundSupervisor(sup') /\ ThreadInv' /\ AnswerInv'
  BY <1>1 DEF IInv, SoundSupervisor, ThreadInv, AnswerInv, VisionAt
<1>5. KeepsFailures(sup, sup') /\ UNCHANGED Lifecycle!vars
  BY <1>1 DEF KeepsFailures, Lifecycle!vars, VisionAt
<1> QED
  BY <1>3, <1>4, <1>5 DEF Kept, IInv

LEMMA InitIsSound == Init => IInv /\ Lifecycle!Init
<1> SUFFICES ASSUME Init PROVE IInv /\ Lifecycle!Init
  OBVIOUS
<1>1. FreshComponent \in ComponentState
  BY DEF FreshComponent, ComponentState, Time
<1>2. SoundSupervisor(sup)
  BY <1>1 DEF Init, SoundSupervisor, FreshSupervisor, FreshComponent, Supervisor
<1>3. vision \in Vision /\ vision.pc \in {"start", "begin"} /\ vision.answer = {}
  BY DEF Init, Vision, Reasons
<1>4. control \in Control /\ control.pc = "none"
  BY DEF Init, Idle, Control
<1>5. hist \in History
  BY DEF Init, History, Time
<1>6. TypeOK
  BY <1>2, <1>3, <1>4, <1>5 DEF Init, TypeOK, SoundSupervisor, Commands, Outcomes
<1>7. sup.terminal = {}
  BY DEF Init, FreshSupervisor
<1>8. ThreadInv /\ AnswerInv
  BY <1>3, <1>4, <1>7 DEF Init, ThreadInv, AnswerInv, VisionAt
<1>9. Lifecycle!Init
  BY <1>3, <1>4, <1>7 DEF Init, Lifecycle!Init, VisionAt
<1> QED
  BY <1>2, <1>6, <1>8, <1>9 DEF IInv

LEMMA StepsKeep == IInv /\ [Next]_vars => Kept
BY VisionKeeps, ControlKeeps, EnvironmentKeeps DEF Next

-----------------------------------------------------------------------------
(* The theorems. *)

\* IInv is inductive.
THEOREM Soundness == Spec => []IInv
<1>1. IInv /\ [Next]_vars => IInv'
  BY StepsKeep DEF Kept
<1> QED
  BY <1>1, InitIsSound, PTL DEF Spec

\* Every variable keeps its type, and at most one terminal fault is ever kept.
THEOREM TypeCorrect == Spec => []TypeOK
<1>1. IInv => TypeOK
  BY DEF IInv
<1> QED
  BY <1>1, Soundness, PTL

\* vision_runtime.cpp 118-133, control_runtime.cpp 77-92: however the loop was
\* left, the process ends with the control thread over and a stop as its last
\* command.
THEOREM EndsWithAStop == Spec => []EndsStopped
<1>1. IInv => EndsStopped
  BY DEF IInv, ThreadInv, EndsStopped
<1> QED
  BY <1>1, Soundness, PTL

\* runtime_supervisor.cpp 157-168, 196-216: no later report or recovery of either
\* thread replaces the first terminal fault or heals a failed component.
THEOREM TheFirstFaultStays == Spec => FirstFaultStays
<1>1. IInv /\ [Next]_vars =>
        [/\ sup.terminal # {} => sup'.terminal = sup.terminal
         /\ \A c \in Components :
              sup.component[c].health = "FAILED" => sup'.component[c].health = "FAILED"]_vars
  BY StepsKeep DEF Kept, KeepsFailures
<1> QED
  BY <1>1, Soundness, PTL DEF Spec, FirstFaultStays

\* The two threads and the supervisor implement the promise of a run.
THEOREM RunsKeepTheirPromise == Spec => ImplementsLifecycle
<1>1. IInv /\ [Next]_vars => [Lifecycle!Next]_(Lifecycle!vars)
  BY StepsKeep DEF Kept
<1> QED
  BY <1>1, InitIsSound, Soundness, PTL DEF Spec, ImplementsLifecycle, Lifecycle!Spec

-----------------------------------------------------------------------------
(* What the threads know of the components they watch. *)

\* A loop that is left no longer grabs frames.
Looping == {"head", "terminal", "grab", "process", "update", "evaluate", "log", "publish",
            "show", "poll"}

\* Only the control thread watches the sink.  After a fault of the sink that ends the
\* run it begins no cycle, a cycle that found nothing sends nothing but a stop, and
\* between two cycles a sink in fault was left with a stop.
SinkInv ==
  LET c == sup.component["COMMAND_SINK"]
  IN /\ c.lastHealthy = hist.sink
     /\ c.health = "FAILED" =>
          \/ ControlAt("safeStop") /\ control.terminate
          \/ ControlAt("head") /\ ~control.running
          \/ ControlAt("ended")
     /\ ControlAt("none") => wire = "STOP"
     /\ ControlAt("observe") /\ ~control.loaded => wire = "STOP"
     /\ ControlAt("head") /\ c.active => wire = "STOP"

\* Only the main thread watches the camera.
CameraInv ==
  /\ sup.component["CAMERA"].lastHealthy = hist.frame
  /\ vision.pc \in Looping => hist.frame # Never

\* A timeout that ended the run was over when it was latched, and its component is
\* watched no more.
TimeoutInv ==
  \A f \in sup.terminal :
    /\ f.code \in CameraGlitches =>
         /\ vision.pc \notin Looping \cup {"start", "startFailed", "begin"}
         /\ hist.latched - hist.frame >= CameraTimeout
    /\ f.code \in SinkFaults =>
         /\ sup.component["COMMAND_SINK"].health = "FAILED"
         /\ hist.latched - (IF hist.sink # Never THEN hist.sink ELSE f.firstSeen) >= SinkTimeout

\* The supervisor's count of an optional part that is in fault is its failures in a row.
Counts(c, n) == c.health # "FAILED" /\ n = IF c.active THEN c.consecutive ELSE 0

PartsInv ==
  /\ Counts(sup.component["SIMULATION_EVALUATION"], hist.evaluation)
  /\ Counts(sup.component["DEBUG_WINDOW"], hist.window)
  /\ VisionAt("evaluate") => vision.evaluator
  /\ vision.pc \in {"show", "poll"} => vision.window
  /\ DisabledAfterThreshold

\* A reason is given for what happened.
ExitInv ==
  outcome # {} =>
    \/ outcome = {"NORMAL"} /\ (stopping \/ vision.window)
    \/ sup.terminal # {} /\ outcome = TerminalReason(sup)

WatchInv == SinkInv /\ CameraInv /\ TimeoutInv /\ PartsInv /\ ExitInv

\* Which component a code is of.
LEMMA CodesOfComponents ==
  /\ \A code \in Codes : ComponentOf(code) = "COMMAND_SINK" <=> code \in SinkFaults
  /\ \A code \in Codes : ComponentOf(code) = "CAMERA" <=> code \in CameraGlitches \cup CameraFailures
  /\ \A code \in Codes : ComponentOf(code) = "SIMULATION_EVALUATION" <=> code \in EvaluationFaults
  /\ \A code \in Codes : ComponentOf(code) = "DEBUG_WINDOW" <=> code \in WindowFaults
BY DEF ComponentOf, Codes, CameraGlitches, CameraFailures, PipelineFailures,
       ControlFailures, SinkFaults, EvaluationFaults, WindowFaults, DiagnosticsFaults

\* A report changes only the component of its code, never when it was last healthy, and
\* latches nothing but that code.
LEMMA ReportTouches ==
  ASSUME IInv, NEW code \in Codes, NEW t \in Nat, Reports(code, t)
  PROVE  /\ \A c \in Components \ {ComponentOf(code)} : sup'.component[c] = sup.component[c]
         /\ sup'.component[ComponentOf(code)].lastHealthy
              = sup.component[ComponentOf(code)].lastHealthy
         /\ sup'.component[ComponentOf(code)].active
         /\ hist'.frame = hist.frame /\ hist'.sink = hist.sink
         /\ sup.terminal # {} => sup'.terminal = sup.terminal /\ hist'.latched = hist.latched
         /\ code \notin EvaluationFaults => hist'.evaluation = hist.evaluation
         /\ code \notin WindowFaults => hist'.window = hist.window
<1> DEFINE k == ComponentOf(code)
           c == Reported(sup, code, t)
           e == IF Terminates(code, c, t) THEN [c EXCEPT !.health = "FAILED"] ELSE c
<1>1. k \in Components /\ sup.component[k] \in ComponentState
  BY ComponentsOfCodes DEF IInv, TypeOK, Supervisor
<1>2. /\ sup'.component = [sup.component EXCEPT ![k] = e]
      /\ sup'.terminal = Latched(sup, code, c, t)
  BY DEF Reports, Report
<1>3. c \in ComponentState /\ c.lastHealthy = sup.component[k].lastHealthy /\ c.active
  <2>1. c \in ComponentState /\ c.active
    BY <1>1, EnteredIsActive DEF IInv, SoundSupervisor, Reported
  <2>2. c.lastHealthy = sup.component[k].lastHealthy
    BY <1>1 DEF Reported, Entered, ComponentState
  <2> QED
    BY <2>1, <2>2
<1>4. e.lastHealthy = sup.component[k].lastHealthy /\ e.active
  BY <1>3 DEF ComponentState
<1> HIDE DEF e
<1>5. /\ \A d \in Components \ {k} : sup'.component[d] = sup.component[d]
      /\ sup'.component[k].lastHealthy = sup.component[k].lastHealthy
      /\ sup'.component[k].active
  BY <1>1, <1>2, <1>4 DEF IInv, TypeOK, Supervisor
<1>6. sup.terminal # {} => sup'.terminal = sup.terminal
  BY <1>2 DEF Latched
<1>7. /\ hist'.frame = hist.frame /\ hist'.sink = hist.sink
      /\ sup.terminal # {} => hist'.latched = hist.latched
      /\ code \notin EvaluationFaults => hist'.evaluation = hist.evaluation
      /\ code \notin WindowFaults => hist'.window = hist.window
  BY DEF Reports, IInv, TypeOK, History
<1> QED
  BY <1>5, <1>6, <1>7

\* What is latched is the reported fault, and if it is a timeout that has run out.
LEMMA ReportLatches ==
  ASSUME IInv, NEW code \in Codes, NEW t \in Nat, Reports(code, t), sup.terminal = {},
         NEW f \in sup'.terminal
  PROVE  /\ f.code = code
         /\ hist'.latched = t
         /\ sup'.component[ComponentOf(code)].health = "FAILED"
         /\ f.firstSeen = sup'.component[ComponentOf(code)].firstSeen
         /\ code \in CameraGlitches =>
              t - BadSince(sup'.component[ComponentOf(code)]) >= CameraTimeout
         /\ code \in SinkFaults =>
              t - BadSince(sup'.component[ComponentOf(code)]) >= SinkTimeout
<1> DEFINE k == ComponentOf(code)
           c == Reported(sup, code, t)
           e == [c EXCEPT !.health = "FAILED"]
<1>1. k \in Components /\ sup.component[k] \in ComponentState
  BY ComponentsOfCodes DEF IInv, TypeOK, Supervisor
<1>2. /\ Terminates(code, c, t)
      /\ f = [component |-> k, code |-> code, firstSeen |-> c.firstSeen]
  BY DEF Reports, Report, Latched
<1>3. sup'.component = [sup.component EXCEPT ![k] = e]
  BY <1>2 DEF Reports, Report
<1>4. c \in ComponentState
  BY <1>1, EnteredIsActive DEF IInv, SoundSupervisor, Reported
<1>5. /\ e.health = "FAILED" /\ e.firstSeen = c.firstSeen /\ BadSince(e) = BadSince(c)
  BY <1>4 DEF ComponentState, BadSince
<1>6. sup'.component[k] = e
  BY <1>1, <1>3 DEF IInv, TypeOK, Supervisor
<1>7. hist'.latched = t
  BY DEF Reports, IInv, TypeOK, History
<1>8. /\ code \in CameraGlitches => t - BadSince(c) >= CameraTimeout
      /\ code \in SinkFaults => t - BadSince(c) >= SinkTimeout
  <2>1. /\ code \in CameraGlitches =>
             code \notin CameraFailures \cup PipelineFailures \cup ControlFailures \cup SinkFaults
        /\ code \in SinkFaults =>
             code \notin CameraFailures \cup PipelineFailures \cup ControlFailures \cup CameraGlitches
    BY DEF CameraGlitches, CameraFailures, PipelineFailures, ControlFailures, SinkFaults
  <2> QED
    BY <1>2, <2>1 DEF Terminates
<1> HIDE DEF e, c
<1> QED
  BY <1>2, <1>5, <1>6, <1>7, <1>8

\* A component that is not vital does not fail, and counts its faults while it is in one.
LEMMA ReportCounts ==
  ASSUME IInv, NEW code \in EvaluationFaults \cup WindowFaults, NEW t \in Nat, Reports(code, t),
         NEW n \in 0 .. (DisableAfter + 1), Counts(sup.component[ComponentOf(code)], n)
  PROVE  LET m == IF n <= DisableAfter THEN n + 1 ELSE n
         IN /\ Counts(sup'.component[ComponentOf(code)], m)
            /\ Reported(sup, code, t).consecutive = m
<1> DEFINE k == ComponentOf(code)
           d == sup.component[k]
           c == Reported(sup, code, t)
           m == IF n <= DisableAfter THEN n + 1 ELSE n
<1>1. code \in Codes
  BY DEF Codes
<1>2. k \in Components /\ d \in ComponentState
  BY <1>1, ComponentsOfCodes DEF IInv, TypeOK, Supervisor
<1>3. Counted(code) /\ ~Terminates(code, c, t)
  BY DEF Counted, Terminates, EvaluationFaults, WindowFaults, CameraGlitches, CameraFailures,
         PipelineFailures, ControlFailures, SinkFaults
<1>4. sup'.component[k] = c
  BY <1>2, <1>3 DEF Reports, Report, IInv, TypeOK, Supervisor
<1>5. c.active /\ c.health # "FAILED"
  <2>1. c = Entered(d, code, t) /\ d.health # "FAILED"
    BY DEF Reported, Counts
  <2> QED
    BY <1>2, <2>1 DEF Entered, ComponentState
<1>6. c.consecutive = m
  <2>1. CASE d.active
    <3> DEFINE q == IF Counted(code) /\ d.consecutive <= DisableAfter
                    THEN d.consecutive + 1 ELSE d.consecutive
    <3>1. c = [d EXCEPT !.consecutive = q]
      BY <2>1 DEF Reported, Entered
    <3>2. d.consecutive = n
      BY <2>1 DEF Counts
    <3>3. c.consecutive = q
      BY <1>2, <3>1 DEF ComponentState
    <3> QED
      BY <1>3, <3>2, <3>3
  <2>2. CASE ~d.active
    <3>1. n = 0
      BY <2>2 DEF Counts
    <3>2. c.consecutive = 1
      BY <1>2, <1>3, <2>2 DEF Reported, Entered, ComponentState
    <3> QED
      BY <3>1, <3>2
  <2> QED
    BY <2>1, <2>2
<1> HIDE DEF c, m
<1> QED
  BY <1>4, <1>5, <1>6 DEF Counts, c, m

\* A recovery dates its own component and changes no other.
LEMMA RecoverTouches ==
  ASSUME IInv, NEW k \in Components, NEW t \in Nat, Recovers(k, t)
  PROVE  /\ \A c \in Components \ {k} : sup'.component[c] = sup.component[c]
         /\ sup'.component[k].lastHealthy = t
         /\ sup'.component[k].health = "FAILED" <=> sup.component[k].health = "FAILED"
         /\ sup.component[k].health # "FAILED" => ~sup'.component[k].active
         /\ sup'.terminal = sup.terminal /\ hist'.latched = hist.latched
         /\ hist'.frame = IF k = "CAMERA" THEN t ELSE hist.frame
         /\ hist'.sink = IF k = "COMMAND_SINK" THEN t ELSE hist.sink
         /\ hist'.evaluation = IF k = "SIMULATION_EVALUATION" THEN 0 ELSE hist.evaluation
         /\ hist'.window = IF k = "DEBUG_WINDOW" /\ ~vision.windowFailed THEN 0 ELSE hist.window
<1> DEFINE c == sup.component[k]
<1>1. c \in ComponentState
  BY DEF IInv, TypeOK, Supervisor
<1>2. /\ Recovered(c, t).lastHealthy = t
      /\ Recovered(c, t).health = "FAILED" <=> c.health = "FAILED"
      /\ c.health # "FAILED" => ~Recovered(c, t).active
  BY <1>1 DEF Recovered, ComponentState
<1>3. /\ sup'.component = [sup.component EXCEPT ![k] = Recovered(c, t)]
      /\ sup'.terminal = sup.terminal
  BY DEF Recovers, Recover, IInv, TypeOK, Supervisor
<1>4. hist' = [hist EXCEPT
       !.frame = IF k = "CAMERA" THEN t ELSE @,
       !.sink = IF k = "COMMAND_SINK" THEN t ELSE @,
       !.evaluation = IF k = "SIMULATION_EVALUATION" THEN 0 ELSE @,
       !.window = IF k = "DEBUG_WINDOW" /\ ~vision.windowFailed THEN 0 ELSE @]
  BY DEF Recovers
<1>5. /\ hist'.frame = IF k = "CAMERA" THEN t ELSE hist.frame
      /\ hist'.sink = IF k = "COMMAND_SINK" THEN t ELSE hist.sink
      /\ hist'.evaluation = IF k = "SIMULATION_EVALUATION" THEN 0 ELSE hist.evaluation
      /\ hist'.window = IF k = "DEBUG_WINDOW" /\ ~vision.windowFailed THEN 0 ELSE hist.window
      /\ hist'.latched = hist.latched
  BY <1>4 DEF IInv, TypeOK, History
<1>6. /\ \A d \in Components \ {k} : sup'.component[d] = sup.component[d]
      /\ sup'.component[k] = Recovered(c, t)
  BY <1>3 DEF IInv, TypeOK, Supervisor
<1> QED
  BY <1>2, <1>3, <1>5, <1>6

\* What the main thread tells the supervisor, and that it sends nothing but stops.
VisionCodes == Codes \ SinkFaults
VisionComponents == {"CAMERA", "SIMULATION_EVALUATION", "DIAGNOSTICS", "DEBUG_WINDOW"}

LEMMA VisionTells ==
  ASSUME IInv, VisionStep
  PROVE  /\ \/ NoNews
            \/ \E code \in VisionCodes :
                 Reports(code, now) /\ (code \in CameraGlitches => GrabFails(code))
            \/ \E k \in VisionComponents : Recovers(k, now)
         /\ wire' \in {wire, "STOP"}
         /\ \/ control' = control \/ control' = [control EXCEPT !.running = FALSE]
            \/ control.pc = "none" /\ control'.pc = "head" /\ UNCHANGED wire
         /\ UNCHANGED stopping
<1> USE DEF VisionCodes, VisionComponents
<1>1. /\ CameraGlitches \cup CameraFailures \subseteq VisionCodes
      /\ \A code \in PipelineFailures \cup ControlFailures
                       \cup {"EVALUATION_EXCEPTION", "DIAGNOSTICS_EXCEPTION",
                             "DIAGNOSTICS_UNAVAILABLE", "DEBUG_WINDOW_EXCEPTION"} :
           code \in VisionCodes /\ code \notin CameraGlitches
  BY DEF Codes, CameraGlitches, CameraFailures, PipelineFailures, ControlFailures, SinkFaults,
         EvaluationFaults, WindowFaults, DiagnosticsFaults
<1>2. {"VISION_PIPELINE_EXCEPTION"} = PipelineFailures
      /\ {"CONTROL_UPDATE_EXCEPTION", "CONTROL_THREAD_EXCEPTION"} = ControlFailures
  BY DEF PipelineFailures, ControlFailures
<1> HIDE DEF VisionCodes
<1>3. CASE StartControl
  <2>1. control.pc = "none" /\ control \in Control
    BY <1>3 DEF StartControl, IInv, TypeOK, ThreadInv, VisionAt
  <2> QED
    BY <1>3, <2>1 DEF StartControl, Control
<1>4. CASE StartFailed
  BY <1>1, <1>2, <1>4 DEF StartFailed
<1>5. CASE Begin \/ GrabFrame
  BY <1>5 DEF Begin, GrabFrame
<1>6. CASE Head \/ CheckTerminal \/ Answer
  BY <1>6 DEF Head, CheckTerminal, Answer
<1>7. ASSUME NEW code \in CameraGlitches \cup CameraFailures, GrabFails(code)
      PROVE  Reports(code, now) /\ code \in VisionCodes /\ UNCHANGED <<wire, control, stopping>>
  BY <1>1, <1>7 DEF GrabFails
<1>8. CASE Process \/ Update
  BY <1>1, <1>2, <1>8 DEF Process, Update
<1>9. CASE Evaluate \/ LogHealth \/ Publish
  BY <1>1, <1>9 DEF Evaluate, LogHealth, Publish
<1>10. CASE Show \/ Poll
  BY <1>1, <1>10 DEF Show, Poll, WindowFails
<1>11. CASE LowerFlag("stop", "join") \/ LowerFlag("exit", "exitJoin")
  BY <1>11 DEF LowerFlag
<1>12. CASE SendsLastStop("join", "answer") \/ SendsLastStop("exitJoin", "done")
  BY <1>12 DEF SendsLastStop
<1> QED
  BY <1>3, <1>4, <1>5, <1>6, <1>7, <1>8, <1>9, <1>10, <1>11, <1>12 DEF VisionStep

\* So the component of the sink, and when it was last good, are left alone.
LEMMA VisionLeavesSink ==
  ASSUME IInv, VisionStep
  PROVE  /\ sup'.component["COMMAND_SINK"] = sup.component["COMMAND_SINK"]
         /\ hist'.sink = hist.sink
<1> now \in Nat
  BY DEF IInv, TypeOK
<1>1. "COMMAND_SINK" \in Components /\ VisionComponents \subseteq Components
  BY DEF Components, VisionComponents
<1>2. CASE NoNews
  BY <1>2 DEF NoNews
<1>3. ASSUME NEW code \in VisionCodes, Reports(code, now)
      PROVE  /\ sup'.component["COMMAND_SINK"] = sup.component["COMMAND_SINK"]
             /\ hist'.sink = hist.sink
  <2>1. code \in Codes /\ ComponentOf(code) # "COMMAND_SINK"
    BY CodesOfComponents DEF VisionCodes
  <2> QED
    BY <1>1, <1>3, <2>1, ReportTouches
<1>4. ASSUME NEW k \in VisionComponents, Recovers(k, now)
      PROVE  /\ sup'.component["COMMAND_SINK"] = sup.component["COMMAND_SINK"]
             /\ hist'.sink = hist.sink
  <2>1. k \in Components /\ k # "COMMAND_SINK"
    BY <1>1 DEF VisionComponents
  <2> QED
    BY <1>1, <1>4, <2>1, RecoverTouches
<1> QED
  BY <1>2, <1>3, <1>4, VisionTells

\* The main thread enters the loop with a camera that was declared healthy, leaves it
\* for good, and sees faults of the camera in no other step than a grab.
LEMMA VisionFlow ==
  ASSUME IInv, VisionStep
  PROVE  /\ vision'.pc \in Looping => vision.pc \in Looping \/ Begin
         /\ vision.pc \notin Looping \cup {"start", "startFailed", "begin"} =>
              NoNews /\ vision'.pc \notin Looping \cup {"start", "startFailed", "begin"}
<1> USE DEF Looping, VisionAt
<1> vision \in Vision
  BY DEF IInv, TypeOK
<1>1. CASE StartControl \/ StartFailed \/ Begin
  BY <1>1 DEF StartControl, StartFailed, Begin, Vision, VisionTo
<1>2. CASE Head \/ CheckTerminal \/ GrabFrame \/ Process \/ Update \/ Evaluate \/ LogHealth
           \/ Publish \/ Show \/ Poll
  BY <1>2 DEF Head, CheckTerminal, GrabFrame, Process, Update, Evaluate, LogHealth, Publish,
              Show, Poll
<1>3. CASE \E code \in CameraGlitches \cup CameraFailures : GrabFails(code)
  BY <1>3 DEF GrabFails
<1>4. CASE Answer
  BY <1>4 DEF Answer, VisionTo, Vision
<1>5. CASE LowerFlag("stop", "join") \/ LowerFlag("exit", "exitJoin")
  BY <1>5 DEF LowerFlag, VisionTo, Vision
<1>6. CASE SendsLastStop("join", "answer") \/ SendsLastStop("exitJoin", "done")
  BY <1>6 DEF SendsLastStop, VisionTo, Vision
<1> QED
  BY <1>1, <1>2, <1>3, <1>4, <1>5, <1>6 DEF VisionStep

\* What the control thread tells the supervisor; it leaves everything of the main
\* thread alone.
LEMMA ControlTells ==
  ASSUME IInv, ControlStep
  PROVE  /\ \/ NoNews
            \/ ControlAt("observe") /\ Reports(SinkFault, control.now)
            \/ ControlAt("observe") /\ Recovers("COMMAND_SINK", control.now)
            \/ ControlAt("report") /\ Reports("CONTROL_THREAD_EXCEPTION", now)
         /\ UNCHANGED <<vision, stopping, outcome>>
BY DEF ControlStep, BeginCycle, ReadHealth, Act, CycleThrows, ObserveCommandChannel, SafeStop,
       Caught, ReportException

LEMMA ControlLeavesTheRest ==
  ASSUME IInv, ControlStep
  PROVE  /\ \A k \in {"CAMERA", "SIMULATION_EVALUATION", "DEBUG_WINDOW"} :
              sup'.component[k] = sup.component[k]
         /\ hist'.frame = hist.frame
         /\ hist'.evaluation = hist.evaluation /\ hist'.window = hist.window
<1> now \in Nat /\ control.now \in Nat
  BY DEF IInv, TypeOK, Control
<1>1. /\ SinkFault \in Codes /\ "CONTROL_THREAD_EXCEPTION" \in Codes
      /\ SinkFault \notin EvaluationFaults \cup WindowFaults
      /\ "CONTROL_THREAD_EXCEPTION" \notin EvaluationFaults \cup WindowFaults
      /\ ComponentOf(SinkFault) = "COMMAND_SINK"
      /\ ComponentOf("CONTROL_THREAD_EXCEPTION") = "CONTROL_RUNTIME"
  BY DEF SinkFault, ComponentOf, Codes, CameraGlitches, CameraFailures, PipelineFailures,
         ControlFailures, SinkFaults, EvaluationFaults, WindowFaults, DiagnosticsFaults
<1>2. /\ "COMMAND_SINK" \in Components
      /\ {"CAMERA", "SIMULATION_EVALUATION", "DEBUG_WINDOW"} \subseteq Components
      /\ \A k \in {"CAMERA", "SIMULATION_EVALUATION", "DEBUG_WINDOW"} :
           k # "COMMAND_SINK" /\ k # "CONTROL_RUNTIME"
  BY DEF Components
<1>3. CASE NoNews
  BY <1>3 DEF NoNews
<1>4. CASE Reports(SinkFault, control.now)
  BY <1>1, <1>2, <1>4, ReportTouches
<1>5. CASE Reports("CONTROL_THREAD_EXCEPTION", now)
  BY <1>1, <1>2, <1>5, ReportTouches
<1>6. CASE Recovers("COMMAND_SINK", control.now)
  BY <1>2, <1>6, RecoverTouches
<1> QED
  BY <1>3, <1>4, <1>5, <1>6, ControlTells

-----------------------------------------------------------------------------
(* Every step keeps WatchInv. *)

LEMMA SinkInvKept ==
  ASSUME IInv, SinkInv, VisionStep \/ ControlStep
  PROVE  SinkInv'
<1> DEFINE c == sup.component["COMMAND_SINK"]
<1> USE DEF ControlAt
<1>1. "COMMAND_SINK" \in Components /\ c \in ComponentState /\ control \in Control
  BY DEF IInv, TypeOK, Supervisor, Components
<1>2. CASE VisionStep
  <2>1. c' = c /\ hist'.sink = hist.sink
    BY <1>2, VisionLeavesSink
  <2>2. wire' \in {wire, "STOP"}
    BY <1>2, VisionTells
  <2>3. CASE control' = control
    BY <2>1, <2>2, <2>3 DEF SinkInv
  <2>4. CASE control' = [control EXCEPT !.running = FALSE]
    <3>1. /\ control'.pc = control.pc /\ ~control'.running
          /\ control'.terminate = control.terminate /\ control'.loaded = control.loaded
      BY <1>1, <2>4 DEF Control
    <3> QED
      BY <2>1, <2>2, <3>1 DEF SinkInv
  <2>5. CASE control.pc = "none" /\ control'.pc = "head" /\ UNCHANGED wire
    BY <2>1, <2>5 DEF SinkInv
  <2> QED
    BY <1>2, <2>3, <2>4, <2>5, VisionTells
<1>3. NoNews => c' = c /\ hist'.sink = hist.sink
  BY DEF NoNews
<1>4. CASE BeginCycle
  BY <1>1, <1>3, <1>4 DEF SinkInv, BeginCycle, Idle, Control
<1>5. CASE ReadHealth \/ CycleThrows
  BY <1>1, <1>3, <1>5 DEF SinkInv, ReadHealth, CycleThrows, ControlTo, Control
<1>6. CASE Act
  <2>1. control'.pc = "observe" /\ control'.loaded = control.loaded /\ control.pc = "act"
    BY <1>1, <1>6 DEF Act, Control
  <2>2. ~control.loaded => wire' = "STOP"
    BY <1>6 DEF Act
  <2>3. c' = c /\ hist'.sink = hist.sink
    BY <1>3, <1>6 DEF Act
  <2> QED
    BY <2>1, <2>2, <2>3 DEF SinkInv
<1>7. CASE SafeStop \/ Caught
  BY <1>1, <1>3, <1>7 DEF SinkInv, SafeStop, Caught, CycleEnds, Idle, Control
<1>8. CASE ReportException
  <2>1. c' = c /\ hist'.sink = hist.sink
    <3>1. /\ "CONTROL_THREAD_EXCEPTION" \in Codes
          /\ ComponentOf("CONTROL_THREAD_EXCEPTION") # "COMMAND_SINK"
      BY CodesOfComponents DEF Codes, ControlFailures, SinkFaults
    <3>2. now \in Nat
      BY DEF IInv, TypeOK
    <3> QED
      BY <1>1, <1>8, <3>1, <3>2, ReportTouches DEF ReportException
  <2> QED
    BY <1>1, <1>8, <2>1 DEF SinkInv, ReportException, ControlTo, Control
<1>9. CASE ObserveCommandChannel
  <2>1. /\ c.health # "FAILED" /\ control.pc = "observe" /\ control.now \in Nat
        /\ ~control.loaded => wire = "STOP"
        /\ wire' = wire
    BY <1>1, <1>9 DEF SinkInv, ObserveCommandChannel, Control
  <2>2. CASE control.healthy /\ control.sent
    <3>1. Recovers("COMMAND_SINK", control.now) /\ control'.pc = "head"
      BY <1>9, <2>2 DEF ObserveCommandChannel, CycleEnds, Idle
    <3>2. /\ c'.health # "FAILED" /\ ~c'.active
          /\ c'.lastHealthy = control.now /\ hist'.sink = control.now
      BY <1>1, <2>1, <3>1, RecoverTouches
    <3> QED
      BY <3>1, <3>2 DEF SinkInv
  <2>3. CASE ~(control.healthy /\ control.sent)
    <3> DEFINE d == Decision(sup, SinkFault, control.now)
    <3>1. /\ Reports(SinkFault, control.now)
          /\ IF control.loaded
             THEN control' = [control EXCEPT !.pc = "safeStop", !.terminate = d.terminate]
             ELSE control' = [Idle EXCEPT !.pc = "head", !.running = control.running /\ ~d.terminate]
      BY <1>9, <2>3 DEF ObserveCommandChannel, CycleEnds
    <3>2. SinkFault \in Codes /\ ComponentOf(SinkFault) = "COMMAND_SINK"
      BY CodesOfComponents DEF SinkFault, Codes, SinkFaults
    <3>3. c'.lastHealthy = c.lastHealthy /\ hist'.sink = hist.sink
      BY <1>1, <2>1, <3>1, <3>2, ReportTouches
    <3>4. c'.health = "FAILED" => d.terminate
      <4> DEFINE e == Reported(sup, SinkFault, control.now)
      <4>1. e.health # "FAILED"
        BY <1>1, <2>1, <3>2 DEF Reported, Entered, ComponentState
      <4>2. sup'.component["COMMAND_SINK"]
              = IF Terminates(SinkFault, e, control.now) THEN [e EXCEPT !.health = "FAILED"] ELSE e
        BY <1>1, <3>1, <3>2 DEF Reports, Report, IInv, TypeOK, Supervisor
      <4> QED
        BY <4>1, <4>2 DEF Decision
    <3> HIDE DEF d
    <3>5. /\ control.loaded => control'.pc = "safeStop" /\ control'.terminate = d.terminate
          /\ ~control.loaded => /\ control'.pc = "head"
                                /\ control'.running = (control.running /\ ~d.terminate)
      BY <1>1, <3>1 DEF Control, Idle
    <3> QED
      BY <2>1, <3>3, <3>4, <3>5 DEF SinkInv
  <2> QED
    BY <2>2, <2>3
<1> QED
  BY <1>2, <1>4, <1>5, <1>6, <1>7, <1>8, <1>9 DEF ControlStep

LEMMA CameraInvKept ==
  ASSUME IInv, CameraInv, VisionStep \/ ControlStep
  PROVE  CameraInv'
<1> DEFINE c == sup.component["CAMERA"]
<1>1. "CAMERA" \in Components /\ now \in Nat /\ VisionComponents \subseteq Components
  BY DEF Components, IInv, TypeOK, VisionComponents
<1>2. CASE ControlStep
  BY <1>2, ControlTells, ControlLeavesTheRest DEF CameraInv
<1>3. CASE VisionStep
  <2>1. c'.lastHealthy = hist'.frame /\ hist'.frame \in {hist.frame, now}
    <3>1. CASE NoNews
      BY <3>1 DEF CameraInv, NoNews
    <3>2. ASSUME NEW code \in VisionCodes, Reports(code, now)
          PROVE  c'.lastHealthy = hist'.frame /\ hist'.frame = hist.frame
      <4>1. code \in Codes
        BY DEF VisionCodes
      <4> QED
        BY <1>1, <3>2, <4>1, ReportTouches DEF CameraInv
    <3>3. ASSUME NEW k \in VisionComponents, Recovers(k, now)
          PROVE  c'.lastHealthy = hist'.frame /\ hist'.frame \in {hist.frame, now}
      BY <1>1, <3>3, RecoverTouches DEF CameraInv
    <3> QED
      BY <1>3, <3>1, <3>2, <3>3, VisionTells
  <2>2. CASE Begin
    <3>1. hist'.frame = now
      BY <1>1, <2>2, RecoverTouches DEF Begin
    <3> QED
      BY <1>1, <2>1, <3>1 DEF CameraInv, Never
  <2>3. CASE ~Begin
    BY <1>1, <1>3, <2>1, <2>3, VisionFlow DEF CameraInv, Never
  <2> QED
    BY <2>2, <2>3
<1> QED
  BY <1>2, <1>3

\* A fault latched by the main thread that is a timeout is the camera's, in a grab that
\* leaves the loop.
LEMMA CameraTimeouts ==
  ASSUME IInv, CameraInv, VisionStep, sup.terminal = {}, NEW f \in sup'.terminal
  PROVE  /\ f.code \notin SinkFaults
         /\ f.code \in CameraGlitches =>
              /\ vision'.pc = "stop"
              /\ hist'.latched - hist'.frame >= CameraTimeout
<1>1. now \in Nat /\ vision \in Vision
  BY DEF IInv, TypeOK
<1>2. PICK code \in VisionCodes :
        Reports(code, now) /\ (code \in CameraGlitches => GrabFails(code))
  <2>1. \A k \in VisionComponents : Recovers(k, now) => sup'.terminal = {}
    BY <1>1, RecoverTouches DEF VisionComponents, Components
  <2>2. NoNews => sup'.terminal = {}
    BY DEF NoNews
  <2> QED
    BY <2>1, <2>2, VisionTells
<1>3. code \in Codes /\ code \notin SinkFaults
  BY DEF VisionCodes
<1>4. f.code = code /\ hist'.latched = now
  BY <1>1, <1>2, <1>3, ReportLatches
<1>5. ASSUME f.code \in CameraGlitches
      PROVE  vision'.pc = "stop" /\ hist'.latched - hist'.frame >= CameraTimeout
  <2>1. ComponentOf(code) = "CAMERA"
    BY <1>3, <1>4, <1>5, CodesOfComponents
  <2>2. now - BadSince(sup'.component["CAMERA"]) >= CameraTimeout
    BY <1>1, <1>2, <1>3, <1>4, <1>5, <2>1, ReportLatches
  <2>3. sup'.component["CAMERA"].lastHealthy = hist.frame /\ hist'.frame = hist.frame
    BY <1>1, <1>2, <1>3, <2>1, ReportTouches DEF CameraInv
  <2>4. GrabFails(code) /\ Decision(sup, code, now).terminate
    BY <1>2, <1>4, <1>5 DEF Decision, Reports, Report, Latched
  <2>5. VisionAt("grab") /\ vision'.pc = "stop"
    BY <1>1, <2>4 DEF GrabFails, StopWith, Vision
  <2>6. hist.frame # Never
    BY <2>5 DEF CameraInv, Looping, VisionAt
  <2> QED
    BY <1>4, <2>2, <2>3, <2>5, <2>6 DEF BadSince
<1> QED
  BY <1>3, <1>4, <1>5

LEMMA TimeoutInvKept ==
  ASSUME IInv, SinkInv, CameraInv, TimeoutInv, VisionStep \/ ControlStep, News
  PROVE  TimeoutInv'
<1> SUFFICES ASSUME NEW f \in sup'.terminal
             PROVE  /\ f.code \in CameraGlitches =>
                         /\ vision'.pc \notin Looping \cup {"start", "startFailed", "begin"}
                         /\ hist'.latched - hist'.frame >= CameraTimeout
                    /\ f.code \in SinkFaults =>
                         /\ sup'.component["COMMAND_SINK"].health = "FAILED"
                         /\ hist'.latched - (IF hist'.sink # Never THEN hist'.sink ELSE f.firstSeen)
                              >= SinkTimeout
  BY DEF TimeoutInv
<1>1. now \in Nat /\ control.now \in Nat /\ "COMMAND_SINK" \in Components
  BY DEF IInv, TypeOK, Control, Components
<1>2. SinkFault \in SinkFaults /\ SinkFaults \subseteq Codes
  BY DEF SinkFault, SinkFaults, Codes
<1>3. CameraGlitches \cap SinkFaults = {}
  BY DEF CameraGlitches, SinkFaults
<1>4. CASE VisionStep
  <2>1. sup'.component["COMMAND_SINK"] = sup.component["COMMAND_SINK"] /\ hist'.sink = hist.sink
    BY <1>4, VisionLeavesSink
  <2>2. CASE sup.terminal = {}
    <3>1. f.code \notin SinkFaults
          /\ (f.code \in CameraGlitches =>
                vision'.pc = "stop" /\ hist'.latched - hist'.frame >= CameraTimeout)
      BY <1>4, <2>2, CameraTimeouts
    <3> QED
      BY <3>1 DEF Looping
  <2>3. CASE sup.terminal # {}
    <3>1. f \in sup.terminal /\ hist'.latched = hist.latched
      <4>1. \A code \in VisionCodes : Reports(code, now) => hist'.latched = hist.latched
        BY <1>1, <2>3, ReportTouches DEF VisionCodes
      <4>2. \A k \in VisionComponents : Recovers(k, now) => hist'.latched = hist.latched
        BY <1>1, RecoverTouches DEF VisionComponents, Components
      <4> QED
        BY <1>4, <2>3, <4>1, <4>2, VisionTells DEF News, KeepsFailures, NoNews
    <3>2. ASSUME f.code \in CameraGlitches
          PROVE  /\ vision'.pc \notin Looping \cup {"start", "startFailed", "begin"}
                 /\ hist'.latched - hist'.frame >= CameraTimeout
      <4>1. vision.pc \notin Looping \cup {"start", "startFailed", "begin"}
        BY <3>1, <3>2 DEF TimeoutInv
      <4>2. NoNews /\ vision'.pc \notin Looping \cup {"start", "startFailed", "begin"}
        BY <1>4, <4>1, VisionFlow
      <4> QED
        BY <3>1, <3>2, <4>2 DEF TimeoutInv, NoNews
    <3> QED
      BY <2>1, <3>1, <3>2 DEF TimeoutInv
  <2> QED
    BY <2>2, <2>3
<1>5. CASE ControlStep
  <2>1. UNCHANGED vision /\ hist'.frame = hist.frame
    BY <1>5, ControlTells, ControlLeavesTheRest
  <2>2. CASE sup.terminal = {}
    <3>1. CASE NoNews
      BY <2>2, <3>1 DEF NoNews
    <3>2. CASE Recovers("COMMAND_SINK", control.now)
      BY <1>1, <2>2, <3>2, RecoverTouches
    <3>3. CASE Reports("CONTROL_THREAD_EXCEPTION", now)
      <4>1. /\ "CONTROL_THREAD_EXCEPTION" \in Codes
            /\ "CONTROL_THREAD_EXCEPTION" \notin CameraGlitches \cup SinkFaults
        BY DEF Codes, ControlFailures, CameraGlitches, SinkFaults
      <4>2. f.code = "CONTROL_THREAD_EXCEPTION"
        BY <1>1, <2>2, <3>3, <4>1, ReportLatches
      <4> QED
        BY <4>1, <4>2
    <3>4. CASE Reports(SinkFault, control.now)
      <4>1. SinkFault \in Codes /\ ComponentOf(SinkFault) = "COMMAND_SINK"
        BY <1>2, CodesOfComponents
      <4> DEFINE c == sup.component["COMMAND_SINK"]
      <4>2. /\ f.code = SinkFault /\ hist'.latched = control.now
            /\ c'.health = "FAILED" /\ f.firstSeen = c'.firstSeen
            /\ control.now - BadSince(c') >= SinkTimeout
        BY <1>1, <1>2, <2>2, <3>4, <4>1, ReportLatches
      <4>3. c'.lastHealthy = hist'.sink
        BY <1>1, <3>4, <4>1, ReportTouches DEF SinkInv
      <4> HIDE DEF c
      <4> QED
        BY <1>2, <1>3, <4>2, <4>3 DEF BadSince, c
    <3> QED
      BY <1>5, <3>1, <3>2, <3>3, <3>4, ControlTells
  <2>3. CASE sup.terminal # {}
    <3>1. f \in sup.terminal
      BY <2>3 DEF News, KeepsFailures
    <3>2. "CONTROL_THREAD_EXCEPTION" \in Codes /\ SinkFault \in Codes
      BY <1>2 DEF Codes, ControlFailures
    <3>3. hist'.latched = hist.latched
      <4>1. NoNews => hist'.latched = hist.latched
        BY DEF NoNews
      <4>2. Recovers("COMMAND_SINK", control.now) => hist'.latched = hist.latched
        BY <1>1, RecoverTouches
      <4>3. Reports(SinkFault, control.now) => hist'.latched = hist.latched
        BY <1>1, <2>3, <3>2, ReportTouches
      <4>4. Reports("CONTROL_THREAD_EXCEPTION", now) => hist'.latched = hist.latched
        BY <1>1, <2>3, <3>2, ReportTouches
      <4> QED
        BY <1>5, <4>1, <4>2, <4>3, <4>4, ControlTells
    <3>4. ASSUME f.code \in SinkFaults
          PROVE  /\ sup'.component["COMMAND_SINK"].health = "FAILED"
                 /\ hist'.sink = hist.sink
      <4>1. sup.component["COMMAND_SINK"].health = "FAILED"
        BY <3>1, <3>4 DEF TimeoutInv
      <4>2. ~ControlAt("observe") /\ ~ControlAt("report")
        BY <4>1 DEF SinkInv, ControlAt
      <4>3. NoNews
        BY <1>5, <4>2, ControlTells
      <4> QED
        BY <4>1, <4>3 DEF NoNews
    <3> QED
      BY <2>1, <3>1, <3>3, <3>4 DEF TimeoutInv
  <2> QED
    BY <2>2, <2>3
<1> QED
  BY <1>4, <1>5

\* Whether a part is in use after its count has gone up: only the failure that reaches
\* the threshold gives it up.
InUse(used, n) ==
  /\ used => n < DisableAfter
  /\ n \in 1 .. (DisableAfter - 1) => used

LEMMA GivenUpAtThreshold ==
  ASSUME IInv, NEW code \in {"EVALUATION_EXCEPTION", "DEBUG_WINDOW_EXCEPTION"}, NEW t \in Nat,
         Reports(code, t), NEW n \in 0 .. (DisableAfter + 1),
         Counts(sup.component[ComponentOf(code)], n), n < DisableAfter
  PROVE  /\ Counts(sup'.component[ComponentOf(code)], n + 1)
         /\ InUse(~Decision(sup, code, t).disable, n + 1)
<1> DEFINE c == Reported(sup, code, t)
<1>1. code \in EvaluationFaults \cup WindowFaults
  BY DEF EvaluationFaults, WindowFaults
<1>2. Counts(sup'.component[ComponentOf(code)], n + 1) /\ c.consecutive = n + 1
  BY <1>1, ReportCounts
<1>3. Decision(sup, code, t).disable <=> n + 1 = DisableAfter
  BY <1>1, <1>2 DEF Decision, Disables, Counted
<1> QED
  BY <1>2, <1>3 DEF InUse

\* No other step of the main thread touches the count of a part.
LEMMA OthersKeepCounts ==
  ASSUME IInv, PartsInv,
         \/ NoNews
         \/ \E code \in VisionCodes \ (EvaluationFaults \cup WindowFaults) : Reports(code, now)
         \/ \E k \in VisionComponents \ {"SIMULATION_EVALUATION", "DEBUG_WINDOW"} : Recovers(k, now)
  PROVE  /\ Counts(sup.component["SIMULATION_EVALUATION"], hist.evaluation)'
         /\ Counts(sup.component["DEBUG_WINDOW"], hist.window)'
         /\ hist'.evaluation = hist.evaluation /\ hist'.window = hist.window
<1>1. {"SIMULATION_EVALUATION", "DEBUG_WINDOW"} \subseteq Components /\ now \in Nat
      /\ VisionComponents \subseteq Components
  BY DEF Components, VisionComponents, IInv, TypeOK
<1>2. /\ sup'.component["SIMULATION_EVALUATION"] = sup.component["SIMULATION_EVALUATION"]
      /\ sup'.component["DEBUG_WINDOW"] = sup.component["DEBUG_WINDOW"]
      /\ hist'.evaluation = hist.evaluation /\ hist'.window = hist.window
  <2>1. CASE NoNews
    BY <2>1 DEF NoNews
  <2>2. CASE \E code \in VisionCodes \ (EvaluationFaults \cup WindowFaults) : Reports(code, now)
    <3>1. PICK code \in VisionCodes \ (EvaluationFaults \cup WindowFaults) : Reports(code, now)
      BY <2>2
    <3>2. /\ code \in Codes
          /\ ComponentOf(code) \notin {"SIMULATION_EVALUATION", "DEBUG_WINDOW"}
      BY CodesOfComponents DEF VisionCodes
    <3> QED
      BY <1>1, <3>1, <3>2, ReportTouches
  <2>3. CASE \E k \in VisionComponents \ {"SIMULATION_EVALUATION", "DEBUG_WINDOW"} : Recovers(k, now)
    BY <1>1, <2>3, RecoverTouches
  <2> QED
    BY <2>1, <2>2, <2>3
<1> QED
  BY <1>2 DEF Counts, PartsInv

LEMMA EvaluateKeepsParts ==
  ASSUME IInv, PartsInv, Evaluate
  PROVE  PartsInv'
<1>1. /\ vision \in Vision /\ now \in Nat /\ hist \in History
      /\ hist.evaluation \in 0 .. (DisableAfter + 1)
  BY DEF IInv, TypeOK, History
<1>2. {"SIMULATION_EVALUATION", "DEBUG_WINDOW"} \subseteq Components
  BY DEF Components
<1>3. VisionAt("evaluate") /\ vision.evaluator /\ hist.evaluation < DisableAfter
  BY DEF Evaluate, PartsInv, DisabledAfterThreshold, VisionAt
<1>4. FromPublish \notin {"evaluate", "poll"} /\ (FromPublish = "show" => vision.window)
  BY DEF FromPublish, FromShow
<1>5. CASE NoNews /\ VisionTo(FromPublish)
  <2>1. vision' = [vision EXCEPT !.pc = FromPublish]
    BY <1>5 DEF VisionTo
  <2>2. /\ vision'.pc = FromPublish
        /\ vision'.evaluator = vision.evaluator /\ vision'.window = vision.window
    BY <1>1, <2>1 DEF Vision
  <2> QED
    BY <1>4, <1>5, <2>2, OthersKeepCounts DEF PartsInv, DisabledAfterThreshold, VisionAt
<1>6. CASE Recovers("SIMULATION_EVALUATION", now) /\ VisionTo("log")
  <2>1. /\ vision'.pc = "log"
        /\ vision'.evaluator = vision.evaluator /\ vision'.window = vision.window
    BY <1>1, <1>6 DEF Vision, VisionTo
  <2>2. /\ hist'.evaluation = 0 /\ hist'.window = hist.window
        /\ sup'.component["DEBUG_WINDOW"] = sup.component["DEBUG_WINDOW"]
        /\ sup'.component["SIMULATION_EVALUATION"].health # "FAILED"
        /\ ~sup'.component["SIMULATION_EVALUATION"].active
    BY <1>1, <1>2, <1>6, RecoverTouches DEF PartsInv, Counts
  <2> QED
    BY <1>3, <2>1, <2>2 DEF PartsInv, Counts, DisabledAfterThreshold, VisionAt
<1>7. CASE /\ Reports("EVALUATION_EXCEPTION", now)
           /\ vision' = [vision EXCEPT !.pc = FromPublish,
                !.evaluator = ~Decision(sup, "EVALUATION_EXCEPTION", now).disable]
  <2> DEFINE b == ~Decision(sup, "EVALUATION_EXCEPTION", now).disable
             n == hist.evaluation
  <2>1. /\ "EVALUATION_EXCEPTION" \in Codes /\ "EVALUATION_EXCEPTION" \in EvaluationFaults
        /\ "EVALUATION_EXCEPTION" \notin WindowFaults
        /\ ComponentOf("EVALUATION_EXCEPTION") = "SIMULATION_EVALUATION"
    BY CodesOfComponents DEF Codes, EvaluationFaults, WindowFaults
  <2>2. Counts(sup'.component["SIMULATION_EVALUATION"], n + 1) /\ InUse(b, n + 1)
    BY <1>1, <1>3, <1>7, <2>1, GivenUpAtThreshold DEF PartsInv
  <2>3. hist'.evaluation = n + 1 /\ hist'.window = hist.window
    <3>1. n <= DisableAfter
      BY <1>1, <1>3
    <3> QED
      BY <1>1, <1>7, <2>1, <3>1 DEF Reports, History
  <2>4. sup'.component["DEBUG_WINDOW"] = sup.component["DEBUG_WINDOW"]
    BY <1>1, <1>2, <1>7, <2>1, ReportTouches
  <2>5. vision'.pc = FromPublish /\ vision'.window = vision.window /\ vision'.evaluator = b
    BY <1>1, <1>7 DEF Vision
  <2> HIDE DEF b
  <2> QED
    BY <1>4, <2>2, <2>3, <2>4, <2>5
       DEF PartsInv, Counts, DisabledAfterThreshold, VisionAt, InUse
<1> QED
  BY <1>5, <1>6, <1>7 DEF Evaluate

LEMMA WindowFailsKeepsParts ==
  ASSUME IInv, PartsInv, vision.pc \in {"show", "poll"},
         NEW next \in {"poll", "head"}, WindowFails(next)
  PROVE  PartsInv'
<1> DEFINE b == ~Decision(sup, "DEBUG_WINDOW_EXCEPTION", now).disable
           n == hist.window
<1>1. /\ vision \in Vision /\ now \in Nat /\ hist \in History
      /\ hist.window \in 0 .. (DisableAfter + 1)
  BY DEF IInv, TypeOK, History
<1>2. {"SIMULATION_EVALUATION", "DEBUG_WINDOW"} \subseteq Components
  BY DEF Components
<1>3. n < DisableAfter
  BY DEF PartsInv, DisabledAfterThreshold
<1>4. /\ Reports("DEBUG_WINDOW_EXCEPTION", now)
      /\ vision' = [vision EXCEPT !.pc = IF ~b THEN "head" ELSE next,
                       !.window = b, !.windowFailed = TRUE]
  BY DEF WindowFails, Decision, Disables
<1>5. /\ "DEBUG_WINDOW_EXCEPTION" \in Codes /\ "DEBUG_WINDOW_EXCEPTION" \in WindowFaults
      /\ "DEBUG_WINDOW_EXCEPTION" \notin EvaluationFaults
      /\ ComponentOf("DEBUG_WINDOW_EXCEPTION") = "DEBUG_WINDOW"
  BY CodesOfComponents DEF Codes, EvaluationFaults, WindowFaults
<1>6. Counts(sup'.component["DEBUG_WINDOW"], n + 1) /\ InUse(b, n + 1)
  BY <1>1, <1>3, <1>4, <1>5, GivenUpAtThreshold DEF PartsInv
<1>7. hist'.window = n + 1 /\ hist'.evaluation = hist.evaluation
  <2>1. n <= DisableAfter
    BY <1>1, <1>3
  <2> QED
    BY <1>1, <1>4, <1>5, <2>1 DEF Reports, History
<1>8. sup'.component["SIMULATION_EVALUATION"] = sup.component["SIMULATION_EVALUATION"]
  BY <1>1, <1>2, <1>4, <1>5, ReportTouches
<1>9. /\ vision'.pc \in {"head", next} /\ (vision'.pc # "head" => b)
      /\ vision'.window = b /\ vision'.evaluator = vision.evaluator
  BY <1>1, <1>4 DEF Vision
<1> HIDE DEF b
<1> QED
  BY <1>6, <1>7, <1>8, <1>9 DEF PartsInv, Counts, DisabledAfterThreshold, VisionAt, InUse

LEMMA ShowAndPollKeepParts ==
  ASSUME IInv, PartsInv, Show \/ Poll
  PROVE  PartsInv'
<1>1. vision \in Vision /\ now \in Nat
  BY DEF IInv, TypeOK
<1>2. {"SIMULATION_EVALUATION", "DEBUG_WINDOW"} \subseteq Components
  BY DEF Components
<1>3. vision.pc \in {"show", "poll"} /\ vision.window
  BY DEF Show, Poll, VisionAt, PartsInv
<1>4. CASE WindowFails("poll") \/ WindowFails("head")
  BY <1>3, <1>4, WindowFailsKeepsParts
<1>5. CASE NoNews /\ (VisionTo("poll") \/ VisionTo("exit") \/ VisionTo("head"))
  <2>1. /\ vision'.pc \in {"poll", "exit", "head"}
        /\ vision'.evaluator = vision.evaluator /\ vision'.window = vision.window
    BY <1>1, <1>5 DEF Vision, VisionTo
  <2> QED
    BY <1>3, <1>5, <2>1, OthersKeepCounts DEF PartsInv, DisabledAfterThreshold, VisionAt
<1>6. CASE ~vision.windowFailed /\ Recovers("DEBUG_WINDOW", now) /\ VisionTo("head")
  <2>1. /\ vision'.pc = "head"
        /\ vision'.evaluator = vision.evaluator /\ vision'.window = vision.window
    BY <1>1, <1>6 DEF Vision, VisionTo
  <2>2. /\ hist'.window = 0 /\ hist'.evaluation = hist.evaluation
        /\ sup'.component["SIMULATION_EVALUATION"] = sup.component["SIMULATION_EVALUATION"]
        /\ sup'.component["DEBUG_WINDOW"].health # "FAILED"
        /\ ~sup'.component["DEBUG_WINDOW"].active
    BY <1>1, <1>2, <1>6, RecoverTouches DEF PartsInv, Counts
  <2> QED
    BY <2>1, <2>2 DEF PartsInv, Counts, DisabledAfterThreshold, VisionAt
<1> QED
  BY <1>4, <1>5, <1>6 DEF Show, Poll

LEMMA PartsInvKept ==
  ASSUME IInv, PartsInv, VisionStep \/ ControlStep
  PROVE  PartsInv'
<1>1. vision \in Vision /\ now \in Nat
  BY DEF IInv, TypeOK
<1>2. CASE ControlStep
  <2>1. /\ UNCHANGED vision
        /\ sup'.component["SIMULATION_EVALUATION"] = sup.component["SIMULATION_EVALUATION"]
        /\ sup'.component["DEBUG_WINDOW"] = sup.component["DEBUG_WINDOW"]
        /\ hist'.evaluation = hist.evaluation /\ hist'.window = hist.window
    BY <1>2, ControlTells, ControlLeavesTheRest
  <2> QED
    BY <2>1 DEF PartsInv, Counts, DisabledAfterThreshold, VisionAt
<1>3. CASE Evaluate \/ Show \/ Poll
  BY <1>3, EvaluateKeepsParts, ShowAndPollKeepParts
<1> DEFINE Other == VisionCodes \ (EvaluationFaults \cup WindowFaults)
           Quiet == VisionComponents \ {"SIMULATION_EVALUATION", "DEBUG_WINDOW"}
           Tells == \/ NoNews
                    \/ \E code \in Other : Reports(code, now)
                    \/ \E k \in Quiet : Recovers(k, now)
           Goes == /\ vision'.pc # "poll" /\ (vision'.pc = "show" => vision.window)
                   /\ vision'.pc = "evaluate" => vision.evaluator
                   /\ vision'.evaluator = vision.evaluator /\ vision'.window = vision.window
<1>4. ASSUME Tells,
             \/ Goes
             \/ /\ vision'.pc = "poll" /\ vision.window
                /\ vision'.evaluator = vision.evaluator /\ vision'.window = vision.window
      PROVE  PartsInv'
  BY <1>4, OthersKeepCounts DEF PartsInv, DisabledAfterThreshold, VisionAt
<1>5. /\ CameraGlitches \cup CameraFailures \cup PipelineFailures \cup ControlFailures
           \cup DiagnosticsFaults \subseteq Other
      /\ "CAMERA" \in Quiet /\ "DIAGNOSTICS" \in Quiet
  BY DEF VisionCodes, VisionComponents, Codes, CameraGlitches, CameraFailures, PipelineFailures,
         ControlFailures, SinkFaults, EvaluationFaults, WindowFaults, DiagnosticsFaults
<1>6. /\ "VISION_PIPELINE_EXCEPTION" \in PipelineFailures
      /\ "CONTROL_UPDATE_EXCEPTION" \in ControlFailures
      /\ "CONTROL_THREAD_EXCEPTION" \in ControlFailures
      /\ "DIAGNOSTICS_EXCEPTION" \in DiagnosticsFaults
      /\ "DIAGNOSTICS_UNAVAILABLE" \in DiagnosticsFaults
  BY DEF PipelineFailures, ControlFailures, DiagnosticsFaults
<1>7. /\ FromShow \in {"show", "head"} /\ (FromShow = "show" => vision.window)
      /\ FromPublish \in {"publish", "show", "head"} /\ (FromPublish = "show" => vision.window)
      /\ FromEvaluate \in {"evaluate", "publish", "show", "head"}
      /\ FromEvaluate = "show" => vision.window
      /\ FromEvaluate = "evaluate" => vision.evaluator
      /\ FromPoll \in {"poll", "head"} /\ (FromPoll = "poll" => vision.window)
  BY DEF FromShow, FromPublish, FromEvaluate, FromPoll
<1>8. \A pc \in {"startFailed", "begin", "head", "terminal", "grab", "process", "update",
                 "evaluate", "log", "publish", "show", "poll", "join", "answer", "exit",
                 "exitJoin", "done"} :
        VisionTo(pc) => /\ vision'.pc = pc
                        /\ vision'.evaluator = vision.evaluator /\ vision'.window = vision.window
  BY <1>1 DEF VisionTo, Vision
<1>9. \A reason \in Reasons :
        StopWith(reason) => /\ vision'.pc = "stop"
                            /\ vision'.evaluator = vision.evaluator
                            /\ vision'.window = vision.window
  BY <1>1 DEF StopWith, Vision
<1> HIDE DEF Other, Quiet, Tells, Goes
<1>10. CASE StartControl \/ StartFailed \/ Begin \/ GrabFrame
  <2>1. Tells
    BY <1>5, <1>6, <1>10 DEF StartControl, StartFailed, Begin, GrabFrame, Tells
  <2>2. Goes
    BY <1>1, <1>8, <1>10 DEF StartControl, StartFailed, Begin, GrabFrame, Vision, Goes
  <2> QED
    BY <1>4, <2>1, <2>2
<1>11. CASE Head \/ CheckTerminal \/ Answer
  <2>1. Tells
    BY <1>11 DEF Head, CheckTerminal, Answer, Tells
  <2>2. Goes
    BY <1>1, <1>8, <1>11 DEF Head, CheckTerminal, Answer, Vision, Goes
  <2> QED
    BY <1>4, <2>1, <2>2
<1>12. ASSUME NEW code \in CameraGlitches \cup CameraFailures, GrabFails(code)
       PROVE  PartsInv'
  <2>1. Tells
    BY <1>5, <1>12 DEF GrabFails, Tells
  <2>2. \/ StopWith("CAMERA_FAILURE") \/ VisionTo(FromPoll)
    BY <1>12 DEF GrabFails
  <2>3. "CAMERA_FAILURE" \in Reasons
    BY DEF Reasons
  <2>4. \/ Goes
        \/ /\ vision'.pc = "poll" /\ vision.window
           /\ vision'.evaluator = vision.evaluator /\ vision'.window = vision.window
    BY <1>7, <1>8, <1>9, <2>2, <2>3 DEF Goes
  <2> QED
    BY <1>4, <2>1, <2>4
<1>13. CASE Process \/ Update
  <2>1. Tells
    BY <1>5, <1>6, <1>13 DEF Process, Update, Tells
  <2>2. "PIPELINE_FAILURE" \in Reasons /\ "CONTROL_FAILURE" \in Reasons
    BY DEF Reasons
  <2>3. \/ VisionTo("update") \/ VisionTo(FromEvaluate)
        \/ StopWith("PIPELINE_FAILURE") \/ StopWith("CONTROL_FAILURE")
    BY <1>13 DEF Process, Update
  <2>4. Goes
    BY <1>7, <1>8, <1>9, <2>2, <2>3 DEF Goes
  <2> QED
    BY <1>4, <2>1, <2>4
<1>14. CASE LogHealth \/ Publish
  <2>1. Tells
    BY <1>5, <1>6, <1>14 DEF LogHealth, Publish, Tells
  <2>2. VisionTo(FromPublish) \/ VisionTo(FromShow)
    BY <1>14 DEF LogHealth, Publish
  <2>3. Goes
    BY <1>7, <1>8, <2>2 DEF Goes
  <2> QED
    BY <1>4, <2>1, <2>3
<1>15. CASE LowerFlag("stop", "join") \/ LowerFlag("exit", "exitJoin")
            \/ SendsLastStop("join", "answer") \/ SendsLastStop("exitJoin", "done")
  <2>1. Tells
    BY <1>15 DEF LowerFlag, SendsLastStop, Tells
  <2>2. Goes
    BY <1>8, <1>15 DEF LowerFlag, SendsLastStop, Goes
  <2> QED
    BY <1>4, <2>1, <2>2
<1> QED
  BY <1>2, <1>3, <1>10, <1>11, <1>12, <1>13, <1>14, <1>15 DEF VisionStep

\* Run returns NORMAL after a look at the stop request or by the window, which stays
\* open then, and another reason from the supervisor.
LEMMA ExitInvKept ==
  ASSUME IInv, PartsInv, ExitInv, News, VisionStep \/ ControlStep
  PROVE  ExitInv'
<1>1. vision \in Vision
  BY DEF IInv, TypeOK
<1>2. CASE ControlStep
  BY <1>2, ControlTells DEF ExitInv, News
<1>3. CASE Head
  BY <1>3 DEF Head, ExitInv, News, VisionAt, IInv, AnswerInv
<1>4. CASE Poll
  <2>1. vision.window /\ outcome = {}
    BY <1>4 DEF Poll, PartsInv, VisionAt, IInv, AnswerInv
  <2>2. outcome' # {} => outcome' = {"NORMAL"} /\ VisionTo("exit")
    BY <1>4, <2>1 DEF Poll
  <2> QED
    BY <1>1, <2>1, <2>2 DEF ExitInv, VisionTo, Vision
<1>5. CASE Answer
  BY <1>5 DEF Answer, ExitInv, News, VisionAt, IInv, AnswerInv
<1>6. CASE vision.pc \in {"exit", "exitJoin", "done"}
  <2>1. /\ UNCHANGED outcome \/ ControlStep
        /\ (vision' = [vision EXCEPT !.pc = "exitJoin"] \/ vision' = [vision EXCEPT !.pc = "done"])
             \/ ControlStep
    BY <1>6 DEF VisionStep, StartControl, StartFailed, Begin, Head, CheckTerminal, GrabFrame,
                GrabFails, Process, Update, Evaluate, LogHealth, Publish, Show, Poll, LowerFlag,
                SendsLastStop, Answer, VisionAt, VisionTo
  <2>2. VisionStep => UNCHANGED stopping
    BY VisionTells
  <2>3. VisionStep /\ ~ControlStep => vision'.window = vision.window
    BY <1>1, <2>1 DEF Vision
  <2> QED
    BY <1>2, <2>1, <2>2, <2>3 DEF ExitInv, News
<1>7. CASE vision.pc \notin {"exit", "exitJoin", "done"} /\ ~(Head \/ Poll \/ Answer) /\ VisionStep
  <2>1. outcome = {} /\ UNCHANGED outcome
    BY <1>7 DEF IInv, AnswerInv,
                VisionStep, StartControl, StartFailed, Begin, CheckTerminal, GrabFrame,
                GrabFails, Process, Update, Evaluate, LogHealth, Publish, Show, LowerFlag,
                SendsLastStop, VisionAt
  <2> QED
    BY <2>1 DEF ExitInv
<1> QED
  BY <1>2, <1>3, <1>4, <1>5, <1>6, <1>7

LEMMA WatchInit == Init => WatchInv
<1> SUFFICES ASSUME Init PROVE WatchInv
  OBVIOUS
<1>1. \A k \in Components : sup.component[k] = FreshComponent
  BY DEF Init, FreshSupervisor
<1>2. {"COMMAND_SINK", "CAMERA", "SIMULATION_EVALUATION", "DEBUG_WINDOW"} \subseteq Components
  BY DEF Components
<1>3. sup.terminal = {}
  BY DEF Init, FreshSupervisor
<1>4. SinkInv /\ CameraInv
  BY <1>1, <1>2 DEF Init, SinkInv, CameraInv, FreshComponent, Looping, ControlAt, Idle
<1>5. PartsInv
  BY <1>1, <1>2 DEF Init, PartsInv, Counts, FreshComponent, VisionAt, DisabledAfterThreshold
<1> QED
  BY <1>3, <1>4, <1>5 DEF Init, WatchInv, TimeoutInv, ExitInv

LEMMA WatchStep == IInv /\ WatchInv /\ [Next]_vars => WatchInv'
<1> SUFFICES ASSUME IInv, WatchInv, [Next]_vars PROVE WatchInv'
  OBVIOUS
<1> USE DEF WatchInv
<1>1. CASE VisionStep \/ ControlStep
  <2>1. Kept
    BY <1>1, VisionKeeps, ControlKeeps
  <2>2. News
    BY <2>1 DEF Kept, KeepsFailures, News, IInv, TypeOK, TerminalReason
  <2> QED
    BY <1>1, <2>2, SinkInvKept, CameraInvKept, TimeoutInvKept, PartsInvKept, ExitInvKept
<1>2. CASE Signal
  BY <1>2 DEF Signal, SinkInv, CameraInv, TimeoutInv, PartsInv, ExitInv, Counts, ControlAt, VisionAt,
              DisabledAfterThreshold, TerminalReason
<1>3. CASE Tick \/ UNCHANGED vars
  BY <1>3 DEF Tick, vars, SinkInv, CameraInv, TimeoutInv, PartsInv, ExitInv, Counts, ControlAt,
              VisionAt, DisabledAfterThreshold, TerminalReason
<1> QED
  BY <1>1, <1>2, <1>3 DEF Next

\* WatchInv holds throughout: it is inductive relative to IInv.
THEOREM ComponentsAreWatched == Spec => []WatchInv
BY WatchInit, WatchStep, Soundness, PTL DEF Spec

\* control_runtime_loop.cpp 74-78: whatever the main thread does meanwhile, no aiming
\* command is in force between two cycles while the sink is in fault.
THEOREM UnhealthyCyclesStop == Spec => []UnhealthyCyclesEndStopped
<1>1. WatchInv => UnhealthyCyclesEndStopped
  BY DEF WatchInv, SinkInv, UnhealthyCyclesEndStopped
<1> QED
  BY <1>1, ComponentsAreWatched, PTL

\* vision_runtime.cpp 120-316: the reason a run returns is the one of the first terminal
\* fault, or there was a stop request or a window to close.
THEOREM ExitsAreExplained == Spec => []ExitIsExplained
<1>1. IInv /\ WatchInv => ExitIsExplained
  BY DEF IInv, AnswerInv, WatchInv, ExitInv, ExitIsExplained, VisionAt
<1> QED
  BY <1>1, Soundness, ComponentsAreWatched, PTL

\* runtime_supervisor.cpp 118-141: a timeout that ended a run had run out, measured from
\* the last frame or the last healthy cycle, however faults and recoveries alternate.
THEOREM TimeoutsWereOver == Spec => []TimeoutsAreReal
<1>1. WatchInv => TimeoutsAreReal
  BY DEF WatchInv, TimeoutInv, TimeoutsAreReal
<1> QED
  BY <1>1, ComponentsAreWatched, PTL

\* runtime_supervisor.cpp 142-154: an optional part is given up when it has failed
\* DisableAfter times with no success in between, and then only.
THEOREM PartsAreGivenUpAtThreshold == Spec => []DisabledAfterThreshold
<1>1. WatchInv => DisabledAfterThreshold
  BY DEF WatchInv, PartsInv
<1> QED
  BY <1>1, ComponentsAreWatched, PTL
=============================================================================
