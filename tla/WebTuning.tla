----------------------------- MODULE WebTuning -----------------------------
(***************************************************************************)
(* Tuning of the vision front end from a browser: the HTTP server beside   *)
(* the program (tool/web/web_debug_server.cpp), the mailbox between its    *)
(* thread and the vision thread (runtime/vision_tuning.cpp), the preview   *)
(* worker (tool/web/latest_preview.cpp) and the pages that the server      *)
(* hands out (tool/web/web_assets.cpp).  The three locks (status, preview, *)
(* mailbox) are never held together, so each locked section is one step.   *)
(***************************************************************************)
EXTENDS Naturals, FiniteSets

CONSTANTS
  Clients,      \* browser tabs
  Configs,      \* the front-end configurations that the parsers accept
  Startup,      \* the one that the program was first started with
  Rejected,     \* one that they refuse
  MaxRevision   \* bound of the model on accepted edits

VARIABLES
  mailbox,      \* VisionTuningMailbox
  stage,        \* the server: "off", "serving", "joined", "waiting", "stopped"
  preview,      \* LatestPreview
  worker,       \* its thread: "none", "wait", "encode", "done"
  vision,       \* the vision thread: "grab", "tune", "mark", "process", "push", "done"
  pipeline,     \* the configuration that the pipeline runs with
  page,         \* what each tab shows: [revision, active]
  wire,         \* the tab's request or reply under way
  authors       \* history: what the author of a pending edit started from

vars == <<mailbox, stage, preview, worker, vision, pipeline, page, wire, authors>>

None == [kind |-> "none"]

\* The page of a tab that has not logged in yet.
Blank == [revision |-> 1, active |-> Startup]

NewMailbox(startup) ==
  [config |-> startup, revision |-> 1, pending |-> None, taken |-> FALSE, nextId |-> 1]

NewPreview == [running |-> FALSE, stopped |-> FALSE, pending |-> FALSE]

Init ==
  /\ mailbox = NewMailbox(Startup)
  /\ stage = "off"
  /\ preview = NewPreview
  /\ worker = "none"
  /\ vision = "grab"
  /\ pipeline = Startup
  /\ page = [c \in Clients |-> Blank]
  /\ wire = [c \in Clients |-> None]
  /\ authors = Startup

-----------------------------------------------------------------------------
\* The mailbox

HasPending == mailbox.pending # None

SubmitStatus_Unversioned(base) == IF HasPending THEN "PENDING_REQUEST" ELSE "ACCEPTED"
SubmitStatus(base) ==
  IF HasPending THEN "PENDING_REQUEST"
  ELSE IF base # mailbox.revision THEN "REVISION_CONFLICT" ELSE "ACCEPTED"

Submit(config) ==
  mailbox' = [mailbox EXCEPT
    !.pending = [kind |-> "edit", id |-> mailbox.nextId, target |-> mailbox.revision + 1,
                 config |-> config],
    !.taken = FALSE, !.nextId = @ + 1]

CanTake == HasPending /\ ~mailbox.taken

TryTakePending_Moves == mailbox' = [mailbox EXCEPT !.taken = TRUE, !.pending = None]
TryTakePending == mailbox' = [mailbox EXCEPT !.taken = TRUE]

\* The edit becomes the active configuration, if it is still the pending one.
MarkApplied(id) ==
  IF HasPending /\ mailbox.pending.id = id
  THEN mailbox' = [mailbox EXCEPT !.config = mailbox.pending.config,
                                  !.revision = mailbox.pending.target,
                                  !.pending = None, !.taken = FALSE]
  ELSE UNCHANGED mailbox

-----------------------------------------------------------------------------
\* Vision thread

\* Frames come from the camera; a frame that may end the run comes last.
Grab ==
  /\ vision = "grab"
  /\ vision' = "tune"
  /\ UNCHANGED <<mailbox, stage, preview, worker, pipeline, page, wire, authors>>

\* A pending edit is taken and applied to the three modules at once.
Tune ==
  /\ vision = "tune"
  /\ IF CanTake
     THEN TryTakePending /\ pipeline' = mailbox.pending.config /\ vision' = "mark"
     ELSE UNCHANGED <<mailbox, pipeline>> /\ vision' = "process"
  /\ UNCHANGED <<stage, preview, worker, page, wire, authors>>

Mark ==
  /\ vision = "mark"
  /\ MarkApplied(mailbox.nextId - 1)
  /\ vision' = "process"
  /\ UNCHANGED <<stage, preview, worker, pipeline, page, wire, authors>>

\* Process, then PublishVision with its status; an exception ends the run.
Process ==
  /\ vision = "process"
  /\ vision' \in {"push", "done"}
  /\ UNCHANGED <<mailbox, stage, preview, worker, pipeline, page, wire, authors>>

\* LatestPreview::Push: a frame within the period is passed over.
Push ==
  /\ vision = "push"
  /\ vision' = "grab"
  /\ \E due \in BOOLEAN :
       preview' = [preview EXCEPT !.pending = @ \/ (due /\ preview.running /\ ~preview.stopped)]
  /\ UNCHANGED <<mailbox, stage, worker, pipeline, page, wire, authors>>

EndRun ==
  /\ vision = "grab"
  /\ vision' = "done"
  /\ UNCHANGED <<mailbox, stage, preview, worker, pipeline, page, wire, authors>>

-----------------------------------------------------------------------------
\* Preview worker

\* After Stop the last frame is still encoded; without one the worker ends.  A
\* failure of the encoder is counted and the worker goes on.
WorkerWakes_Deaf ==
  /\ worker = "wait" /\ preview.pending
  /\ worker' = "encode"
  /\ preview' = [preview EXCEPT !.pending = FALSE]
  /\ UNCHANGED <<mailbox, stage, vision, pipeline, page, wire, authors>>
WorkerWakes ==
  /\ worker = "wait" /\ (preview.stopped \/ preview.pending)
  /\ worker' = IF preview.pending THEN "encode" ELSE "done"
  /\ preview' = [preview EXCEPT !.pending = FALSE]
  /\ UNCHANGED <<mailbox, stage, vision, pipeline, page, wire, authors>>

WorkerEncodes ==
  /\ worker = "encode"
  /\ worker' = "wait"
  /\ UNCHANGED <<mailbox, stage, preview, vision, pipeline, page, wire, authors>>

-----------------------------------------------------------------------------
\* Requests: what a page sends, and refused ones sent by hand.

Get(target) == [kind |-> target]

Edit(c, config) ==
  [kind |-> "edit", authorized |-> TRUE, base |-> page[c].revision, from |-> page[c].active,
   config |-> config]

\* Without the password, or of a configuration that the parsers refuse (a
\* body that is malformed or too large ends the same way: 401, 413, 422).
Strays(c) == {[Edit(c, Startup) EXCEPT !.authorized = FALSE], Edit(c, Rejected)}

Requests == {"status", "config", "edit"}

\* The candidate passes the parsers of the start-up files, or is refused.
ParseFrontendConfig(config) == config \in Configs

\* SubmitConfig: 202, or 422 and 409 with nothing changed.
SubmitConfig(r) ==
  IF ParseFrontendConfig(r.config) /\ SubmitStatus(r.base) = "ACCEPTED"
  THEN Submit(r.config) /\ authors' = r.from
  ELSE UNCHANGED <<mailbox, authors>>

\* Both reads take one Snapshot of the mailbox.
Snapshot(kind) ==
  [kind |-> kind, revision |-> mailbox.revision, active |-> mailbox.config, pending |-> HasPending]

\* HandleRequest, by the server's only thread.  Answers that only change a
\* text or a picture of the page are not kept.
Handle(c) ==
  /\ stage = "serving" /\ wire[c].kind \in Requests
  /\ LET r == wire[c]
     IN IF r.kind = "edit"
        THEN /\ wire' = [wire EXCEPT ![c] = None]
             /\ IF r.authorized THEN SubmitConfig(r) ELSE UNCHANGED <<mailbox, authors>>
        ELSE /\ wire' = [wire EXCEPT ![c] =
                  Snapshot(IF r.kind = "status" THEN "statusReply" ELSE "configReply")]
             /\ UNCHANGED <<mailbox, authors>>
  /\ UNCHANGED <<stage, preview, worker, vision, pipeline, page>>

\* The connection breaks before or after the server answered.
Break(c) ==
  /\ wire[c] # None
  /\ wire' = [wire EXCEPT ![c] = None]
  /\ UNCHANGED <<mailbox, stage, preview, worker, vision, pipeline, page, authors>>

-----------------------------------------------------------------------------
\* The page's script.  A draft is only chosen when it is sent; an equal one
\* cannot be.  The bound: no edit is sent from the last revision.
Send(c) ==
  /\ wire[c] = None
  /\ \E r \in {Get("config"), Get("status")} \cup Strays(c)
              \cup {Edit(c, config) : config \in
                      IF page[c].revision <= MaxRevision THEN Configs \ {page[c].active} ELSE {}} :
       wire' = [wire EXCEPT ![c] = r]
  /\ UNCHANGED <<mailbox, stage, preview, worker, vision, pipeline, page, authors>>

\* loadConfig replaces what the page shows.
LoadConfig(c) ==
  /\ wire[c].kind = "configReply"
  /\ page' = [page EXCEPT ![c] = [revision |-> wire[c].revision, active |-> wire[c].active]]
  /\ wire' = [wire EXCEPT ![c] = None]
  /\ UNCHANGED <<mailbox, stage, preview, worker, vision, pipeline, authors>>

\* statusLoop loads the configuration when the revision moved and nothing is
\* pending.
ReadStatus(c) ==
  /\ wire[c].kind = "statusReply"
  /\ LET moved == wire[c].revision # page[c].revision /\ ~wire[c].pending
     IN wire' = [wire EXCEPT ![c] = IF moved THEN Get("config") ELSE None]
  /\ UNCHANGED <<mailbox, stage, preview, worker, vision, pipeline, page, authors>>

-----------------------------------------------------------------------------
\* The server's life, on the main thread

\* An empty password or a failure to listen leaves the server off; a failed
\* thread takes the preview worker down again.
Start ==
  /\ stage = "off" /\ vision = "grab"
  /\ \/ stage' = "stopped" /\ UNCHANGED <<preview, worker>>
     \/ /\ stage' \in {"serving", "joined"}
        /\ preview' = [preview EXCEPT !.running = TRUE]
        /\ worker' = "wait"
  /\ UNCHANGED <<mailbox, vision, pipeline, page, wire, authors>>

\* Stop: the server's thread is joined between two requests.
StopServer ==
  /\ stage = "serving" /\ vision = "done"
  /\ stage' = "joined"
  /\ UNCHANGED <<mailbox, preview, worker, vision, pipeline, page, wire, authors>>

StopPreview ==
  /\ stage = "joined" /\ preview.running
  /\ preview' = [preview EXCEPT !.stopped = TRUE]
  /\ stage' = "waiting"
  /\ UNCHANGED <<mailbox, worker, vision, pipeline, page, wire, authors>>

JoinPreview ==
  /\ stage = "waiting" /\ worker = "done"
  /\ preview' = [preview EXCEPT !.running = FALSE, !.pending = FALSE]
  /\ stage' = "stopped"
  /\ UNCHANGED <<mailbox, worker, vision, pipeline, page, wire, authors>>

-----------------------------------------------------------------------------
Vision == Grab \/ Tune \/ Mark \/ Process \/ Push
PreviewWorker == WorkerWakes \/ WorkerEncodes
Stop == StopServer \/ StopPreview \/ JoinPreview
Tab(c) == Send(c) \/ LoadConfig(c) \/ ReadStatus(c) \/ Break(c)

Next ==
  \/ Vision \/ EndRun
  \/ PreviewWorker
  \/ Start \/ Stop
  \/ \E c \in Clients : Handle(c) \/ Tab(c)

Spec == Init /\ [][Next]_vars

\* The program is started again, perhaps with other files; the pages stay open
\* and poll on with the password of the session.
Restart ==
  /\ stage = "stopped" /\ vision = "done"
  /\ \E startup \in Configs :
       /\ mailbox' = NewMailbox(startup)
       /\ pipeline' = startup
  /\ stage' = "off" /\ vision' = "grab" /\ worker' = "none"
  /\ preview' = NewPreview
  /\ wire' = [c \in Clients |-> None]
  /\ UNCHANGED <<page, authors>>

RestartSpec == Init /\ [][Next \/ Restart]_vars

-----------------------------------------------------------------------------
\* No page overwrites what it has not seen (WEB_DEBUG.md): an edit is made
\* of the configuration that it replaces, however old the page, whoever else
\* edits and whichever replies were lost.
NoLostUpdate == HasPending => authors = mailbox.config

\* The revision that the server reports is the one that frames go through:
\* between the steps that apply an edit no frame is processed.
PipelineMatchesMailbox == vision \in {"process", "push", "grab"} => pipeline = mailbox.config

\* What an author saw is what is replaced, and what is reported is what runs.
WebKeepsEdits == NoLostUpdate /\ PipelineMatchesMailbox
=============================================================================
