------------------------------ MODULE LspClient ------------------------------
(***************************************************************************)
(* One language server connection: the Client the editor talks to          *)
(* (zmax-lsp/src/client.rs, lib.rs), the send and recv tasks of its        *)
(* Transport (transport.rs) and the editor's document notifications.       *)
(*                                                                         *)
(* Five parties interleave: the editor's main thread, the task that        *)
(* initializes the client, the send task, the recv task, and the server.   *)
(* A payload keeps its method and what its receiver does with it; a        *)
(* document's text is the number of edits made to it, the ghost edit of a  *)
(* completion preview not counted.                                         *)
(***************************************************************************)
EXTENDS Naturals, Sequences, FiniteSets, SequencesExt

CONSTANTS Docs,         \* documents attached to this server
          MaxEdits,     \* bound: edits of each document
          MaxCalls,     \* bound: requests besides initialize and shutdown
          ServerCalls,  \* bound: requests the server makes
          NewRoots,     \* bound: workspace roots added while initializing
          NotOpen,      \* the server does not have the document
          Garbled       \* a text with a ghost edit, or one an edit was
                        \* applied to that was made for another text

ASSUME LspAssumption == /\ IsFiniteSet(Docs)
                        /\ MaxEdits \in Nat /\ MaxCalls \in Nat
                        /\ NotOpen \notin Nat /\ Garbled \notin Nat
                        /\ NotOpen # Garbled

InitializeId == 0
ShutdownId   == MaxCalls + 1
Ids          == 0..ShutdownId

Request(m, id)  == [kind |-> "request", method |-> m, arg |-> id]
Notification(m, a) == [kind |-> "notification", method |-> m, arg |-> a]
Response(c)     == [kind |-> "response", method |-> "reply", arg |-> c]
Silent          == [kind |-> "none", method |-> "none", arg |-> 0]

\* Messages of the server, and the events the application is told of.
Answer(id, ok)  == [what |-> "answer", id |-> id, ok |-> ok]
ServerCall(c)   == [what |-> "call", id |-> c, ok |-> TRUE]
Malformed       == [what |-> "malformed", id |-> 0, ok |-> FALSE]
Initialized     == [what |-> "initialized", id |-> 0, ok |-> TRUE]
Exit            == [what |-> "exit", id |-> 0, ok |-> TRUE]

VARIABLES
  phase,             \* the editor: running, closing, exited
  doc, text,         \* the editor's documents: none, open, closed; their text
  preview,           \* documents with a ghost edit applied
  misled,            \* ghost: documents the server was told of with a ghost
                     \* edit in their text
  registered,        \* the registry still holds the client
  capabilities,      \* client.capabilities is set: is_initialized()
  initTask,          \* where the task of start_client stands
  rootTask,          \* the tasks of try_add_doc that wait for initialization
  call,              \* each request's caller: waiting, ok, or failed (an error,
                     \* Error::Timeout or Error::StreamClosed)
  nextCall,          \* request_counter
  clientRx, injectRx, incoming,            \* the three unbounded channels
  waitQ, woken, permit,                    \* initialize_notify: a tokio Notify
  isPending, pendingMessages, outgoing, sendUp,          \* the send task
  pendingRequests, shutdownRequested, shutdownFlushed,   \* the Transport
  recvUp, stdout,                          \* the recv task and its stream
  srv                \* the server process

editorVars == <<phase, doc, text, preview, misled, registered, call, nextCall>>
initVars   == <<capabilities, initTask, rootTask>>
notifyVars == <<waitQ, woken, permit>>
sendVars   == <<isPending, pendingMessages, outgoing, sendUp>>
sharedVars == <<pendingRequests, shutdownRequested, shutdownFlushed>>
vars == <<editorVars, initVars, clientRx, injectRx, incoming, notifyVars,
          sendVars, sharedVars, recvUp, stdout, srv>>

\* The server process: the documents it was told of, the requests it has
\* read and not answered, the newest of them, and its own requests.
Started == [up |-> TRUE, text |-> [d \in Docs |-> NotOpen], unanswered |-> {}, newest |-> 0,
            calls |-> [c \in ServerCalls |-> "idle"], told |-> "nothing", malformed |-> FALSE]
Dead == [Started EXCEPT !.up = FALSE]

-----------------------------------------------------------------------------
(* The client's ends of the channels.                                      *)

\* server_tx.send: fails once the send task has dropped its receiver.
Sent(ps) == clientRx' = IF sendUp THEN clientRx \o ps ELSE clientRx

RequestIds(ps) == {ps[i].arg : i \in {j \in DOMAIN ps : ps[j].kind = "request"}}

\* Mutant: their callers are not told.
ClosedSilently(ids) == call

\* Closing or dropping the channels of these requests wakes their callers.
Closed(ids) == [i \in Ids |-> IF i \in ids /\ call[i] = "waiting"
                              THEN "failed" ELSE call[i]]

(* client.call_with_timeout: the payload is queued by the call itself.     *)
Issue(id, m) ==
  /\ Sent(<<Request(m, id)>>)
  /\ call' = [call EXCEPT ![id] = IF sendUp THEN "waiting" ELSE "failed"]

(* tokio's Notify: a permit goes to the waiter that registered first, and  *)
(* is kept only when nobody waits.                                         *)
Listening(t) == \E i \in DOMAIN waitQ : waitQ[i] = t

Listen(t) ==
  /\ ~Listening(t) /\ t \notin woken
  /\ IF permit THEN woken' = woken \cup {t} /\ permit' = FALSE /\ UNCHANGED waitQ
               ELSE waitQ' = Append(waitQ, t) /\ UNCHANGED <<woken, permit>>

NotifyOne ==
  IF waitQ # <<>>
  THEN waitQ' = Tail(waitQ) /\ woken' = woken \cup {Head(waitQ)} /\ UNCHANGED permit
  ELSE permit' = TRUE /\ UNCHANGED <<waitQ, woken>>

-----------------------------------------------------------------------------
(* The editor's main thread.                                               *)

\* The text a didOpen carries is the one shown, ghost edit included.
DidOpen(d) == Notification("didOpen", <<d, IF d \in preview THEN Garbled ELSE text[d]>>)

\* launch_language_servers: the notification is sent whether or not the
\* server is initialized.
OpenDoc(d) ==
  /\ phase = "running" /\ registered /\ doc[d] = "none"
  /\ doc' = [doc EXCEPT ![d] = "open"]
  /\ Sent(<<DidOpen(d)>>)
  /\ UNCHANGED <<phase, text, preview, misled, registered, call, nextCall, initVars, injectRx, incoming,
                 notifyVars, sendVars, sharedVars, recvUp, stdout, srv>>

\* The hooks of DocumentDidChange and DocumentDidClose run for
\* doc.language_servers(), which leaves an uninitialized client out.
IfInitialized(ps) == IF capabilities THEN Sent(ps) ELSE UNCHANGED clientRx

\* A change through the keys: a preview is restored first.
EditDoc(d) ==
  /\ phase = "running" /\ doc[d] = "open" /\ text[d] < MaxEdits
  /\ text' = [text EXCEPT ![d] = @ + 1]
  /\ preview' = preview \ {d}
  /\ IfInitialized(<<Notification("didChange", <<d, text[d], text[d] + 1>>)>>)
  /\ UNCHANGED <<phase, doc, misled, registered, call, nextCall, initVars, injectRx, incoming,
                 notifyVars, sendVars, sharedVars, recvUp, stdout, srv>>

\* Ghost transactions, which are not sent: a completion item is selected and
\* previewed while edits are left, or its savepoint is restored.
GhostEdit(d) ==
  /\ phase = "running" /\ registered /\ doc[d] = "open"
  /\ d \in preview \/ text[d] < MaxEdits
  /\ preview' \in {preview \cup {d}, preview \ {d}} \ {preview}
  /\ UNCHANGED <<phase, doc, text, misled, registered, call, nextCall, initVars, clientRx,
                 injectRx, incoming, notifyVars, sendVars, sharedVars, recvUp, stdout, srv>>

\* A change that comes by itself, from an initialized server or a formatter,
\* is applied over the preview and sent as a change of the text with it.
EditOverGhost(d) ==
  /\ phase = "running" /\ capabilities /\ d \in preview /\ text[d] < MaxEdits
  /\ text' = [text EXCEPT ![d] = @ + 1]
  /\ misled' = misled \cup {d}
  /\ Sent(<<Notification("didChange", <<d, Garbled, Garbled>>)>>)
  /\ UNCHANGED <<phase, doc, preview, registered, call, nextCall, initVars, injectRx, incoming,
                 notifyVars, sendVars, sharedVars, recvUp, stdout, srv>>

CloseDoc(d) ==
  /\ phase = "running" /\ doc[d] = "open"
  /\ doc' = [doc EXCEPT ![d] = "closed"]
  /\ text' = [text EXCEPT ![d] = 0]
  /\ preview' = preview \ {d} /\ misled' = misled \ {d}
  /\ IfInitialized(<<Notification("didClose", <<d>>)>>)
  /\ UNCHANGED <<phase, registered, call, nextCall, initVars, injectRx, incoming,
                 notifyVars, sendVars, sharedVars, recvUp, stdout, srv>>

\* A feature asks an initialized server something.
CallServer ==
  /\ phase = "running" /\ capabilities /\ nextCall <= MaxCalls
  /\ Issue(nextCall, "work")
  /\ nextCall' = nextCall + 1
  /\ UNCHANGED <<phase, doc, text, preview, misled, registered, initVars, injectRx, incoming,
                 notifyVars, sendVars, sharedVars, recvUp, stdout, srv>>

\* The timeout of call_with_timeout; the entry in pending_requests stays.
Timeout(id) ==
  /\ phase # "exited" /\ call[id] = "waiting"
  /\ call' = [call EXCEPT ![id] = "failed"]
  /\ UNCHANGED <<phase, doc, text, preview, misled, registered, nextCall, initVars, clientRx, injectRx,
                 incoming, notifyVars, sendVars, sharedVars, recvUp, stdout, srv>>

\* Mutant: nothing is opened again.
ReopenedNone == <<>>

\* The LanguageServerInitialized hook: every open document is opened anew.
Reopened == LET open == SetToSeq({d \in Docs : doc[d] = "open"})
            IN [i \in DOMAIN open |-> DidOpen(open[i])]

\* handle_language_server_message; nothing is found of a removed client.
HandleIncoming ==
  /\ phase = "running" /\ incoming # <<>>
  /\ LET m == Head(incoming)
     IN /\ registered' = (registered /\ m # Exit)
        /\ IF ~registered \/ m = Exit THEN UNCHANGED clientRx
           ELSE Sent(IF m = Initialized THEN Reopened ELSE <<Response(m.id)>>)
        /\ misled' = IF registered /\ m = Initialized THEN preview ELSE misled
  /\ incoming' = Tail(incoming)
  /\ UNCHANGED <<phase, doc, text, preview, call, nextCall, initVars, injectRx, notifyVars,
                 sendVars, sharedVars, recvUp, stdout, srv>>

\* try_add_doc with a root outside the workspace: handed to a task of its
\* own when the capabilities are not known yet.  Roots added later are only
\* one more notification and left out.
AddRoot(r) ==
  /\ phase = "running" /\ registered /\ rootTask[r] = "idle" /\ initTask # "done"
  /\ rootTask' = [rootTask EXCEPT ![r] = IF capabilities THEN "added" ELSE "spawned"]
  /\ IfInitialized(<<Notification("didChangeFolders", <<r>>)>>)
  /\ UNCHANGED <<editorVars, capabilities, initTask, injectRx, incoming, notifyVars,
                 sendVars, sharedVars, recvUp, stdout, srv>>

\* close_language_servers: force_shutdown queues shutdown and exit, ...  The
\* command has closed the menu, and the server hears no more of documents.
Quit ==
  /\ phase = "running"
  /\ phase' = "closing"
  /\ IF registered THEN Sent(<<Request("shutdown", ShutdownId), Notification("exit", <<>>)>>)
                   ELSE UNCHANGED clientRx
  /\ preview' = {} /\ misled' = {}
  /\ UNCHANGED <<doc, text, registered, call, nextCall, initVars, injectRx, incoming,
                 notifyVars, sendVars, sharedVars, recvUp, stdout, srv>>

\* The process ends: the runtime drops every task and channel, and the
\* server is killed with the Client (kill_on_drop).
TornDown ==
  /\ phase' = "exited"
  /\ clientRx' = <<>> /\ injectRx' = <<>> /\ incoming' = <<>> /\ stdout' = <<>>
  /\ waitQ' = <<>> /\ woken' = {} /\ permit' = FALSE
  /\ pendingMessages' = <<>> /\ outgoing' = Silent /\ pendingRequests' = {}
  /\ sendUp' = FALSE /\ recvUp' = FALSE
  /\ call' = Closed(Ids)
  /\ srv' = Dead
  /\ UNCHANGED <<doc, text, preview, misled, registered, nextCall, initVars, isPending, shutdownRequested,
                 shutdownFlushed>>

\* ... then waits until exit has been flushed, ...
QuitFlushed == phase = "closing" /\ (registered => shutdownFlushed) /\ TornDown

\* ... but no longer than the cap.
QuitCapped == phase = "closing" /\ TornDown

-----------------------------------------------------------------------------
(* The task of start_client, and those of try_add_doc.                     *)

Initialize ==
  /\ phase # "exited" /\ initTask = "start"
  /\ Issue(InitializeId, "initialize")
  /\ initTask' = "called"
  /\ UNCHANGED <<phase, doc, text, preview, misled, registered, nextCall, capabilities, rootTask, injectRx,
                 incoming, notifyVars, sendVars, sharedVars, recvUp, stdout, srv>>

\* get_or_try_init: an answer sets the capabilities, anything else ends the task.
InitializeReturns ==
  /\ phase # "exited" /\ initTask = "called" /\ call[InitializeId] # "waiting"
  /\ capabilities' = (call[InitializeId] = "ok")
  /\ initTask' = IF call[InitializeId] = "ok" THEN "initialized" ELSE "failed"
  /\ UNCHANGED <<editorVars, rootTask, clientRx, injectRx, incoming, notifyVars, sendVars,
                 sharedVars, recvUp, stdout, srv>>

NotifyInitialized ==
  /\ phase # "exited" /\ initTask = "initialized"
  /\ Sent(<<Notification("initialized", <<>>)>>)
  /\ initTask' = "notified"
  /\ UNCHANGED <<editorVars, capabilities, rootTask, injectRx, incoming, notifyVars,
                 sendVars, sharedVars, recvUp, stdout, srv>>

WakeOne ==
  /\ phase # "exited" /\ initTask = "notified"
  /\ NotifyOne
  /\ initTask' = "done"
  /\ UNCHANGED <<editorVars, capabilities, rootTask, clientRx, injectRx, incoming, sendVars,
                 sharedVars, recvUp, stdout, srv>>

RootListens(r) ==
  /\ phase # "exited" /\ rootTask[r] = "spawned" /\ Listen(r)
  /\ UNCHANGED <<editorVars, initVars, clientRx, injectRx, incoming, sendVars, sharedVars,
                 recvUp, stdout, srv>>

RootWakes(r) ==
  /\ phase # "exited" /\ rootTask[r] = "spawned" /\ r \in woken
  /\ rootTask' = [rootTask EXCEPT ![r] = "added"]
  /\ woken' = woken \ {r}
  /\ Sent(<<Notification("didChangeFolders", <<r>>)>>)
  /\ UNCHANGED <<editorVars, capabilities, initTask, injectRx, incoming, waitQ, permit,
                 sendVars, sharedVars, recvUp, stdout, srv>>

-----------------------------------------------------------------------------
(* The send task: Transport::send.  Its select! is biased, so a branch is   *)
(* taken only when those before it are not ready (one poll of the select!  *)
(* is one step), and the task listens on initialize_notify from its first  *)
(* poll on.                                                                *)

Selecting == phase # "exited" /\ sendUp /\ outgoing = Silent

\* Mutant: delayed messages wait for the queue to empty.
DrainedAlways == TRUE

Drained   == ~isPending => pendingMessages = <<>>

SendListens ==
  /\ Selecting /\ isPending /\ Listen("send")
  /\ UNCHANGED <<editorVars, initVars, clientRx, injectRx, incoming, sendVars, sharedVars,
                 recvUp, stdout, srv>>

SendInitialized ==
  /\ Selecting /\ isPending /\ "send" \in woken
  /\ isPending' = FALSE
  /\ woken' = woken \ {"send"}
  /\ incoming' = Append(incoming, Initialized)
  /\ UNCHANGED <<editorVars, initVars, clientRx, injectRx, waitQ, permit, pendingMessages,
                 outgoing, sendUp, sharedVars, recvUp, stdout, srv>>

\* send_payload_to_server up to the write: a request is registered first.
Register(m) == IF m.kind = "request" THEN pendingRequests' = pendingRequests \cup {m.arg}
                                     ELSE UNCHANGED pendingRequests
Take(m) == outgoing' = m /\ Register(m)

SendDrains ==
  /\ Selecting /\ ~isPending /\ pendingMessages # <<>>
  /\ Take(Head(pendingMessages))
  /\ pendingMessages' = Tail(pendingMessages)
  /\ UNCHANGED <<editorVars, initVars, clientRx, injectRx, incoming, notifyVars, isPending,
                 sendUp, shutdownRequested, shutdownFlushed, recvUp, stdout, srv>>

IsEarly(m) == m.method \in {"initialize", "initialized"}

Delay(m) == pendingMessages' = Append(pendingMessages, m)

\* A message while pending: shutdown ends the task and drops what it holds,
\* a notification is ignored, the rest is delayed.
SendPending(m) ==
  \/ /\ m.method = "shutdown"
     /\ sendUp' = FALSE
     /\ pendingMessages' = <<>> /\ clientRx' = <<>> /\ injectRx' = <<>>
     /\ waitQ' = SelectSeq(waitQ, LAMBDA t : t # "send")
     /\ call' = Closed(RequestIds(pendingMessages) \cup RequestIds(Tail(clientRx)))
  \/ /\ m.method # "shutdown" /\ ~IsEarly(m)
     /\ IF m.kind = "notification" THEN UNCHANGED pendingMessages ELSE Delay(m)
     /\ clientRx' = Tail(clientRx)
     /\ UNCHANGED <<sendUp, injectRx, waitQ, call>>

SendDelays ==
  /\ Selecting /\ isPending /\ Listening("send") /\ clientRx # <<>>
  /\ SendPending(Head(clientRx))
  /\ UNCHANGED <<phase, doc, text, preview, misled, registered, nextCall, initVars, incoming, woken, permit,
                 isPending, outgoing, sharedVars, recvUp, stdout, srv>>

\* Mutant: only exit is noted.
NoteExit(m) == shutdownRequested' = (shutdownRequested \/ m.method = "exit")

\* shutdown_requested is set before the bytes reach the server.
NoteShutdown(m) == shutdownRequested' = (shutdownRequested \/ m.method = "shutdown")

SendTakes ==
  /\ Selecting /\ (isPending => Listening("send")) /\ Drained /\ clientRx # <<>>
  /\ LET m == Head(clientRx)
     IN /\ isPending => IsEarly(m)
        /\ Take(m)
        /\ NoteShutdown(m)
  /\ clientRx' = Tail(clientRx)
  /\ UNCHANGED <<editorVars, initVars, injectRx, incoming, notifyVars, isPending,
                 pendingMessages, sendUp, shutdownFlushed, recvUp, stdout, srv>>

SendInjected ==
  /\ Selecting /\ (isPending => Listening("send")) /\ Drained
  /\ clientRx = <<>> /\ injectRx # <<>>
  /\ Take(Head(injectRx))
  /\ injectRx' = Tail(injectRx)
  /\ UNCHANGED <<editorVars, initVars, clientRx, incoming, notifyVars, isPending,
                 pendingMessages, sendUp, shutdownRequested, shutdownFlushed, recvUp,
                 stdout, srv>>

(* What the server makes of a message (external).  An incremental edit     *)
(* applies to the text it was made for; an unopened document has none.     *)
Receive(m) ==
  LET d == m.arg[1] IN
  CASE m.method = "didOpen"   -> [srv EXCEPT !.text[d] = m.arg[2]]
    [] m.method = "didChange" ->
         [srv EXCEPT !.text[d] = CASE @ = NotOpen  -> NotOpen
                                   [] @ = m.arg[2] -> m.arg[3]
                                   [] OTHER        -> Garbled]
    [] m.method = "didClose"  -> [srv EXCEPT !.text[d] = NotOpen]
    [] m.method = "exit"      -> [srv EXCEPT !.told = "exit"]
    [] m.method = "shutdown"  -> [srv EXCEPT !.told = "shutdown",
                                             !.unanswered = @ \cup {m.arg},
                                             !.newest = m.arg]
    [] m.method = "reply"     -> [srv EXCEPT !.calls[m.arg] = "answered"]
    [] m.method \in {"initialize", "work"} -> [srv EXCEPT !.unanswered = @ \cup {m.arg},
                                                          !.newest = m.arg]
    [] OTHER -> srv

\* The write and flush; to a server that is gone it fails, which is logged.
SendFlushes ==
  /\ phase # "exited" /\ outgoing # Silent
  /\ outgoing' = Silent
  /\ srv' = IF srv.up THEN Receive(outgoing) ELSE srv
  /\ shutdownFlushed' = (shutdownFlushed \/ (srv.up /\ outgoing.method = "exit"))
  /\ UNCHANGED <<editorVars, initVars, clientRx, injectRx, incoming, notifyVars, isPending,
                 pendingMessages, sendUp, pendingRequests, shutdownRequested, recvUp, stdout>>

-----------------------------------------------------------------------------
(* The recv task: Transport::recv.                                         *)

Receiving == phase # "exited" /\ recvUp

\* process_request_response
RecvAnswer ==
  /\ Receiving /\ stdout # <<>> /\ Head(stdout).what = "answer"
  /\ LET a == Head(stdout)
     IN /\ pendingRequests' = pendingRequests \ {a.id}
        /\ call' = IF a.id \in pendingRequests /\ call[a.id] = "waiting"
                   THEN [call EXCEPT ![a.id] = IF a.ok THEN "ok" ELSE "failed"]
                   ELSE call
  /\ stdout' = Tail(stdout)
  /\ UNCHANGED <<phase, doc, text, preview, misled, registered, nextCall, initVars, clientRx, injectRx,
                 incoming, notifyVars, sendVars, shutdownRequested, shutdownFlushed,
                 recvUp, srv>>

\* A request of the server goes to the application, or is answered here
\* once shutdown was requested.
RecvCall ==
  /\ Receiving /\ stdout # <<>> /\ Head(stdout).what = "call"
  /\ IF shutdownRequested
     THEN /\ injectRx' = IF sendUp THEN Append(injectRx, Response(Head(stdout).id)) ELSE injectRx
          /\ UNCHANGED incoming
     ELSE incoming' = Append(incoming, Head(stdout)) /\ UNCHANGED injectRx
  /\ stdout' = Tail(stdout)
  /\ UNCHANGED <<editorVars, initVars, clientRx, notifyVars, sendVars, sharedVars,
                 recvUp, srv>>

\* The stream ends, or carries what is no message: outstanding requests are
\* closed and the application is told that the server exited.
RecvEnds ==
  /\ Receiving
  /\ \/ stdout # <<>> /\ Head(stdout) = Malformed
     \/ stdout = <<>> /\ ~srv.up
  /\ call' = Closed(pendingRequests)
  /\ pendingRequests' = {}
  /\ incoming' = Append(incoming, Exit)
  /\ recvUp' = FALSE
  /\ UNCHANGED <<phase, doc, text, preview, misled, registered, nextCall, initVars, clientRx, injectRx,
                 notifyVars, sendVars, shutdownRequested, shutdownFlushed, stdout, srv>>

-----------------------------------------------------------------------------
(* The server process (external).                                          *)

Serving == phase # "exited" /\ srv.up

\* What it writes when nobody reads on is left out.
Writing == Serving /\ recvUp /\ ~srv.malformed

ServerAnswers(id, ok) ==
  /\ Writing /\ id \in srv.unanswered
  /\ ok \/ id = InitializeId          \* only initialize's outcome matters
  /\ srv' = [srv EXCEPT !.unanswered = @ \ {id}]
  /\ stdout' = Append(stdout, Answer(id, ok))
  /\ UNCHANGED <<editorVars, initVars, clientRx, injectRx, incoming, notifyVars, sendVars,
                 sharedVars, recvUp>>

\* A request made after the server has read shutdown is "late".
ServerAsks(c) ==
  /\ Writing /\ srv.calls[c] = "idle"
  /\ srv' = [srv EXCEPT !.calls[c] = IF srv.told = "shutdown" THEN "late" ELSE "sent"]
  /\ stdout' = Append(stdout, ServerCall(c))
  /\ UNCHANGED <<editorVars, initVars, clientRx, injectRx, incoming, notifyVars, sendVars,
                 sharedVars, recvUp>>

ServerWritesMalformed ==
  /\ Writing
  /\ srv' = [srv EXCEPT !.malformed = TRUE]
  /\ stdout' = Append(stdout, Malformed)
  /\ UNCHANGED <<editorVars, initVars, clientRx, injectRx, incoming, notifyVars, sendVars,
                 sharedVars, recvUp>>

\* A crash, or the exit it was told to make.
ServerDies ==
  /\ Serving
  /\ srv' = Dead
  /\ UNCHANGED <<editorVars, initVars, clientRx, injectRx, incoming, notifyVars, sendVars,
                 sharedVars, recvUp, stdout>>

-----------------------------------------------------------------------------
Init ==
  /\ phase = "running" /\ registered = TRUE /\ nextCall = 1
  /\ doc = [d \in Docs |-> "none"] /\ text = [d \in Docs |-> 0]
  /\ preview = {} /\ misled = {}
  /\ call = [i \in Ids |-> "unused"]
  /\ capabilities = FALSE /\ initTask = "start"
  /\ rootTask = [r \in NewRoots |-> "idle"]
  /\ clientRx = <<>> /\ injectRx = <<>> /\ incoming = <<>>
  /\ waitQ = <<>> /\ woken = {} /\ permit = FALSE
  /\ isPending = TRUE /\ pendingMessages = <<>> /\ outgoing = Silent /\ sendUp = TRUE
  /\ pendingRequests = {} /\ shutdownRequested = FALSE /\ shutdownFlushed = FALSE
  /\ recvUp = TRUE /\ stdout = <<>>
  /\ srv = Started

SendTask == \/ SendListens \/ SendInitialized \/ SendDrains \/ SendDelays \/ SendTakes
            \/ SendInjected \/ SendFlushes
RecvTask == RecvAnswer \/ RecvCall \/ RecvEnds
InitTask == Initialize \/ InitializeReturns \/ NotifyInitialized \/ WakeOne
RootTask(r) == RootListens(r) \/ RootWakes(r)

MainThread ==
  \/ \E d \in Docs : \/ OpenDoc(d) \/ EditDoc(d) \/ CloseDoc(d)
                     \/ GhostEdit(d) \/ EditOverGhost(d)
  \/ CallServer \/ HandleIncoming \/ Quit \/ QuitFlushed \/ QuitCapped
  \/ \E r \in NewRoots : AddRoot(r)

Server == \/ \E id \in Ids, ok \in BOOLEAN : ServerAnswers(id, ok)
          \/ \E c \in ServerCalls : ServerAsks(c)
          \/ ServerWritesMalformed \/ ServerDies

Exited == phase = "exited" /\ UNCHANGED vars

Next == \/ MainThread \/ SendTask \/ RecvTask \/ InitTask \/ Server \/ Exited
        \/ \E id \in Ids : Timeout(id)
        \/ \E r \in NewRoots : RootTask(r)

(* The runtime polls a task that can go on.  Nothing is assumed of the     *)
(* server, of the pipe (SendFlushes may block) or of what the user does.   *)
Spec == /\ Init /\ [][Next]_vars
        /\ WF_vars(InitTask) /\ \A r \in NewRoots : WF_vars(RootTask(r))
        /\ WF_vars(SendListens \/ SendInitialized)

-----------------------------------------------------------------------------
Quiet == /\ phase = "running" /\ srv.up /\ sendUp /\ recvUp /\ ~isPending
         /\ clientRx = <<>> /\ pendingMessages = <<>> /\ outgoing = Silent
         /\ Initialized \notin Range(incoming)

(* Whenever everything queued for an initialized server has been written,  *)
(* the server's text of each open document is the editor's: notifications  *)
(* ignored while the server was pending (transport.rs:454) are made good   *)
(* by the didOpen of the LanguageServerInitialized hook, an incremental    *)
(* edit that met another text than it was made for is, too, and a preview  *)
(* comes and goes unseen.  Left out are documents the server was told of   *)
(* with a preview's text, until they are opened anew.                      *)
ServerMirrorsOpenDocuments ==
  Quiet => \A d \in Docs : doc[d] = "open" /\ d \notin misled => srv.text[d] = text[d]

(* Requests reach the server in the order they were made ("the request     *)
(* order stays consistent", client.rs:479), those delayed until            *)
(* initialization and the final shutdown included.                         *)
Line == <<outgoing>> \o pendingMessages \o clientRx
Asking(m) == m.method \in {"work", "shutdown"}
RequestsKeepTheirOrder ==
  LET line == Line IN
  \A j \in DOMAIN line : Asking(line[j]) =>
    /\ srv.newest < line[j].arg
    /\ \A i \in 1 .. j - 1 : Asking(line[i]) => line[i].arg < line[j].arg

(* A caller that waits is never forgotten: its request is still queued or  *)
(* registered in pending_requests, and it is registered by the time its    *)
(* answer can arrive, so process_request_response never discards an answer *)
(* somebody waits for (transport.rs:278).                                  *)
NoCallIsForgotten ==
  \A id \in Ids : call[id] = "waiting" =>
    /\ id \in RequestIds(Line) \cup pendingRequests
    /\ Answer(id, TRUE) \in Range(stdout) /\ recvUp => id \in pendingRequests

(* A request the server makes after it has read shutdown is never handed   *)
(* to the application, which no longer listens: while both tasks run, its  *)
(* answer is on the way ("so the server is not left waiting for a reply",  *)
(* transport.rs:231).                                                      *)
ShutdownAnswersTheServer ==
  \A c \in ServerCalls : srv.calls[c] = "late" =>
    /\ ServerCall(c) \notin Range(incoming)
    /\ recvUp /\ sendUp /\ srv.up =>
         ServerCall(c) \in Range(stdout) \/ Response(c) \in Range(injectRx) \cup {outgoing}

(* "initialization hasn't finished yet, deal with this new root later"     *)
(* (client.rs:117): a root added while the server initializes is added     *)
(* once it has.                                                            *)
NewRootsAreAdded ==
  \A r \in NewRoots : (rootTask[r] = "spawned" /\ initTask = "done")
                        ~> (rootTask[r] = "added" \/ phase # "running" \/ ~srv.up)

-----------------------------------------------------------------------------
(* Three statements the code does not live up to: TLC refutes each.       *)

(* "It's extremely important this savepoint is restored [...] *before any  *)
(* further transaction is applied*" (ui/completion.rs:264): the server is  *)
(* never told of a text with a ghost edit.                                 *)
GhostsStayUnseen == misled = {}

(* A closed document is closed at the server, too: "Send                   *)
(* textDocument/didClose notifications." (zmax-view handlers/lsp.rs:429).  *)
ClosedDocumentsAreClosed ==
  Quiet => \A d \in Docs : doc[d] = "closed" => srv.text[d] = NotOpen

(* "Close any outstanding requests." (transport.rs:320): none is left once *)
(* the receiving task has ended.                                           *)
NoRequestOutlivesTheStream == ~recvUp => pendingRequests = {}
=============================================================================
