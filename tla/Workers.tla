------------------------------- MODULE Workers -------------------------------
(***************************************************************************)
(* One web worker and its host: cli/web_worker.rs, cli/worker.rs,          *)
(* cli/ops/worker_host.rs, cli/ops/web_worker.rs, cli/js/web/workers.ts.   *)
(*                                                                         *)
(* The worker runs an isolate on a thread of its own.  Host and worker     *)
(* talk through two channels, the inbox and the outbox, a third one that   *)
(* carries the request to terminate, an atomic flag, and the handle that   *)
(* interrupts the worker's JavaScript.  The host waits for the thread to   *)
(* end wherever it drops the worker from its table.                        *)
(*                                                                         *)
(* Every sender of a channel is a fresh clone, and a fresh clone may always *)
(* send once: sending fails only when the channel is closed or its          *)
(* receiver is gone.  A clone is what each send of the code uses.           *)
(***************************************************************************)
EXTENDS Naturals, Sequences

CONSTANTS
  MaxPosts,     \* bound: messages the host posts
  MaxEvents,    \* bound: messages and errors of the worker's program
  ClosesEarly,  \* whether the worker's script may call close() while it is evaluated
  HostCalls     \* what the program calls on the Worker: a subset of {"post", "terminate"}

ASSUME WorkersAssumption ==
  /\ MaxPosts \in Nat /\ MaxEvents \in Nat /\ ClosesEarly \in BOOLEAN
  /\ HostCalls \subseteq {"post", "terminate"}

VARIABLES
  host,          \* the host's thread: running JavaScript or its event loop ("js"),
                 \* inside terminate or a join, "ended" or "panicked"
  inTable,       \* state.workers has the worker
  jsTerminated,  \* #terminated
  request,       \* the loop of #poll: "idle", "waiting", "answered" or "done"
  answer,        \* the event an answered request carries
  terminated,    \* the flag of WebWorkerHandle
  terminateSent, \* a message is in terminate_tx's channel
  interrupted,   \* terminate_execution was called
  inbox,         \* number of messages on their way to the worker
  inClosed,      \* close_channel was called on the inbox
  outbox,        \* events on their way to the host
  outClosed,     \* close_channel was called on the outbox
  worker,        \* the worker's thread
  back,          \* where op_worker_close returns to
  idle,          \* event_loop_idle
  listening,     \* the task left its waker with the inbox
  woken,         \* the worker's task is to be polled
  posts, events  \* history: messages posted to the worker, events it posted

hostVars    == <<host, inTable, jsTerminated, request, answer>>
handleVars  == <<terminated, terminateSent, interrupted>>
channelVars == <<inbox, inClosed, outbox, outClosed>>
workerVars  == <<worker, back, idle, listening, woken>>
history     == <<posts, events>>
allVars == <<hostVars, handleVars, channelVars, workerVars, history>>

\* Creating a worker blocks the host until the thread has sent its handle
\* (run_worker_thread), so this is where host and worker part.
WorkersInit ==
  /\ host = "js" /\ inTable = TRUE /\ jsTerminated = FALSE
  /\ request = "idle" /\ answer = "none"
  /\ terminated = FALSE /\ terminateSent = FALSE /\ interrupted = FALSE
  /\ inbox = 0 /\ inClosed = FALSE /\ outbox = <<>> /\ outClosed = FALSE
  /\ worker = "loading" /\ back = "loading" /\ idle = FALSE
  /\ listening = FALSE /\ woken = FALSE
  /\ posts = 0 /\ events = 0

\* The thread has ended and dropped the WebWorker, with its ends of the channels.
Dropped == worker \in {"gone", "panicked"}

\* A panic of the host, or an uncaught exception, ends the process.
Alive == host \notin {"ended", "panicked"}

-----------------------------------------------------------------------------
(* The host.                                                               *)

\* Worker.postMessage: op_host_post_message looks the worker up, and sends.  When the
\* worker is gone the program gets an exception.
PostMessage ==
  /\ host = "js" /\ "post" \in HostCalls /\ ~ jsTerminated /\ posts < MaxPosts
  /\ posts' = posts + 1
  /\ IF ~ inTable
     THEN host' = "panicked" /\ UNCHANGED <<inbox, listening, woken>>
     ELSE IF Dropped
     THEN UNCHANGED <<host, inbox, listening, woken>>
     ELSE /\ inbox' = inbox + 1
          /\ woken' = (woken \/ listening)
          /\ listening' = FALSE
          /\ UNCHANGED host
  /\ UNCHANGED <<inTable, jsTerminated, request, answer, handleVars, inClosed, outbox,
                 outClosed, worker, back, idle, events>>

\* Mutant: the flag is left to the message in the channel.
SwapNothing == UNCHANGED terminated

\* WebWorkerHandle::terminate raises the flag before anything else.
Swap == terminated' = TRUE

\* Worker.terminate: op_host_terminate_worker takes the worker out of the table and
\* enters WebWorkerHandle::terminate, which does its work once.
Terminate ==
  /\ host = "js" /\ "terminate" \in HostCalls /\ ~ jsTerminated
  /\ jsTerminated' = TRUE
  /\ IF ~ inTable
     THEN host' = "panicked" /\ UNCHANGED <<inTable, terminated>>
     ELSE /\ inTable' = FALSE
          /\ Swap
          /\ host' = IF terminated THEN "join" ELSE "interrupt"
  /\ UNCHANGED <<request, answer, terminateSent, interrupted, channelVars, workerVars,
                 history>>

\* Mutant: only the message asks the worker to end.
LeaveRunning == UNCHANGED interrupted

\* isolate_handle.terminate_execution(); it does nothing to an isolate that is gone.
TerminateExecution == interrupted' = TRUE

Interrupt ==
  /\ host = "interrupt"
  /\ TerminateExecution
  /\ host' = "send"
  /\ UNCHANGED <<inTable, jsTerminated, request, answer, terminated, terminateSent,
                 channelVars, workerVars, history>>

\* terminate_tx.try_send(()).expect("Failed to terminate")
SendTerminate ==
  /\ host = "send"
  /\ IF Dropped
     THEN host' = "panicked" /\ UNCHANGED <<terminateSent, woken>>
     ELSE /\ terminateSent' = TRUE /\ woken' = TRUE
          /\ host' = "join"
  /\ UNCHANGED <<inTable, jsTerminated, request, answer, terminated, interrupted,
                 channelVars, worker, back, idle, listening, history>>

\* join_handle.join().expect(...), in op_host_terminate_worker and in the future of
\* op_host_get_message: a panic of the worker's thread becomes one of the host.
Join ==
  /\ host \in {"join", "reap"} /\ Dropped
  /\ host' = IF worker = "panicked" THEN "panicked" ELSE "js"
  /\ request' = IF host = "reap" THEN "answered" ELSE request
  /\ UNCHANGED <<inTable, jsTerminated, answer, handleVars, channelVars, workerVars,
                 history>>

\* #poll asks for the next event (op_host_get_message).
Ask ==
  /\ host = "js" /\ request = "idle"
  /\ IF jsTerminated
     THEN request' = "done" /\ UNCHANGED host
     ELSE IF inTable THEN request' = "waiting" /\ UNCHANGED host
                     ELSE host' = "panicked" /\ UNCHANGED request
  /\ UNCHANGED <<inTable, jsTerminated, answer, handleVars, channelVars, workerVars,
                 history>>

\* Mutant: the thread of a worker that closed itself is not waited for.
ReapTerminal(e) == e = "terminal"

\* The events after which the worker leaves the table.
Ends(e) == e \in {"terminal", "close"}

\* The future of op_host_get_message completes with e.  After the last event the
\* worker leaves the table, unless terminate has taken it out, and the host waits
\* for its thread.
Answer(e) ==
  /\ answer' = e
  /\ IF Ends(e) /\ inTable
     THEN /\ inTable' = FALSE /\ inClosed' = TRUE
          /\ host' = "reap" /\ UNCHANGED request
     ELSE /\ request' = "answered" /\ UNCHANGED <<inTable, inClosed, host>>

Receive ==
  /\ host = "js" /\ request = "waiting"
  /\ \/ /\ outbox # <<>>
        /\ outbox' = Tail(outbox)
        /\ Answer(Head(outbox))
     \/ /\ outbox = <<>> /\ (outClosed \/ Dropped)
        /\ UNCHANGED outbox
        /\ Answer("close")
  /\ UNCHANGED <<jsTerminated, handleVars, inbox, outClosed, workerVars, history>>

\* The events after which #poll knows that the worker has ended.
IsLast(e) == e \in {"terminal", "close"}

\* #poll goes on with the event.  The program may leave an error unhandled, or
\* throw in onmessage, and then the host ends.
HandleEvent ==
  /\ host = "js" /\ request = "answered"
  /\ IF jsTerminated
     THEN request' = "done" /\ UNCHANGED <<host, jsTerminated>>
     ELSE /\ jsTerminated' = IsLast(answer)
          /\ request' = IF jsTerminated' THEN "done" ELSE "idle"
          /\ \/ UNCHANGED host
             \/ answer # "close" /\ host' = "ended"
  /\ UNCHANGED <<inTable, answer, handleVars, channelVars, workerVars, history>>

-----------------------------------------------------------------------------
(* The worker's JavaScript, in the evaluation of its script, in its event  *)
(* loop and in the callback for a message.  Nothing runs after close().    *)

JSRuns == Alive /\ worker \in {"script", "loop", "message"} /\ ~ outClosed

\* op_worker_post_message
PostToHost ==
  /\ JSRuns /\ events < MaxEvents
  /\ events' = events + 1
  /\ outbox' = Append(outbox, "msg")
  /\ UNCHANGED <<hostVars, handleVars, inbox, inClosed, outClosed, workerVars, posts>>

\* op_worker_close closes the outbox, and then terminates the worker.
Close ==
  /\ JSRuns /\ (worker = "script" => ClosesEarly)
  /\ outClosed' = TRUE
  /\ back' = worker /\ worker' = "closing"
  /\ UNCHANGED <<hostVars, handleVars, inbox, inClosed, outbox, idle, listening, woken,
                 history>>

\* Mutant: the flag is raised, but the JavaScript that called close() goes on.
CloseGoesOn ==
  /\ Alive /\ worker = "closing"
  /\ worker' = back
  /\ terminated' = TRUE
  /\ terminateSent' = (terminateSent \/ ~ terminated)
  /\ UNCHANGED <<hostVars, interrupted, channelVars, back, idle, listening, woken, history>>

\* WebWorkerHandle::terminate in the worker: the JavaScript that called close() is
\* interrupted, unless the host has entered terminate before and is about to do so.
CloseTerminates ==
  /\ Alive /\ worker = "closing"
  /\ worker' = back
  /\ terminated' = TRUE
  /\ interrupted' = (interrupted \/ ~ terminated)
  /\ terminateSent' = (terminateSent \/ ~ terminated)
  /\ UNCHANGED <<hostVars, channelVars, back, idle, listening, woken, history>>

\* close() has interrupted the JavaScript that called it, which ends at once.
ClosedItself == outClosed /\ interrupted

\* How JavaScript ends: it returns, it throws, or it is terminated.  Interrupted
\* from another thread it may still return by itself.
Ending(kind) ==
  \/ kind = "returns" /\ ~ ClosedItself /\ UNCHANGED events
  \/ kind = "throws" /\ ~ ClosedItself /\ events < MaxEvents /\ events' = events + 1
  \/ kind = "terminated" /\ interrupted /\ UNCHANGED events

\* sender.try_send(event).expect("Failed to post message to host")
Tell(event, next) ==
  IF outClosed
  THEN worker' = "panicked" /\ UNCHANGED outbox
  ELSE worker' = next /\ outbox' = Append(outbox, event)

\* An error of the program, or one that only says that it was terminated.
ErrorOf(kind) == IF kind = "throws" THEN "error" ELSE "interruption"

-----------------------------------------------------------------------------
(* The worker's thread.                                                    *)

\* execute_module: the module is loaded, or cannot be.
Loaded ==
  /\ Alive /\ worker = "loading"
  /\ worker' \in {"script", "failed"}
  /\ UNCHANGED <<hostVars, handleVars, channelVars, back, idle, listening, woken, history>>

\* The script was evaluated; the event loop is polled.
ScriptEnds(kind) ==
  /\ Alive /\ worker = "script"
  /\ Ending(kind)
  /\ worker' = IF kind = "returns" THEN "poll" ELSE "failed"
  /\ UNCHANGED <<hostVars, handleVars, channelVars, back, idle, listening, woken, posts>>

\* A script that cannot be executed is the end of the worker.
ReportTerminal ==
  /\ Alive /\ worker = "failed"
  /\ Tell("terminal", "gone")
  /\ UNCHANGED <<hostVars, handleVars, inbox, inClosed, outClosed, back, idle, listening,
                 woken, history>>

\* The executor polls the task.  WebWorker::poll looks at the flag first, and polls
\* the event loop unless it is idle.
StartPoll ==
  /\ Alive
  /\ worker = "poll" \/ (worker = "asleep" /\ woken)
  /\ woken' = FALSE
  /\ worker' = IF terminated THEN "gone" ELSE IF idle THEN "check" ELSE "loop"
  /\ UNCHANGED <<hostVars, handleVars, channelVars, back, idle, listening, history>>

\* The event loop waits for something, whose completion wakes the task.
OpCompletes ==
  /\ Alive /\ worker = "asleep" /\ ~ idle
  /\ woken' = TRUE
  /\ UNCHANGED <<hostVars, handleVars, channelVars, worker, back, idle, listening, history>>

\* The event loop is pending.
LoopPending ==
  /\ Alive /\ worker = "loop"
  /\ worker' = "check"
  /\ UNCHANGED <<hostVars, handleVars, channelVars, back, idle, listening, woken, history>>

\* The event loop is done, or failed.
LoopEnds(kind) ==
  /\ Alive /\ worker = "loop"
  /\ Ending(kind)
  /\ IF terminated
     THEN worker' = "gone" /\ UNCHANGED <<outbox, idle>>
     ELSE /\ idle' = TRUE
          /\ IF kind = "returns" THEN worker' = "check" /\ UNCHANGED outbox
                                 ELSE Tell(ErrorOf(kind), "check")
  /\ UNCHANGED <<hostVars, handleVars, inbox, inClosed, outClosed, back, listening, woken,
                 posts>>

\* Mutant: the inbox is looked at first.
InboxFirst == FALSE

\* terminate_rx has a message.
TerminateReceived == terminateSent

Check ==
  /\ Alive /\ worker = "check"
  /\ worker' = IF TerminateReceived THEN "gone" ELSE "inbox"
  /\ UNCHANGED <<hostVars, handleVars, channelVars, back, idle, listening, woken, history>>

HasMessage == inbox > 0

\* One message is taken out of the inbox, or the task waits for one.  A closed inbox
\* is unreachable!().
TakeMessage ==
  /\ Alive /\ worker = "inbox"
  /\ IF HasMessage
     THEN inbox' = inbox - 1 /\ worker' = "message" /\ UNCHANGED listening
     ELSE /\ UNCHANGED inbox
          /\ IF inClosed THEN worker' = "panicked" /\ UNCHANGED listening
                         ELSE worker' = "asleep" /\ listening' = TRUE
  /\ UNCHANGED <<hostVars, handleVars, inClosed, outbox, outClosed, back, idle, woken,
                 history>>

\* Mutant: the task is not woken for the event loop.
WakeNobody == UNCHANGED <<idle, woken>>

\* Let event loop be polled again.
PollAgain == idle' = FALSE /\ woken' = TRUE

\* The callback for a message ends.
MessageEnds(kind) ==
  /\ Alive /\ worker = "message"
  /\ Ending(kind)
  /\ IF kind # "returns" /\ terminated
     THEN worker' = "gone" /\ UNCHANGED <<outbox, idle, woken>>
     ELSE /\ IF kind = "returns" THEN worker' = "asleep" /\ UNCHANGED outbox
                                 ELSE Tell(ErrorOf(kind), "asleep")
          /\ PollAgain
  /\ UNCHANGED <<hostVars, handleVars, inbox, inClosed, outClosed, back, listening, posts>>

-----------------------------------------------------------------------------
HostRust == Interrupt \/ SendTerminate \/ Join \/ Receive
HostJS   == Ask \/ HandleEvent
Host     == PostMessage \/ Terminate \/ HostRust \/ HostJS

Endings == {"returns", "throws", "terminated"}

JSEnds == \E kind \in Endings : ScriptEnds(kind) \/ LoopEnds(kind) \/ MessageEnds(kind)

Thread == Loaded \/ CloseTerminates \/ ReportTerminal \/ StartPoll \/ Check \/ TakeMessage

WorkersNext == Host \/ PostToHost \/ Close \/ Thread \/ JSEnds \/ LoopPending \/ OpCompletes

WorkersSpec == WorkersInit /\ [][WorkersNext]_allVars

\* The threads run, the host's event loop too, and modules are loaded.  JavaScript is
\* only known to end when it has been interrupted.
Fairness ==
  /\ WF_allVars(HostRust) /\ WF_allVars(HostJS) /\ WF_allVars(Thread)
  /\ WF_allVars(interrupted /\ (JSEnds \/ LoopPending))

FairSpec == WorkersSpec /\ Fairness

\* Every piece of JavaScript ends.
JavaScriptReturns == WF_allVars(JSEnds \/ LoopPending)

-----------------------------------------------------------------------------
\* The types of the variables.  inbox and outbox stay within the bounds of the
\* programs, an event of termination included.
WorkersTypeOK ==
  /\ host \in {"js", "interrupt", "send", "join", "reap", "ended", "panicked"}
  /\ request \in {"idle", "waiting", "answered", "done"}
  /\ answer \in {"none", "msg", "error", "terminal", "close", "interruption"}
  /\ {inTable, jsTerminated, terminated, terminateSent, interrupted, inClosed,
      outClosed, idle, listening, woken} \subseteq BOOLEAN
  /\ inbox \in 0 .. MaxPosts /\ posts \in 0 .. MaxPosts /\ events \in 0 .. MaxEvents
  /\ Len(outbox) <= MaxEvents + 1
  /\ worker \in {"loading", "script", "closing", "failed", "poll", "loop", "check",
                 "inbox", "message", "asleep", "gone", "panicked"}
  /\ back \in {"loading", "script", "loop", "message"}

\* When the program knows that its worker has ended, by terminate() or by an event,
\* the thread is gone and the worker has left the table.
Reaped == host = "js" /\ jsTerminated => ~ inTable /\ Dropped

\* The worker never finds its inbox closed: the unreachable!() of WebWorker::poll.
\* The host closes the inbox of a worker that closed itself while that worker is on
\* its way from close_channel through the flag to the end of poll.
InboxOpen == worker = "inbox" => ~ inClosed \/ inbox > 0

\* That a worker was terminated is not reported as an error of its program
\* ("If execution was terminated during message callback then just ignore it").
NoSpuriousError ==
  answer # "interruption" /\ \A i \in 1 .. Len(outbox) : outbox[i] # "interruption"

\* A host that joins the worker's thread gets past it, whatever the worker's
\* JavaScript does ("worker terminate busy loop", cli/tests/workers_test.ts:136).
JoinReturns == host \in {"join", "reap"} ~> host \notin {"join", "reap"}

\* A worker that closes itself is reported to the host, unless it or the host
\* panics.
CloseReported ==
  outClosed ~> jsTerminated \/ host \in {"ended", "panicked"} \/ worker = "panicked"

\* A message posted to a worker whose JavaScript returns is handled, or the
\* worker ends.
MessageHandled == JavaScriptReturns => (inbox > 0 ~> inbox = 0 \/ Dropped \/ ~ Alive)

=============================================================================
