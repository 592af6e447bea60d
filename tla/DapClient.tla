------------------------------ MODULE DapClient ------------------------------
(***************************************************************************)
(* The transport of a debug session: one DapClient object                  *)
(* (core/dap/client.py) on one TCP connection to a debug adapter.          *)
(*                                                                         *)
(* The program is single threaded, so an action is the code between two    *)
(* awaits of one asyncio task.  The tasks are: the callers of request(),   *)
(* one per sequence number; the listen task; the event task, which runs    *)
(* the event handlers one after the other; and a task that calls close().  *)
(* A cancelled task takes no further step, so cancel() ends it at once.    *)
(*                                                                         *)
(* A definition whose comment begins "Mutant" belongs to no behaviour: it  *)
(* is the definition after it with a plausible bug, used to show that the  *)
(* properties can fail.                                                    *)
(*                                                                         *)
(* The adapter and the socket are external: the adapter answers a request  *)
(* it has received at most once, in any order and perhaps never, sends     *)
(* events and requests of its own, may send a message that cannot be       *)
(* decoded, and may close or reset the connection at any time.             *)
(***************************************************************************)
EXTENDS Naturals, Sequences, FiniteSets

CONSTANTS MaxSeq,      \* bound: sequence numbers the client may use
          MaxEvents,   \* bound: events the adapter sends
          MaxReverse   \* bound: requests the adapter sends to the client

ASSUME BoundsAssumption == /\ MaxSeq \in Nat
                           /\ MaxEvents \in Nat
                           /\ MaxReverse \in Nat

VARIABLES
  seq,       \* _seq: the next sequence number
  task,      \* task[s]: where the task that sent sequence number s is
  fut,       \* fut[s]: the future of request s
  pending,   \* keys of _pending
  sendq,     \* holders and waiters of _write_lock, in FIFO order
  queue,     \* _event_queue
  listen,    \* the listen task
  events,    \* the event task
  evReq,     \* the request an event handler awaits, 0 if none
  closed,    \* _closed
  fired,     \* _disconnect_fired
  closer,    \* the one call of close() that found the client open
  reports,   \* how often the disconnect handlers have run
  handled,   \* the last event given to the handlers
  wire,      \* messages from the adapter that the client has not read
  conn,      \* the remote end of the connection
  owed,      \* requests the adapter has received and not answered
  answered,  \* requests the adapter has answered
  sentEv,    \* events the adapter has sent
  reversed   \* requests the adapter has sent

clientVars  == <<seq, task, fut, pending, sendq, queue, listen, events, evReq,
                 closed, fired, closer, reports, handled>>
adapterVars == <<wire, conn, owed, answered, sentEv, reversed>>
vars        == <<clientVars, adapterVars>>

Seqs == 1..MaxSeq

(* How request() ends: a response, a response with success = False         *)
(* (DapRequestError), a timeout, a ConnectionError, a CancelledError, or   *)
(* an exception of the write.                                              *)
Settled == {"replied", "refused", "timedOut", "lost", "cancelled", "sendError"}
(* "response": the number was spent on rejecting an adapter request. *)
Status  == {"unborn", "sending", "waiting", "response"} \cup Settled
FutureState == {"open", "success", "failure", "lost", "cancelled"}

Reply   == [kind : {"reply"}, id : Seqs, ok : BOOLEAN]
Event   == [kind : {"event"}, id : 1..MaxEvents]
Other   == [kind : {"reverse", "garbage"}]
Message == Reply \cup Event \cup Other

Init ==
  /\ seq = 1
  /\ task = [s \in Seqs |-> "unborn"]
  /\ fut = [s \in Seqs |-> "open"]
  /\ pending = {}
  /\ sendq = <<>>
  /\ queue = <<>>
  /\ listen = "read"
  /\ events = "get"
  /\ evReq = 0
  /\ closed = FALSE
  /\ fired = FALSE
  /\ closer = "none"
  /\ reports = 0
  /\ handled = 0
  /\ wire = <<>>
  /\ conn = "open"
  /\ owed = {}
  /\ answered = {}
  /\ sentEv = 0
  /\ reversed = 0

-----------------------------------------------------------------------------
(* What cancelling does *)

InFlight(s) == task[s] \in {"sending", "waiting"}

(* Mutant: the event task is left running. *)
EventTaskLeftRunning == UNCHANGED <<events, evReq, task>>

(* _event_task.cancel(): the handler that runs ends where it is, and the   *)
(* request it awaits ends with it.  The entry in _pending stays.           *)
EventTaskCancelled ==
  /\ events' = IF events = "crashed" THEN "crashed" ELSE "dead"
  /\ evReq' = 0
  /\ task' = [s \in Seqs |-> IF s = evReq /\ InFlight(s) THEN "cancelled" ELSE task[s]]

(* The futures once the event task is cancelled. *)
FutAfterCancel ==
  [s \in Seqs |-> IF s = evReq /\ task[s] = "waiting" /\ fut[s] = "open"
                  THEN "cancelled" ELSE fut[s]]

(* The futures once every entry of _pending is ended with outcome o. *)
Swept(f, o) == [s \in Seqs |-> IF s \in pending /\ f[s] = "open" THEN o ELSE f[s]]

-----------------------------------------------------------------------------
(* Requests *)

(* Mutant: request() does not look at _closed. *)
RegisterAnyTime ==
  /\ seq \in Seqs
  /\ seq' = seq + 1
  /\ task' = [task EXCEPT ![seq] = "sending"]
  /\ pending' = pending \cup {seq}
  /\ sendq' = Append(sendq, seq)

(* request() up to its first await: a number, a future in _pending, and a  *)
(* place in the queue for the write lock.                                  *)
Register ==
  /\ ~closed
  /\ seq \in Seqs
  /\ seq' = seq + 1
  /\ task' = [task EXCEPT ![seq] = "sending"]
  /\ pending' = pending \cup {seq}
  /\ sendq' = Append(sendq, seq)

Request ==
  /\ Register
  /\ UNCHANGED <<fut, queue, listen, events, evReq, closed, fired, closer,
                 reports, handled, adapterVars>>

(* Mutant: a task cancelled while it writes keeps the lock. *)
WriteKeepingLock ==
  /\ sendq # <<>>
  /\ LET s == Head(sendq) IN
       \/ /\ task[s] = "sending"
          /\ task' = [task EXCEPT ![s] = "waiting"]
          /\ owed' = IF conn = "open" /\ ~closed THEN owed \cup {s} ELSE owed
          /\ UNCHANGED listen
       \/ /\ task[s] = "response" /\ listen = "respond"
          /\ listen' = "read"
          /\ UNCHANGED <<task, owed>>
  /\ sendq' = Tail(sendq)
  /\ UNCHANGED <<seq, fut, pending, queue, events, evReq, closed, fired, closer,
                 reports, handled, wire, conn, answered, sentEv, reversed>>

(* _send(): write and drain under the lock.  A request goes on to wait for *)
(* its future; after the rejection of an adapter request the listen task   *)
(* reads on; the place of a cancelled task is passed over.  What is        *)
(* written to a closing transport is dropped.                              *)
Write ==
  /\ sendq # <<>>
  /\ LET s == Head(sendq) IN
       \/ /\ task[s] = "sending"
          /\ task' = [task EXCEPT ![s] = "waiting"]
          /\ owed' = IF conn = "open" /\ ~closed THEN owed \cup {s} ELSE owed
          /\ UNCHANGED listen
       \/ /\ task[s] = "response" /\ listen = "respond"
          /\ listen' = "read"
          /\ UNCHANGED <<task, owed>>
       \/ /\ task[s] \in Settled \/ (task[s] = "response" /\ listen # "respond")
          /\ UNCHANGED <<task, owed, listen>>
  /\ sendq' = Tail(sendq)
  /\ UNCHANGED <<seq, fut, pending, queue, events, evReq, closed, fired, closer,
                 reports, handled, wire, conn, answered, sentEv, reversed>>

(* drain() raises once the transport is lost.  request() lets the          *)
(* exception out and its entry stays in _pending.                          *)
WriteFails ==
  /\ sendq # <<>>
  /\ conn # "open" \/ closed
  /\ task[Head(sendq)] = "sending"
  /\ task' = [task EXCEPT ![Head(sendq)] = "sendError"]
  /\ sendq' = Tail(sendq)
  /\ UNCHANGED <<seq, fut, pending, queue, listen, events, evReq, closed, fired,
                 closer, reports, handled, adapterVars>>

(* Mutant: what the future holds is handed on unread. *)
OutcomeUnread(f) == f

OutcomeOf(f) == CASE f = "success" -> "replied"
                  [] f = "failure" -> "refused"
                  [] OTHER -> f

(* wait_for() returns or raises what the future holds. *)
Resume(s) ==
  /\ task[s] = "waiting"
  /\ fut[s] # "open"
  /\ task' = [task EXCEPT ![s] = OutcomeOf(fut[s])]
  /\ UNCHANGED <<seq, fut, pending, sendq, queue, listen, events, evReq, closed,
                 fired, closer, reports, handled, adapterVars>>

(* The deadline of wait_for(); it also wins against a future that was set  *)
(* but whose waiter has not run yet.  request() removes its entry.         *)
Timeout(s) ==
  /\ task[s] = "waiting"
  /\ task' = [task EXCEPT ![s] = "timedOut"]
  /\ fut' = [fut EXCEPT ![s] = IF @ = "open" THEN "cancelled" ELSE @]
  /\ pending' = pending \ {s}
  /\ UNCHANGED <<seq, sendq, queue, listen, events, evReq, closed, fired, closer,
                 reports, handled, adapterVars>>

(* The panel that asked cancels its task (watches, completions, scopes);   *)
(* request() does not remove its entry.  A request cancelled while it      *)
(* drains may already be written.                                          *)
Abandon(s) ==
  /\ InFlight(s)
  /\ s # evReq
  /\ task' = [task EXCEPT ![s] = "cancelled"]
  /\ fut' = [fut EXCEPT ![s] = IF task[s] = "waiting" /\ @ = "open" THEN "cancelled" ELSE @]
  /\ owed' \in IF sendq # <<>> /\ Head(sendq) = s /\ conn = "open" /\ ~closed
               THEN {owed, owed \cup {s}} ELSE {owed}
  /\ UNCHANGED <<seq, pending, sendq, queue, listen, events, evReq, closed, fired,
                 closer, reports, handled, wire, conn, answered, sentEv, reversed>>

-----------------------------------------------------------------------------
(* The listen task: _listen, _dispatch, _respond_unsupported,              *)
(* _handle_disconnect                                                      *)

(* Mutant: a response with success = False is popped and dropped. *)
DispatchReplyDropsFailure(m) ==
  /\ pending' = pending \ {m.id}
  /\ fut' = IF m.id \in pending /\ fut[m.id] = "open" /\ m.ok
            THEN [fut EXCEPT ![m.id] = "success"]
            ELSE fut
  /\ UNCHANGED <<seq, task, sendq, queue, listen>>

(* Mutant: a response ends the oldest request. *)
DispatchReplyToOldest(m) ==
  LET oldest == CHOOSE s \in pending : \A r \in pending : s <= r IN
  /\ pending' = IF pending = {} THEN {} ELSE pending \ {oldest}
  /\ fut' = IF pending # {} /\ fut[oldest] = "open"
            THEN [fut EXCEPT ![oldest] = IF m.ok THEN "success" ELSE "failure"]
            ELSE fut
  /\ UNCHANGED <<seq, task, sendq, queue, listen>>

DispatchReply(m) ==
  /\ pending' = pending \ {m.id}
  /\ fut' = IF m.id \in pending /\ fut[m.id] = "open"
            THEN [fut EXCEPT ![m.id] = IF m.ok THEN "success" ELSE "failure"]
            ELSE fut
  /\ UNCHANGED <<seq, task, sendq, queue, listen>>

DispatchEvent(m) ==
  /\ queue' = Append(queue, m.id)
  /\ UNCHANGED <<seq, task, fut, pending, sendq, listen>>

(* Mutant: a rejection does not wait for the lock. *)
RejectReverseFirst ==
  /\ seq \in Seqs
  /\ seq' = seq + 1
  /\ task' = [task EXCEPT ![seq] = "response"]
  /\ sendq' = <<seq>> \o sendq
  /\ listen' = "respond"
  /\ UNCHANGED <<fut, pending, queue>>

(* A request of the adapter is rejected with a response that takes a       *)
(* number of the client's own, or ignored when it is malformed.            *)
RejectReverse ==
  /\ seq \in Seqs
  /\ seq' = seq + 1
  /\ task' = [task EXCEPT ![seq] = "response"]
  /\ sendq' = Append(sendq, seq)
  /\ listen' = "respond"
  /\ UNCHANGED <<fut, pending, queue>>

IgnoreReverse == UNCHANGED <<seq, task, fut, pending, sendq, queue, listen>>

Dispatch ==
  /\ listen = "read"
  /\ wire # <<>>
  /\ LET m == Head(wire) IN
       \/ m.kind = "reply" /\ DispatchReply(m)
       \/ m.kind = "event" /\ DispatchEvent(m)
       \/ m.kind = "reverse" /\ (RejectReverse \/ IgnoreReverse)
  /\ wire' = Tail(wire)
  /\ UNCHANGED <<events, evReq, closed, fired, closer, reports, handled, conn,
                 owed, answered, sentEv, reversed>>

(* Mutant: the end of the stream is not taken for the end. *)
ListenFailsOnGarbage ==
  listen = "read" /\ wire # <<>> /\ Head(wire).kind = "garbage"

(* The listen task ends with an exception: the end of the stream, a reset, *)
(* an undecodable message, or a failed write of a rejection.               *)
(* _handle_disconnect up to its first await.                               *)
ListenFails ==
  \/ listen = "read" /\ \/ conn # "open" /\ wire = <<>>
                        \/ wire # <<>> /\ Head(wire).kind = "garbage"
  \/ listen = "respond" /\ /\ sendq # <<>>
                           /\ task[Head(sendq)] = "response"
                           /\ conn # "open"

Teardown ==
  /\ ListenFails
  /\ ~fired
  /\ fired' = TRUE
  /\ closed' = TRUE
  /\ EventTaskCancelled
  /\ fut' = Swept(FutAfterCancel, "lost")
  /\ pending' = {}
  /\ listen' = "flush"
  /\ UNCHANGED <<seq, sendq, queue, closer, reports, handled, adapterVars>>

(* writer.wait_closed(), for at most half a second. *)
TeardownFlushed ==
  /\ listen = "flush"
  /\ listen' = "report"
  /\ UNCHANGED <<seq, task, fut, pending, sendq, queue, events, evReq, closed,
                 fired, closer, reports, handled, adapterVars>>

(* The disconnect handlers; what they raise is dropped. *)
Report ==
  /\ listen = "report"
  /\ reports' = reports + 1
  /\ listen' = "done"
  /\ UNCHANGED <<seq, task, fut, pending, sendq, queue, events, evReq, closed,
                 fired, closer, handled, adapterVars>>

-----------------------------------------------------------------------------
(* The event task: _event_loop and the handlers it awaits *)

TakeEvent ==
  /\ events = "get"
  /\ queue # <<>>
  /\ handled' = Head(queue)
  /\ queue' = Tail(queue)
  /\ events' = "busy"
  /\ UNCHANGED <<seq, task, fut, pending, sendq, listen, evReq, closed, fired,
                 closer, reports, adapterVars>>

HandlerReturns ==
  /\ events = "busy"
  /\ events' = "get"
  /\ UNCHANGED <<seq, task, fut, pending, sendq, queue, listen, evReq, closed,
                 fired, closer, reports, handled, adapterVars>>

HandlerRequests ==
  /\ events = "busy"
  /\ Register
  /\ events' = "await"
  /\ evReq' = seq
  /\ UNCHANGED <<fut, queue, listen, closed, fired, closer, reports, handled,
                 adapterVars>>

HandlerResumes ==
  /\ events = "await"
  /\ task[evReq] \in Settled
  /\ events' = "busy"
  /\ evReq' = 0
  /\ UNCHANGED <<seq, task, fut, pending, sendq, queue, listen, closed, fired,
                 closer, reports, handled, adapterVars>>

(* _event_loop catches CancelledError only: any exception ends the task.   *)
HandlerRaises ==
  /\ events = "busy"
  /\ events' = "crashed"
  /\ UNCHANGED <<seq, task, fut, pending, sendq, queue, listen, evReq, closed,
                 fired, closer, reports, handled, adapterVars>>

-----------------------------------------------------------------------------
(* close() *)

(* Mutant: close() does not cancel the listen task. *)
CloseKeepsListening ==
  /\ ~closed
  /\ closed' = TRUE
  /\ EventTaskCancelled
  /\ fut' = FutAfterCancel
  /\ UNCHANGED <<seq, pending, sendq, queue, listen, fired, reports, handled, adapterVars>>

(* Up to wait_closed(): both tasks are cancelled, with what they await.    *)
CloseBegins ==
  /\ ~closed
  /\ closed' = TRUE
  /\ listen' = "done"
  /\ EventTaskCancelled
  /\ fut' = FutAfterCancel
  /\ UNCHANGED <<seq, pending, sendq, queue, fired, reports, handled, adapterVars>>

Close ==
  /\ CloseBegins
  /\ closer' = "flush"

(* Mutant: _pending is cleared and its futures are left open. *)
CloseFlushedForgets ==
  /\ closer = "flush"
  /\ closer' = "done"
  /\ pending' = {}
  /\ UNCHANGED <<seq, task, fut, sendq, queue, listen, events, evReq, closed, fired,
                 reports, handled, adapterVars>>

(* wait_closed() returned: what still waits is cancelled. *)
CloseFlushed ==
  /\ closer = "flush"
  /\ closer' = "done"
  /\ fut' = Swept(fut, "cancelled")
  /\ pending' = {}
  /\ UNCHANGED <<seq, task, sendq, queue, listen, events, evReq, closed, fired,
                 reports, handled, adapterVars>>

(* wait_closed() raised what broke the transport. *)
CloseFails ==
  /\ closer = "flush"
  /\ conn # "open"
  /\ closer' = "failed"
  /\ UNCHANGED <<seq, task, fut, pending, sendq, queue, listen, events, evReq,
                 closed, fired, reports, handled, adapterVars>>

(* An event handler calls close(): it has cancelled the task it runs in,   *)
(* so wait_closed() raises CancelledError and close() goes no further.     *)
HandlerCloses ==
  /\ events = "busy"
  /\ CloseBegins
  /\ closer' = "failed"

-----------------------------------------------------------------------------
(* The adapter (external).  What it sends to a closed client is dropped    *)
(* unread, so it is not modelled; a reset also drops what was not read.    *)

Sends(m) ==
  /\ conn = "open"
  /\ ~closed
  /\ wire' = Append(wire, m)

Answer(s) ==
  /\ s \in owed
  /\ \E ok \in BOOLEAN : Sends([kind |-> "reply", id |-> s, ok |-> ok])
  /\ owed' = owed \ {s}
  /\ answered' = answered \cup {s}
  /\ UNCHANGED <<clientVars, conn, sentEv, reversed>>

EmitEvent ==
  /\ sentEv < MaxEvents
  /\ sentEv' = sentEv + 1
  /\ Sends([kind |-> "event", id |-> sentEv + 1])
  /\ UNCHANGED <<clientVars, conn, owed, answered, reversed>>

(* A request, or bytes that do not decode to a message. *)
EmitOther(kind) ==
  /\ reversed < MaxReverse
  /\ reversed' = reversed + 1
  /\ Sends([kind |-> kind])
  /\ UNCHANGED <<clientVars, conn, owed, answered, sentEv>>

RemoteEnds(how) ==
  /\ conn = "open"
  /\ conn' = how
  /\ wire' = IF how = "reset" THEN <<>> ELSE wire
  /\ UNCHANGED <<clientVars, owed, answered, sentEv, reversed>>

-----------------------------------------------------------------------------
Listen  == Dispatch \/ Teardown \/ TeardownFlushed \/ Report
Handler == HandlerReturns \/ HandlerRequests \/ HandlerRaises \/ HandlerCloses
Adapter == \/ \E s \in Seqs : Answer(s)
           \/ EmitEvent
           \/ \E kind \in {"reverse", "garbage"} : EmitOther(kind)
           \/ \E how \in {"eof", "reset"} : RemoteEnds(how)

Next ==
  \/ Request \/ Write \/ WriteFails
  \/ \E s \in Seqs : Resume(s) \/ Timeout(s) \/ Abandon(s)
  \/ Listen
  \/ TakeEvent \/ HandlerResumes \/ Handler
  \/ Close \/ CloseFlushed \/ CloseFails
  \/ Adapter

(* Every asyncio task that can run is run, every timer fires, and an event *)
(* handler ends.  A drain ends too: the adapter keeps reading its socket   *)
(* (request() has no deadline for the write).  Nothing is assumed of the   *)
(* adapter's answers nor of the user.                                      *)
Fairness ==
  /\ WF_vars(Write \/ WriteFails)
  /\ \A s \in Seqs : WF_vars(Resume(s) \/ Timeout(s))
  /\ WF_vars(Listen)
  /\ WF_vars(TakeEvent \/ HandlerResumes)
  /\ WF_vars(Handler)
  /\ WF_vars(CloseFlushed \/ CloseFails)

Spec     == Init /\ [][Next]_vars
FairSpec == Spec /\ Fairness
-----------------------------------------------------------------------------
(* Properties *)

TypeOK ==
  /\ seq \in 1..(MaxSeq + 1)
  /\ task \in [Seqs -> Status]
  /\ fut \in [Seqs -> FutureState]
  /\ pending \subseteq Seqs
  /\ sendq \in Seq(Seqs)
  /\ queue \in Seq(1..MaxEvents)
  /\ listen \in {"read", "respond", "flush", "report", "done"}
  /\ events \in {"get", "busy", "await", "dead", "crashed"}
  /\ evReq \in 0..MaxSeq
  /\ closed \in BOOLEAN
  /\ fired \in BOOLEAN
  /\ closer \in {"none", "flush", "done", "failed"}
  /\ reports \in Nat
  /\ handled \in 0..MaxEvents
  /\ wire \in Seq(Message)
  /\ conn \in {"open", "eof", "reset"}
  /\ owed \subseteq Seqs
  /\ answered \subseteq Seqs
  /\ sentEv \in 0..MaxEvents
  /\ reversed \in 0..MaxReverse

(* A caller that waits for a future nobody has set can still be reached:   *)
(* its entry is in _pending, where a response, the end of the connection   *)
(* or close() will find it (client.py: request, _dispatch,                 *)
(* _handle_disconnect).                                                    *)
NoOrphanedWaiter ==
  \A s \in Seqs : InFlight(s) /\ fut[s] = "open" => s \in pending

(* Once the client has been torn down, by _handle_disconnect or by a       *)
(* close() that ran to its end, nothing is left in _pending and no caller  *)
(* waits for a future that nobody will set.                                *)
TeardownIsComplete ==
  fired \/ closer = "done" =>
    /\ pending = {}
    /\ \A s \in Seqs : InFlight(s) => fut[s] # "open"

(* A response ends the request it names and no other: a future holds a     *)
(* response only if the adapter has answered that very request             *)
(* (client.py: _dispatch looks request_seq up in _pending).                *)
NoCrossedReplies ==
  \A s \in Seqs : fut[s] \in {"success", "failure"} => s \in answered

(* The disconnect handlers run at most once, only after the adapter's end  *)
(* was lost or sent something unreadable, and never for a connection that  *)
(* close() ended (client.py: "Called if the remote closes the underlying   *)
(* transport unexpectedly").                                               *)
ReportsOnlyRemoteLoss ==
  reports > 0 => /\ reports = 1
                 /\ closer = "none"
                 /\ conn # "open" \/ \E i \in DOMAIN wire : wire[i].kind = "garbage"

(* The write lock hands requests and rejections to the wire in the order   *)
(* of their sequence numbers, whichever task sends them.                   *)
WrittenInOrder ==
  /\ \A i \in DOMAIN sendq : sendq[i] < seq
  /\ \A i, j \in DOMAIN sendq : i < j => sendq[i] < sendq[j]

(* Events reach the handlers one at a time, in the order the adapter sent  *)
(* them, none twice and none skipped, and none once the client is closed.  *)
EventsInOrder == [][handled' # handled => handled' = handled + 1 /\ ~closed]_vars

(* Every request comes to an end: by an answer, its timeout or the end of  *)
(* the connection, also when the event task has died or close() was cut    *)
(* short.                                                                  *)
RequestsEnd == \A s \in Seqs : InFlight(s) ~> task[s] \in Settled

(* The end of the connection is noticed: the client is closed and, unless  *)
(* close() did that, the disconnect handlers run.                          *)
LossIsReported == conn # "open" ~> closed /\ (reports = 1 \/ closer # "none")

(* The client keeps the promise its callers rely on. *)
Outcome(s) == CASE task[s] \in {"unborn", "response"} -> "none"
                [] InFlight(s)                        -> "open"
                [] task[s] \in {"replied", "refused"} -> "answered"
                [] OTHER                              -> "failed"

Promise == INSTANCE RequestPromise WITH
             Requests <- Seqs,
             outcome  <- [s \in Seqs |-> Outcome(s)],
             replied  <- answered,
             link     <- IF closed THEN "down" ELSE "up",
             reports  <- reports,
             heard    <- handled

KeepsPromise == Promise!Spec
=============================================================================
