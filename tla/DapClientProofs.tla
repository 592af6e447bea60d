--------------------------- MODULE DapClientProofs ---------------------------
(***************************************************************************)
(* Theorems about DapClient, for any number of requests, events and        *)
(* messages of the adapter.                                                *)
(*                                                                         *)
(* The invariants the runs check are not inductive by themselves.  IInv    *)
(* adds what they silently rest on: which sequence numbers are in use,     *)
(* how the flags of the client, its tasks and close() depend on each       *)
(* other, and what the messages on their way may contain.                  *)
(***************************************************************************)
EXTENDS DapClient, SequenceTheorems, TLAPS

(* A number is unborn until seq has passed it; only requests in use are in *)
(* _pending, and a number not used yet has an open future.                 *)
NumbersInv ==
  /\ \A s \in Seqs : task[s] = "unborn" <=> s >= seq
  /\ \A s \in Seqs : task[s] \in {"unborn", "response"} => fut[s] = "open" /\ s \notin pending
  /\ evReq # 0 => evReq < seq /\ task[evReq] # "response"

(* How the flags and the tasks depend on each other. *)
LifeInv ==
  /\ fired \/ closer # "none" => closed
  /\ closer # "none" => ~fired /\ listen = "done"
  /\ listen \in {"flush", "report"} => fired /\ reports = 0
  /\ listen = "done" => fired \/ closer # "none"
  /\ fired => listen \in {"flush", "report", "done"}
  /\ reports \in {0, 1}
  /\ reports > 0 => fired
  /\ closed <=> fired \/ closer # "none"
  /\ closed => events \in {"dead", "crashed"}
  /\ events = "await" => evReq \in Seqs

(* A response on its way answers a request the adapter has answered. *)
RepliesInv ==
  \A i \in DOMAIN wire : wire[i].kind = "reply" => wire[i].id \in answered

(* The client goes down by itself only for a reason. *)
CauseInv ==
  fired => conn # "open" \/ \E i \in DOMAIN wire : wire[i].kind = "garbage"

IInv ==
  /\ TypeOK
  /\ NumbersInv
  /\ LifeInv
  /\ RepliesInv
  /\ CauseInv
  /\ NoOrphanedWaiter
  /\ TeardownIsComplete
  /\ NoCrossedReplies
  /\ WrittenInOrder

-----------------------------------------------------------------------------
(* Type correctness *)

LEMMA HeadTailOf ==
  ASSUME NEW S, NEW q \in Seq(S), q # <<>>
  PROVE  Head(q) \in S /\ Tail(q) \in Seq(S)
  OBVIOUS

LEMMA TailIndex ==
  ASSUME NEW S, NEW q \in Seq(S), q # <<>>
  PROVE  /\ DOMAIN q = 1..Len(q) /\ Len(q) \in Nat /\ Len(q) > 0
         /\ DOMAIN Tail(q) = 1..(Len(q) - 1) /\ Len(Tail(q)) = Len(q) - 1
         /\ \A i \in DOMAIN Tail(q) : i + 1 \in DOMAIN q /\ Tail(q)[i] = q[i + 1]
         /\ Head(q) = q[1]
  OBVIOUS

LEMMA AppendIndex ==
  ASSUME NEW S, NEW q \in Seq(S), NEW e \in S
  PROVE  /\ DOMAIN q = 1..Len(q) /\ Len(q) \in Nat
         /\ DOMAIN Append(q, e) = 1..(Len(q) + 1) /\ Len(Append(q, e)) = Len(q) + 1
         /\ \A i \in DOMAIN q : Append(q, e)[i] = q[i]
         /\ Append(q, e)[Len(q) + 1] = e
         /\ \A i \in DOMAIN Append(q, e) : i \in DOMAIN q \/ i = Len(q) + 1
         /\ \A i \in DOMAIN q : i # Len(q) + 1 /\ ~(Len(q) + 1 < i)
  OBVIOUS

LEMMA InitTypeOK == Init => TypeOK
<1> SUFFICES ASSUME Init PROVE TypeOK
  OBVIOUS
<1>1. /\ sendq \in Seq(Seqs)
      /\ queue \in Seq(1..MaxEvents)
      /\ wire \in Seq(Message)
  BY EmptySeq DEF Init
<1>2. /\ task \in [Seqs -> Status]
      /\ fut \in [Seqs -> FutureState]
  BY DEF Init, Status, FutureState
<1>3. closed \in BOOLEAN /\ fired \in BOOLEAN
  BY Zenon DEF Init
<1>4. /\ seq \in 1..(MaxSeq + 1)
      /\ evReq \in 0..MaxSeq
      /\ handled \in 0..MaxEvents
      /\ sentEv \in 0..MaxEvents
      /\ reversed \in 0..MaxReverse
      /\ reports \in Nat
  BY BoundsAssumption DEF BoundsAssumption, Init
<1> QED
  BY <1>1, <1>2, <1>3, <1>4 DEF Init, TypeOK

LEMMA NextTypeOK == TypeOK /\ [Next]_vars => TypeOK'
<1> SUFFICES ASSUME TypeOK, [Next]_vars PROVE TypeOK'
  OBVIOUS
<1> USE BoundsAssumption DEF BoundsAssumption, TypeOK, Seqs, Status, Settled, FutureState, InFlight,
                             vars, clientVars, adapterVars
<1>1. CASE Request
  BY <1>1 DEF Request, Register
<1>2. CASE Write
  <2>1. Head(sendq) \in Seqs /\ Tail(sendq) \in Seq(Seqs)
    BY <1>2, HeadTailOf DEF Write
  <2>2. task' \in [Seqs -> Status] /\ owed' \subseteq Seqs
    BY <1>2, <2>1 DEF Write, Status
  <2>3. listen' \in {"read", "respond", "flush", "report", "done"}
    BY <1>2 DEF Write
  <2> QED
    BY <1>2, <2>1, <2>2, <2>3 DEF Write
<1>3. CASE WriteFails
  BY <1>3 DEF WriteFails
<1>4. ASSUME NEW s \in Seqs, Resume(s) PROVE TypeOK'
  <2>1. fut[s] \in {"success", "failure", "lost", "cancelled"}
    BY <1>4 DEF Resume
  <2>2. OutcomeOf(fut[s]) \in Status
    BY <2>1 DEF OutcomeOf
  <2> QED
    BY <1>4, <2>2 DEF Resume
<1>5. ASSUME NEW s \in Seqs, Timeout(s) PROVE TypeOK'
  BY <1>5 DEF Timeout
<1>6. ASSUME NEW s \in Seqs, Abandon(s) PROVE TypeOK'
  BY <1>6 DEF Abandon
<1>7. CASE Dispatch
  <2>1. Head(wire) \in Message /\ Tail(wire) \in Seq(Message)
    BY <1>7, HeadTailOf DEF Dispatch
  <2>2. CASE Head(wire).kind = "reply" /\ DispatchReply(Head(wire))
    <3>1. Head(wire).id \in Seqs
      BY <2>1, <2>2 DEF Message, Reply, Event, Other
    <3> QED
      BY <1>7, <2>1, <2>2, <3>1 DEF Dispatch, DispatchReply
  <2>3. CASE Head(wire).kind = "event" /\ DispatchEvent(Head(wire))
    <3>1. Head(wire).id \in 1..MaxEvents
      BY <2>1, <2>3 DEF Message, Reply, Event, Other
    <3>2. queue' \in Seq(1..MaxEvents)
      BY <2>3, <3>1 DEF DispatchEvent
    <3> QED
      BY <1>7, <2>1, <2>3, <3>2 DEF Dispatch, DispatchEvent
  <2>4. CASE RejectReverse
    <3>1. task' \in [Seqs -> Status] /\ sendq' \in Seq(Seqs)
      BY <2>4 DEF RejectReverse
    <3> QED
      BY <1>7, <2>1, <2>4, <3>1 DEF Dispatch, RejectReverse
  <2>5. CASE IgnoreReverse
    BY <1>7, <2>1, <2>5 DEF Dispatch, IgnoreReverse
  <2> QED
    BY <1>7, <2>2, <2>3, <2>4, <2>5 DEF Dispatch
<1>8. CASE Teardown
  BY <1>8 DEF Teardown, EventTaskCancelled, FutAfterCancel, Swept
<1>9. CASE TeardownFlushed
  BY <1>9 DEF TeardownFlushed
<1>10. CASE Report
  BY <1>10 DEF Report
<1>11. CASE TakeEvent
  BY <1>11 DEF TakeEvent
<1>12. CASE HandlerResumes
  BY <1>12 DEF HandlerResumes
<1>13. CASE HandlerReturns
  BY <1>13 DEF HandlerReturns
<1>14. CASE HandlerRequests
  BY <1>14 DEF HandlerRequests, Register
<1>15. CASE HandlerRaises
  BY <1>15 DEF HandlerRaises
<1>16. CASE HandlerCloses
  BY <1>16 DEF HandlerCloses, CloseBegins, EventTaskCancelled, FutAfterCancel
<1>17. CASE Close
  BY <1>17 DEF Close, CloseBegins, EventTaskCancelled, FutAfterCancel
<1>18. CASE CloseFlushed
  BY <1>18 DEF CloseFlushed, Swept
<1>19. CASE CloseFails
  BY <1>19 DEF CloseFails
<1>20. CASE Adapter
  <2>1. ASSUME NEW s \in Seqs, Answer(s) PROVE TypeOK'
    <3>1. \A ok \in BOOLEAN : [kind |-> "reply", id |-> s, ok |-> ok] \in Message
      BY DEF Message, Reply
    <3> QED
      BY <2>1, <3>1 DEF Answer, Sends
  <2>2. CASE EmitEvent
    <3>1. [kind |-> "event", id |-> sentEv + 1] \in Message
      BY <2>2 DEF EmitEvent, Message, Event
    <3> QED
      BY <2>2, <3>1 DEF EmitEvent, Sends
  <2>3. ASSUME NEW kind \in {"reverse", "garbage"}, EmitOther(kind) PROVE TypeOK'
    <3>1. [kind |-> kind] \in Message
      BY DEF Message, Other
    <3> QED
      BY <2>3, <3>1 DEF EmitOther, Sends
  <2>4. ASSUME NEW how \in {"eof", "reset"}, RemoteEnds(how) PROVE TypeOK'
    BY <2>4 DEF RemoteEnds
  <2> QED
    BY <1>20, <2>1, <2>2, <2>3, <2>4 DEF Adapter
<1>21. CASE UNCHANGED vars
  BY <1>21
<1> QED
  BY <1>1, <1>2, <1>3, <1>4, <1>5, <1>6, <1>7, <1>8, <1>9, <1>10, <1>11, <1>12, <1>13, <1>14, <1>15, <1>16, <1>17, <1>18, <1>19, <1>20, <1>21 DEF Next, Listen, Handler

-----------------------------------------------------------------------------
(* The inductive invariant *)

(* What Dispatch does, message by message. *)
LEMMA DispatchCases ==
  ASSUME TypeOK, Dispatch
  PROVE  /\ listen = "read" /\ wire # <<>> /\ wire' = Tail(wire)
         /\ UNCHANGED <<events, evReq, closed, fired, closer, reports, handled,
                       conn, owed, answered, sentEv, reversed>>
         /\ \/ /\ Head(wire).kind = "reply" /\ Head(wire).id \in Seqs
               /\ DispatchReply(Head(wire))
            \/ /\ Head(wire).kind = "event" /\ Head(wire).id \in 1..MaxEvents
               /\ DispatchEvent(Head(wire))
            \/ Head(wire).kind = "reverse" /\ (RejectReverse \/ IgnoreReverse)
<1>1. Head(wire) \in Message
  BY HeadTailOf DEF Dispatch, TypeOK
<1> QED
  BY <1>1 DEF Dispatch, Message, Reply, Event, Other

(* Which actions touch the wire, the disconnect flag, the write queue and  *)
(* the event queue.                                                        *)
Frames ==
  /\ Dispatch \/ Adapter \/ UNCHANGED <<wire, conn, answered, sentEv>>
  /\ Teardown \/ UNCHANGED fired
  /\ Request \/ HandlerRequests \/ Write \/ WriteFails \/ Dispatch \/ UNCHANGED <<seq, sendq>>
  /\ TakeEvent \/ Dispatch \/ UNCHANGED <<queue, handled>>

LEMMA StepFrames == TypeOK /\ [Next]_vars => Frames
<1> SUFFICES ASSUME TypeOK, [Next]_vars PROVE Frames
  OBVIOUS
<1> USE DEF Frames, vars, clientVars, adapterVars
<1>1. CASE Request \/ Write \/ WriteFails
  BY <1>1 DEF Request, Write, WriteFails
<1>2. CASE \E s \in Seqs : Resume(s) \/ Timeout(s) \/ Abandon(s)
  BY <1>2 DEF Resume, Timeout, Abandon
<1>3. CASE Dispatch
  BY <1>3, DispatchCases
<1>4. CASE Teardown \/ TeardownFlushed \/ Report
  BY <1>4 DEF Teardown, TeardownFlushed, Report
<1>5. CASE TakeEvent \/ HandlerResumes \/ Handler
  BY <1>5 DEF TakeEvent, HandlerResumes, Handler, HandlerReturns, HandlerRequests,
              HandlerRaises, HandlerCloses, CloseBegins
<1>6. CASE Close \/ CloseFlushed \/ CloseFails
  BY <1>6 DEF Close, CloseBegins, CloseFlushed, CloseFails
<1>7. CASE Adapter
  BY <1>7 DEF Adapter, Answer, EmitEvent, EmitOther, RemoteEnds
<1> QED
  BY <1>1, <1>2, <1>3, <1>4, <1>5, <1>6, <1>7 DEF Next, Listen

(* Numbers are taken in order, and only requests are entered in _pending. *)
LEMMA NumbersStep == IInv /\ [Next]_vars => NumbersInv'
<1> SUFFICES ASSUME IInv, [Next]_vars PROVE NumbersInv'
  OBVIOUS
<1> USE DEF IInv, TypeOK, NumbersInv, Seqs, Status, Settled, FutureState, InFlight,
           vars, clientVars, adapterVars
<1>1. CASE Request
  BY <1>1 DEF Request, Register
<1>2. CASE Write
  <2>1. Head(sendq) \in Seqs
    BY <1>2, HeadTailOf DEF Write
  <2>2. CASE UNCHANGED task
    BY <1>2, <2>2 DEF Write
  <2>3. CASE /\ task[Head(sendq)] = "sending"
             /\ task' = [task EXCEPT ![Head(sendq)] = "waiting"]
    BY <1>2, <2>1, <2>3 DEF Write
  <2> QED
    BY <1>2, <2>2, <2>3 DEF Write
<1>3. CASE WriteFails
  BY <1>3 DEF WriteFails
<1>4. ASSUME NEW s \in Seqs, Resume(s) PROVE NumbersInv'
  BY <1>4 DEF Resume, OutcomeOf
<1>5. ASSUME NEW s \in Seqs, Timeout(s) PROVE NumbersInv'
  BY <1>5 DEF Timeout
<1>6. ASSUME NEW s \in Seqs, Abandon(s) PROVE NumbersInv'
  BY <1>6 DEF Abandon
<1>7. CASE Dispatch
  <2>1. evReq' = evReq
    BY <1>7, DispatchCases
  <2>2. CASE Head(wire).id \in Seqs /\ DispatchReply(Head(wire))
    <3>1. \A s \in Seqs : s \notin pending => fut'[s] = fut[s] /\ s \notin pending'
      BY <2>2 DEF DispatchReply
    <3>2. \A s \in Seqs : s # Head(wire).id => fut'[s] = fut[s] /\ (s \in pending' <=> s \in pending)
      BY <2>2 DEF DispatchReply
    <3>3. Head(wire).id \notin pending'
      BY <2>2 DEF DispatchReply
    <3> QED
      BY <2>1, <2>2, <3>1, <3>2, <3>3 DEF DispatchReply
  <2>3. CASE DispatchEvent(Head(wire)) \/ IgnoreReverse
    BY <2>1, <2>3 DEF DispatchEvent, IgnoreReverse
  <2>4. CASE RejectReverse
    BY <2>1, <2>4 DEF RejectReverse
  <2> QED
    BY <1>7, DispatchCases, <2>2, <2>3, <2>4
<1>8. CASE Teardown
  BY <1>8 DEF Teardown, EventTaskCancelled, FutAfterCancel, Swept
<1>9. CASE HandlerRequests
  BY <1>9 DEF HandlerRequests, Register
<1>10. CASE HandlerResumes
  BY <1>10 DEF HandlerResumes
<1>11. CASE HandlerCloses
  BY <1>11 DEF HandlerCloses, CloseBegins, EventTaskCancelled, FutAfterCancel
<1>12. CASE Close
  BY <1>12 DEF Close, CloseBegins, EventTaskCancelled, FutAfterCancel
<1>13. CASE CloseFlushed
  BY <1>13 DEF CloseFlushed, Swept
<1>14. CASE UNCHANGED <<seq, task, fut, pending, evReq>>
  BY <1>14
<1> QED
  BY <1>1, <1>2, <1>3, <1>4, <1>5, <1>6, <1>7, <1>8, <1>9, <1>10, <1>11, <1>12, <1>13, <1>14
  DEF Next, Listen, Handler, TeardownFlushed, Report, TakeEvent,
      HandlerReturns, HandlerRaises, CloseFails, Adapter, Answer, EmitEvent,
      EmitOther, RemoteEnds, Sends

(* No step leaves a caller waiting outside _pending. *)
LEMMA WaiterStep == IInv /\ [Next]_vars => NoOrphanedWaiter'
<1> SUFFICES ASSUME IInv, [Next]_vars PROVE NoOrphanedWaiter'
  OBVIOUS
<1> USE DEF IInv, TypeOK, NoOrphanedWaiter, Seqs, Status, Settled, FutureState, InFlight, NumbersInv,
           vars, clientVars, adapterVars
<1>1. CASE Request
  BY <1>1 DEF Request, Register
<1>2. CASE Write
  BY <1>2 DEF Write
<1>3. CASE WriteFails
  BY <1>3 DEF WriteFails
<1>4. ASSUME NEW s \in Seqs, Resume(s) PROVE NoOrphanedWaiter'
  BY <1>4 DEF Resume, OutcomeOf
<1>5. ASSUME NEW s \in Seqs, Timeout(s) PROVE NoOrphanedWaiter'
  BY <1>5 DEF Timeout
<1>6. ASSUME NEW s \in Seqs, Abandon(s) PROVE NoOrphanedWaiter'
  BY <1>6 DEF Abandon
<1>7. CASE Dispatch
  <2>1. CASE Head(wire).id \in Seqs /\ DispatchReply(Head(wire))
    BY <2>1 DEF DispatchReply
  <2>2. CASE RejectReverse
    BY <2>2 DEF RejectReverse
  <2>3. CASE UNCHANGED <<task, fut, pending>>
    BY <2>3
  <2> QED
    BY <1>7, <2>1, <2>2, <2>3, DispatchCases DEF DispatchEvent, IgnoreReverse
<1>8. CASE Teardown
  BY <1>8 DEF Teardown, EventTaskCancelled, FutAfterCancel, Swept
<1>9. CASE HandlerRequests
  BY <1>9 DEF HandlerRequests, Register
<1>10. CASE HandlerResumes
  BY <1>10 DEF HandlerResumes
<1>11. CASE HandlerCloses
  BY <1>11 DEF HandlerCloses, CloseBegins, EventTaskCancelled, FutAfterCancel
<1>12. CASE Close
  BY <1>12 DEF Close, CloseBegins, EventTaskCancelled, FutAfterCancel
<1>13. CASE CloseFlushed
  BY <1>13 DEF CloseFlushed, Swept
<1>14. CASE UNCHANGED <<task, fut, pending>>
  BY <1>14
<1> QED
  BY <1>1, <1>2, <1>3, <1>4, <1>5, <1>6, <1>7, <1>8, <1>9, <1>10, <1>11, <1>12, <1>13, <1>14
  DEF Next, Listen, Handler, TeardownFlushed, Report, TakeEvent,
      HandlerReturns, HandlerRaises, CloseFails, Adapter, Answer, EmitEvent,
      EmitOther, RemoteEnds, Sends

(* A teardown is complete, and stays so: a closed client takes no request. *)
LEMMA TeardownStep == IInv /\ [Next]_vars => TeardownIsComplete'
<1> SUFFICES ASSUME IInv, [Next]_vars PROVE TeardownIsComplete'
  OBVIOUS
<1> USE DEF IInv, TypeOK, TeardownIsComplete, Seqs, Status, Settled, FutureState, InFlight, NumbersInv, LifeInv, NoOrphanedWaiter,
           vars, clientVars, adapterVars
<1>1. CASE Request
  BY <1>1 DEF Request, Register
<1>2. CASE Write
  BY <1>2 DEF Write
<1>3. CASE WriteFails
  BY <1>3 DEF WriteFails
<1>4. ASSUME NEW s \in Seqs, Resume(s) PROVE TeardownIsComplete'
  BY <1>4 DEF Resume, OutcomeOf
<1>5. ASSUME NEW s \in Seqs, Timeout(s) PROVE TeardownIsComplete'
  BY <1>5 DEF Timeout
<1>6. ASSUME NEW s \in Seqs, Abandon(s) PROVE TeardownIsComplete'
  BY <1>6 DEF Abandon
<1>7. CASE Dispatch
  <2>1. CASE Head(wire).id \in Seqs /\ DispatchReply(Head(wire))
    BY <1>7, <2>1, DispatchCases DEF DispatchReply
  <2>2. CASE RejectReverse
    BY <1>7, <2>2, DispatchCases DEF RejectReverse
  <2>3. CASE UNCHANGED <<task, fut, pending>>
    BY <1>7, <2>3, DispatchCases
  <2> QED
    BY <1>7, <2>1, <2>2, <2>3, DispatchCases DEF DispatchEvent, IgnoreReverse
<1>8. CASE Teardown
  BY <1>8 DEF Teardown, EventTaskCancelled, FutAfterCancel, Swept
<1>9. CASE HandlerRequests
  BY <1>9 DEF HandlerRequests, Register
<1>10. CASE HandlerResumes
  BY <1>10 DEF HandlerResumes
<1>11. CASE HandlerCloses
  BY <1>11 DEF HandlerCloses, CloseBegins, EventTaskCancelled, FutAfterCancel
<1>12. CASE Close
  BY <1>12 DEF Close, CloseBegins, EventTaskCancelled, FutAfterCancel
<1>13. CASE CloseFlushed
  BY <1>13 DEF CloseFlushed, Swept
<1>14. CASE CloseFails
  BY <1>14 DEF CloseFails
<1>15. CASE UNCHANGED <<task, fut, pending, fired, closer>>
  BY <1>15
<1> QED
  BY <1>1, <1>2, <1>3, <1>4, <1>5, <1>6, <1>7, <1>8, <1>9, <1>10, <1>11, <1>12, <1>13, <1>14, <1>15
  DEF Next, Listen, Handler, TeardownFlushed, Report, TakeEvent,
      HandlerReturns, HandlerRaises, Adapter, Answer, EmitEvent, EmitOther,
      RemoteEnds, Sends

(* The flags of the client follow its tasks. *)
LEMMA LifeStep == IInv /\ [Next]_vars => LifeInv'
<1> SUFFICES ASSUME IInv, [Next]_vars PROVE LifeInv'
  OBVIOUS
<1> USE DEF IInv, TypeOK, LifeInv, Seqs,
           vars, clientVars, adapterVars
<1>1. CASE Request
  BY <1>1 DEF Request, Register
<1>2. CASE Write
  BY <1>2 DEF Write
<1>3. CASE Dispatch
  <2>1. /\ listen = "read"
        /\ listen' \in {"read", "respond"}
        /\ UNCHANGED <<events, evReq, closed, fired, closer, reports>>
    <3>1. CASE Head(wire).id \in Seqs /\ DispatchReply(Head(wire))
      BY <1>3, <3>1 DEF Dispatch, DispatchReply
    <3>2. CASE RejectReverse
      BY <1>3, <3>2 DEF Dispatch, RejectReverse
    <3>3. CASE UNCHANGED listen
      BY <1>3, <3>3 DEF Dispatch
    <3> QED
      BY <1>3, <3>1, <3>2, <3>3, DispatchCases DEF DispatchEvent, IgnoreReverse
  <2> QED
    BY <2>1
<1>4. CASE Teardown
  BY <1>4 DEF Teardown, ListenFails, EventTaskCancelled, FutAfterCancel, Swept
<1>5. CASE TeardownFlushed
  BY <1>5 DEF TeardownFlushed
<1>6. CASE Report
  BY <1>6 DEF Report
<1>7. CASE TakeEvent
  BY <1>7 DEF TakeEvent
<1>8. CASE HandlerReturns
  BY <1>8 DEF HandlerReturns
<1>9. CASE HandlerRequests
  BY <1>9 DEF HandlerRequests, Register
<1>10. CASE HandlerResumes
  BY <1>10 DEF HandlerResumes
<1>11. CASE HandlerRaises
  BY <1>11 DEF HandlerRaises
<1>12. CASE HandlerCloses
  BY <1>12 DEF HandlerCloses, CloseBegins, EventTaskCancelled, FutAfterCancel
<1>13. CASE Close
  BY <1>13 DEF Close, CloseBegins, EventTaskCancelled, FutAfterCancel
<1>14. CASE CloseFlushed
  BY <1>14 DEF CloseFlushed, Swept
<1>15. CASE CloseFails
  BY <1>15 DEF CloseFails
<1>16. CASE UNCHANGED <<fired, closer, closed, listen, reports, events, evReq>>
  BY <1>16
<1> QED
  BY <1>1, <1>2, <1>3, <1>4, <1>5, <1>6, <1>7, <1>8, <1>9, <1>10, <1>11, <1>12, <1>13, <1>14, <1>15, <1>16
  DEF Next, Listen, Handler, WriteFails, Resume, Timeout, Abandon, Adapter,
      Answer, EmitEvent, EmitOther, RemoteEnds, Sends, vars, clientVars,
      adapterVars

(* A response is sent for the request it names. *)
LEMMA RepliesStep == IInv /\ [Next]_vars => RepliesInv'
<1> SUFFICES ASSUME IInv, [Next]_vars PROVE RepliesInv'
  OBVIOUS
<1> USE DEF IInv, TypeOK, RepliesInv, Seqs,
           vars, clientVars, adapterVars
<1>1. CASE Dispatch
  <2>1. wire' = Tail(wire) /\ wire # <<>> /\ UNCHANGED answered
    BY <1>1, DispatchCases
  <2>2. \A i \in DOMAIN wire' : i + 1 \in DOMAIN wire /\ wire'[i] = wire[i + 1]
    BY <2>1, TailIndex
  <2> QED
    BY <2>1, <2>2
<1>2. CASE Adapter
  <2>1. ASSUME NEW m \in Message, Sends(m), answered \subseteq answered',
               m.kind = "reply" => m.id \in answered'
        PROVE  RepliesInv'
    <3>1. /\ DOMAIN wire = 1..Len(wire) /\ Len(wire) \in Nat
          /\ DOMAIN wire' = 1..(Len(wire) + 1)
          /\ \A i \in DOMAIN wire : wire'[i] = wire[i]
          /\ wire'[Len(wire) + 1] = m
      BY <2>1, AppendIndex DEF Sends
    <3>2. \A i \in DOMAIN wire' : i \in DOMAIN wire \/ i = Len(wire) + 1
      BY <3>1
    <3> QED
      BY <2>1, <3>1, <3>2
  <2>2. ASSUME NEW s \in Seqs, Answer(s) PROVE RepliesInv'
    <3>1. PICK ok \in BOOLEAN : Sends([kind |-> "reply", id |-> s, ok |-> ok])
      BY <2>2 DEF Answer
    <3> QED
      BY <2>1, <2>2, <3>1 DEF Answer, Message, Reply
  <2>3. CASE EmitEvent
    <3>1. [kind |-> "event", id |-> sentEv + 1] \in Message
      BY <2>3, BoundsAssumption DEF BoundsAssumption, EmitEvent, Message, Event
    <3> QED
      BY <2>1, <2>3, <3>1 DEF EmitEvent
  <2>4. ASSUME NEW kind \in {"reverse", "garbage"}, EmitOther(kind) PROVE RepliesInv'
    BY <2>1, <2>4 DEF EmitOther, Message, Other
  <2>5. ASSUME NEW how \in {"eof", "reset"}, RemoteEnds(how) PROVE RepliesInv'
    BY <2>5 DEF RemoteEnds
  <2> QED
    BY <1>2, <2>2, <2>3, <2>4, <2>5 DEF Adapter
<1>3. CASE UNCHANGED <<wire, answered>>
  BY <1>3
<1> QED
  BY <1>1, <1>2, <1>3, StepFrames DEF Frames

(* _dispatch hands a response to its own request. *)
LEMMA CrossedStep == IInv /\ [Next]_vars => NoCrossedReplies'
<1> SUFFICES ASSUME IInv, [Next]_vars PROVE NoCrossedReplies'
  OBVIOUS
<1> USE DEF IInv, TypeOK, NoCrossedReplies, Seqs, FutureState, RepliesInv, NumbersInv,
           vars, clientVars, adapterVars
<1>1. ASSUME NEW s \in Seqs, Timeout(s) PROVE NoCrossedReplies'
  BY <1>1 DEF Timeout
<1>2. ASSUME NEW s \in Seqs, Abandon(s) PROVE NoCrossedReplies'
  BY <1>2 DEF Abandon
<1>3. CASE Dispatch
  <2>1. UNCHANGED answered /\ Head(wire) = wire[1] /\ 1 \in DOMAIN wire
    BY <1>3, DispatchCases, TailIndex
  <2>2. CASE Head(wire).kind = "reply" /\ Head(wire).id \in Seqs /\ DispatchReply(Head(wire))
    <3>1. Head(wire).id \in answered
      BY <2>1, <2>2
    <3> QED
      BY <2>1, <2>2, <3>1 DEF DispatchReply
  <2>3. CASE DispatchEvent(Head(wire)) \/ IgnoreReverse \/ RejectReverse
    BY <2>1, <2>3 DEF DispatchEvent, IgnoreReverse, RejectReverse
  <2> QED
    BY <1>3, DispatchCases, <2>2, <2>3
<1>4. CASE Teardown
  BY <1>4 DEF Teardown, EventTaskCancelled, FutAfterCancel, Swept
<1>5. CASE HandlerCloses
  BY <1>5 DEF HandlerCloses, CloseBegins, EventTaskCancelled, FutAfterCancel
<1>6. CASE Close
  BY <1>6 DEF Close, CloseBegins, EventTaskCancelled, FutAfterCancel
<1>7. CASE CloseFlushed
  BY <1>7 DEF CloseFlushed, Swept
<1>8. CASE Adapter
  BY <1>8 DEF Adapter, Answer, EmitEvent, EmitOther, RemoteEnds, Sends
<1>9. CASE UNCHANGED <<fut, answered>>
  BY <1>9
<1> QED
  BY <1>1, <1>2, <1>3, <1>4, <1>5, <1>6, <1>7, <1>8, <1>9
  DEF Next, Listen, Handler, Request, Register, Write, WriteFails, Resume,
      HandlerRequests, HandlerResumes, TeardownFlushed, Report, TakeEvent,
      HandlerReturns, HandlerRaises, CloseFails

(* The client tears itself down for a reason, which nothing undoes. *)
LEMMA CauseStep == IInv /\ [Next]_vars => CauseInv'
<1> SUFFICES ASSUME IInv, [Next]_vars PROVE CauseInv'
  OBVIOUS
<1> USE DEF IInv, TypeOK, CauseInv, LifeInv,
           vars, clientVars, adapterVars
<1>1. CASE Dispatch
  BY <1>1, DispatchCases DEF DispatchReply, DispatchEvent, RejectReverse, IgnoreReverse
<1>2. CASE Teardown
  BY <1>2 DEF Teardown, ListenFails, EventTaskCancelled, FutAfterCancel, Swept
<1>3. CASE Adapter
  BY <1>3 DEF Adapter, Answer, EmitEvent, EmitOther, RemoteEnds, Sends
<1>4. CASE UNCHANGED <<fired, conn, wire>>
  BY <1>4
<1> QED
  BY <1>1, <1>2, <1>3, <1>4, StepFrames DEF Frames

(* A number is taken and queued in one step, so the queue is in order. *)
LEMMA OrderStep == IInv /\ [Next]_vars => WrittenInOrder'
<1> SUFFICES ASSUME IInv, [Next]_vars PROVE WrittenInOrder'
  OBVIOUS
<1> USE DEF IInv, TypeOK, WrittenInOrder, Seqs,
           vars, clientVars, adapterVars
<1>1. ASSUME seq \in Seqs, seq' = seq + 1, sendq' = Append(sendq, seq)
      PROVE  WrittenInOrder'
  <2>1. /\ DOMAIN sendq = 1..Len(sendq) /\ Len(sendq) \in Nat
        /\ DOMAIN sendq' = 1..(Len(sendq) + 1)
        /\ \A i \in DOMAIN sendq : sendq'[i] = sendq[i]
        /\ sendq'[Len(sendq) + 1] = seq
    BY <1>1, AppendIndex
  <2>2. \A i \in DOMAIN sendq : sendq[i] \in Nat /\ sendq[i] < seq
    BY BoundsAssumption DEF BoundsAssumption
  <2>3. \A i \in DOMAIN sendq' : i \in DOMAIN sendq \/ i = Len(sendq) + 1
    BY <2>1
  <2>4. ASSUME NEW i \in DOMAIN sendq' PROVE sendq'[i] < seq'
    <3>1. seq \in Nat /\ seq' = seq + 1
      BY <1>1, BoundsAssumption DEF BoundsAssumption
    <3>2. CASE i \in DOMAIN sendq
      BY <2>1, <2>2, <3>1, <3>2
    <3>3. CASE i = Len(sendq) + 1
      BY <2>1, <3>1, <3>3
    <3> QED
      BY <2>3, <3>2, <3>3
  <2>5. ASSUME NEW i \in DOMAIN sendq', NEW j \in DOMAIN sendq', i < j
        PROVE  sendq'[i] < sendq'[j]
    <3>1. i \in DOMAIN sendq
      BY <2>1, <2>5
    <3>2. CASE j \in DOMAIN sendq
      BY <2>1, <2>5, <3>1, <3>2
    <3>3. CASE j = Len(sendq) + 1
      BY <1>1, <2>1, <2>2, <3>1, <3>3
    <3> QED
      BY <2>3, <3>2, <3>3
  <2> QED
    BY <2>4, <2>5
<1>2. ASSUME sendq # <<>>, sendq' = Tail(sendq), seq' = seq
      PROVE  WrittenInOrder'
  <2>1. /\ DOMAIN sendq = 1..Len(sendq) /\ Len(sendq) \in Nat
        /\ DOMAIN sendq' = 1..(Len(sendq) - 1)
        /\ \A i \in DOMAIN sendq' : i + 1 \in DOMAIN sendq /\ sendq'[i] = sendq[i + 1]
    BY <1>2, TailIndex
  <2>2. ASSUME NEW i \in DOMAIN sendq', NEW j \in DOMAIN sendq', i < j
        PROVE  sendq'[i] < sendq'[j]
    <3>1. /\ i + 1 \in DOMAIN sendq /\ j + 1 \in DOMAIN sendq /\ i + 1 < j + 1
          /\ sendq'[i] = sendq[i + 1] /\ sendq'[j] = sendq[j + 1]
      BY <2>1, <2>2
    <3> QED
      BY <3>1 DEF WrittenInOrder
  <2> QED
    BY <1>2, <2>1, <2>2
<1>3. CASE Request \/ HandlerRequests
  BY <1>1, <1>3 DEF Request, HandlerRequests, Register
<1>4. CASE Write \/ WriteFails
  BY <1>2, <1>4 DEF Write, WriteFails
<1>5. CASE Dispatch
  BY <1>1, <1>5, DispatchCases DEF DispatchReply, DispatchEvent, RejectReverse, IgnoreReverse
<1>6. CASE UNCHANGED <<seq, sendq>>
  BY <1>6
<1> QED
  BY <1>3, <1>4, <1>5, <1>6, StepFrames DEF Frames

LEMMA InitIInv == Init => IInv
<1> SUFFICES ASSUME Init PROVE IInv
  OBVIOUS
<1>1. TypeOK
  BY InitTypeOK
<1> QED
  BY <1>1 DEF Init, IInv, NumbersInv, LifeInv, RepliesInv, CauseInv, NoOrphanedWaiter,
              TeardownIsComplete, NoCrossedReplies, WrittenInOrder, Seqs, InFlight

(* The strengthened invariant holds in every state.                         *)
THEOREM Invariance == Spec => []IInv
<1>1. IInv /\ [Next]_vars => IInv'
  BY NextTypeOK, NumbersStep, WaiterStep, TeardownStep, LifeStep, RepliesStep,
     CrossedStep, CauseStep, OrderStep DEF IInv
<1> QED
  BY InitIInv, <1>1, PTL DEF Spec

(* The type invariant holds. *)
THEOREM TypeCorrect == Spec => []TypeOK
  BY Invariance, PTL DEF IInv

(* A caller never waits for a future that a response, the end of the       *)
(* connection or close() cannot find in _pending.                          *)
THEOREM WaitersReachable == Spec => []NoOrphanedWaiter
  BY Invariance, PTL DEF IInv

(* A teardown that ran to its end leaves nobody waiting. *)
THEOREM TeardownLeavesNobody == Spec => []TeardownIsComplete
  BY Invariance, PTL DEF IInv

(* A response reaches only the request it answers. *)
THEOREM RepliesMatch == Spec => []NoCrossedReplies
  BY Invariance, PTL DEF IInv

(* Requests and rejections are written in the order of their numbers. *)
THEOREM WritesOrdered == Spec => []WrittenInOrder
  BY Invariance, PTL DEF IInv

(* The disconnect handlers run once, and only for a connection lost at the *)
(* other end.                                                              *)
THEOREM ReportsJustified == Spec => []ReportsOnlyRemoteLoss
<1>1. IInv => ReportsOnlyRemoteLoss
  BY DEF IInv, LifeInv, CauseInv, ReportsOnlyRemoteLoss
<1> QED
  BY <1>1, Invariance, PTL

-----------------------------------------------------------------------------
(* The order of events *)

(* The events not yet handled: those queued follow the last one handled,   *)
(* those on the wire follow the queued ones, in order and without a gap    *)
(* unless a reset has dropped them.                                        *)
IsEvent(i) == wire[i].kind = "event"
Queued == handled + Len(queue)
QueueFollows == \A i \in DOMAIN queue : queue[i] = handled + i
WireAhead    == \A i \in DOMAIN wire : IsEvent(i) => wire[i].id \in (Queued + 1)..sentEv
WireSorted   == \A i, j \in DOMAIN wire :
                  IsEvent(i) /\ IsEvent(j) /\ i < j => wire[i].id < wire[j].id
NoGap        == conn # "reset" => \A e \in (Queued + 1)..sentEv :
                                    \E i \in DOMAIN wire : IsEvent(i) /\ wire[i].id = e
EventsInv ==
  /\ conn = "reset" => wire = <<>>
  /\ Queued <= sentEv
  /\ QueueFollows
  /\ WireAhead
  /\ WireSorted
  /\ NoGap

(* The event at the head of the wire is the next one to queue. *)
LEMMA HeadEventIsNext ==
  ASSUME TypeOK, EventsInv, wire # <<>>, Head(wire).kind = "event"
  PROVE  Head(wire).id = Queued + 1
<1> USE BoundsAssumption DEF BoundsAssumption, TypeOK
<1>1. /\ DOMAIN wire = 1..Len(wire) /\ Len(wire) \in Nat /\ Len(wire) > 0
      /\ Head(wire) = wire[1]
  BY TailIndex
<1>2. conn # "reset"
  BY DEF EventsInv
<1>3. wire[1].id \in (Queued + 1)..sentEv
  BY <1>1 DEF EventsInv, WireAhead, IsEvent
<1>4. Queued \in Nat
  BY DEF Queued
<1>5. PICK i \in DOMAIN wire : IsEvent(i) /\ wire[i].id = Queued + 1
  <2>1. Queued + 1 \in (Queued + 1)..sentEv
    BY <1>3, <1>4
  <2> QED
    BY <1>2, <2>1 DEF EventsInv, NoGap
<1>6. CASE i = 1
  BY <1>1, <1>5, <1>6
<1>7. CASE i # 1
  <2>1. wire[1].id < wire[i].id
    BY <1>1, <1>5, <1>7 DEF EventsInv, WireSorted, IsEvent
  <2> QED
    BY <1>3, <1>4, <1>5, <2>1
<1> QED
  BY <1>6, <1>7

LEMMA EventsStep == IInv /\ EventsInv /\ [Next]_vars => EventsInv'
<1> SUFFICES ASSUME IInv, EventsInv, [Next]_vars PROVE EventsInv'
  OBVIOUS
<1> USE BoundsAssumption DEF BoundsAssumption, IInv, TypeOK
<1>1. CASE TakeEvent
  <2>1. /\ DOMAIN queue = 1..Len(queue) /\ Len(queue) \in Nat /\ Len(queue) > 0
        /\ DOMAIN queue' = 1..(Len(queue) - 1) /\ Len(queue') = Len(queue) - 1
        /\ \A i \in DOMAIN queue' : i + 1 \in DOMAIN queue /\ queue'[i] = queue[i + 1]
        /\ handled' = queue[1]
    <3>1. /\ queue \in Seq(1..MaxEvents) /\ queue # <<>>
          /\ queue' = Tail(queue) /\ handled' = Head(queue)
      BY <1>1 DEF TakeEvent
    <3> HIDE DEF IInv, TypeOK
    <3> QED
      BY <3>1, TailIndex
  <2>2. handled' = handled + 1
    <3>1. 1 \in DOMAIN queue
      BY <2>1
    <3>2. queue[1] = handled + 1
      BY <3>1 DEF EventsInv, QueueFollows
    <3> QED
      BY <2>1, <3>2
  <2>3. QueueFollows'
    BY <2>1, <2>2 DEF EventsInv, QueueFollows
  <2>4. Queued' = Queued
    BY <2>1, <2>2 DEF Queued
  <2>5. UNCHANGED <<wire, conn, sentEv>>
    BY <1>1 DEF TakeEvent, adapterVars
  <2> QED
    BY <2>3, <2>4, <2>5 DEF EventsInv, WireAhead, WireSorted, NoGap, IsEvent
<1>2. CASE Dispatch
  <2>1. wire' = Tail(wire) /\ wire # <<>> /\ UNCHANGED <<conn, sentEv, handled>>
    BY <1>2, DispatchCases
  <2>2. /\ DOMAIN wire = 1..Len(wire) /\ Len(wire) \in Nat /\ Len(wire) > 0
        /\ DOMAIN wire' = 1..(Len(wire) - 1)
        /\ \A i \in DOMAIN wire' : i + 1 \in DOMAIN wire /\ wire'[i] = wire[i + 1]
        /\ Head(wire) = wire[1]
    <3>1. wire \in Seq(Message)
      OBVIOUS
    <3> HIDE DEF IInv, TypeOK
    <3> QED
      BY <2>1, <3>1, TailIndex
  <2>3. conn # "reset" /\ conn' # "reset"
    BY <2>1 DEF EventsInv
  <2>4. Queued \in Nat
    BY DEF Queued
  <2>5. WireSorted'
    <3> SUFFICES ASSUME NEW i \in DOMAIN wire', NEW j \in DOMAIN wire',
                        IsEvent(i)', IsEvent(j)', i < j
                 PROVE  wire'[i].id < wire'[j].id
      BY DEF WireSorted
    <3>1. /\ i + 1 \in DOMAIN wire /\ j + 1 \in DOMAIN wire /\ i + 1 < j + 1
          /\ wire'[i] = wire[i + 1] /\ wire'[j] = wire[j + 1]
      BY <2>2
    <3> QED
      BY <3>1 DEF EventsInv, WireSorted, IsEvent
  <2>6. \A i \in DOMAIN wire : i # 1 => i - 1 \in DOMAIN wire' /\ wire'[i - 1] = wire[i]
    BY <2>2
  <2>7. CASE Head(wire).kind = "event" /\ Head(wire).id \in 1..MaxEvents
             /\ DispatchEvent(Head(wire))
    <3>1. Head(wire).id = Queued + 1
      BY <2>1, <2>7, HeadEventIsNext
    <3>2. /\ DOMAIN queue = 1..Len(queue) /\ Len(queue) \in Nat
          /\ DOMAIN queue' = 1..(Len(queue) + 1) /\ Len(queue') = Len(queue) + 1
          /\ \A i \in DOMAIN queue : queue'[i] = queue[i]
          /\ queue'[Len(queue) + 1] = Head(wire).id
          /\ \A i \in DOMAIN queue' : i \in DOMAIN queue \/ i = Len(queue) + 1
      <4>1. /\ queue \in Seq(1..MaxEvents) /\ Head(wire).id \in 1..MaxEvents
            /\ queue' = Append(queue, Head(wire).id)
        BY <2>7 DEF DispatchEvent
      <4> HIDE DEF IInv, TypeOK
      <4> QED
        BY <4>1, AppendIndex
    <3>3. Queued' = Queued + 1
      BY <2>1, <3>2 DEF Queued
    <3>4. QueueFollows'
      <4> SUFFICES ASSUME NEW i \in DOMAIN queue' PROVE queue'[i] = handled' + i
        BY DEF QueueFollows
      <4>1. CASE i \in DOMAIN queue
        BY <2>1, <3>2, <4>1 DEF EventsInv, QueueFollows
      <4>2. CASE i = Len(queue) + 1
        BY <2>1, <3>1, <3>2, <4>2 DEF Queued
      <4> QED
        BY <3>2, <4>1, <4>2
    <3>5. WireAhead'
      <4> SUFFICES ASSUME NEW i \in DOMAIN wire', IsEvent(i)'
                   PROVE  wire'[i].id \in (Queued' + 1)..sentEv'
        BY DEF WireAhead
      <4>1. i + 1 \in DOMAIN wire /\ IsEvent(i + 1) /\ 1 \in DOMAIN wire /\ IsEvent(1) /\ 1 < i + 1
        BY <2>2, <2>7 DEF IsEvent
      <4>2. wire[i + 1].id \in (Queued + 1)..sentEv /\ wire[1].id < wire[i + 1].id
        BY <4>1 DEF EventsInv, WireAhead, WireSorted
      <4> QED
        BY <2>1, <2>2, <2>4, <3>1, <3>3, <4>2
    <3>6. NoGap'
      <4> SUFFICES ASSUME NEW e \in (Queued' + 1)..sentEv'
                   PROVE  \E i \in DOMAIN wire' : IsEvent(i)' /\ wire'[i].id = e
        BY DEF NoGap
      <4>1. e \in (Queued + 1)..sentEv /\ e # Queued + 1
        BY <2>1, <2>4, <3>3
      <4>2. PICK i \in DOMAIN wire : IsEvent(i) /\ wire[i].id = e
        BY <2>3, <4>1 DEF EventsInv, NoGap
      <4>3. i # 1
        BY <2>2, <3>1, <4>1, <4>2
      <4> QED
        BY <2>6, <4>2, <4>3 DEF IsEvent
    <3>7. Queued' <= sentEv'
      <4>1. 1 \in DOMAIN wire /\ IsEvent(1)
        BY <2>2, <2>7 DEF IsEvent
      <4>2. wire[1].id \in (Queued + 1)..sentEv
        BY <4>1 DEF EventsInv, WireAhead
      <4> QED
        BY <2>1, <2>4, <3>3, <4>2
    <3> QED
      BY <2>3, <2>5, <3>4, <3>5, <3>6, <3>7 DEF EventsInv
  <2>8. CASE Head(wire).kind # "event" /\ UNCHANGED queue
    <3>1. Queued' = Queued
      BY <2>1, <2>8 DEF Queued
    <3>2. WireAhead'
      BY <2>1, <2>2, <3>1 DEF EventsInv, WireAhead, IsEvent
    <3>3. NoGap'
      <4> SUFFICES ASSUME NEW e \in (Queued' + 1)..sentEv'
                   PROVE  \E i \in DOMAIN wire' : IsEvent(i)' /\ wire'[i].id = e
        BY DEF NoGap
      <4>1. PICK i \in DOMAIN wire : IsEvent(i) /\ wire[i].id = e
        BY <2>1, <2>3, <3>1 DEF EventsInv, NoGap
      <4>2. i # 1
        BY <2>2, <2>8, <4>1 DEF IsEvent
      <4> QED
        BY <2>6, <4>1, <4>2 DEF IsEvent
    <3> QED
      BY <2>1, <2>3, <2>5, <2>8, <3>1, <3>2, <3>3 DEF EventsInv, QueueFollows
  <2> QED
    BY <1>2, DispatchCases, <2>7, <2>8 DEF DispatchReply, RejectReverse, IgnoreReverse
<1>3. CASE Adapter
  <2>1. UNCHANGED <<queue, handled>> /\ Queued' = Queued /\ Queued \in Nat
    BY <1>3 DEF Adapter, Answer, EmitEvent, EmitOther, RemoteEnds, clientVars, Queued
  <2>2. ASSUME NEW m \in Message, Sends(m), UNCHANGED conn,
               IF m.kind = "event" THEN m.id = sentEv + 1 /\ sentEv' = sentEv + 1
                                   ELSE sentEv' = sentEv
        PROVE  EventsInv'
    <3>1. /\ DOMAIN wire = 1..Len(wire) /\ Len(wire) \in Nat
          /\ DOMAIN wire' = 1..(Len(wire) + 1)
          /\ \A i \in DOMAIN wire : wire'[i] = wire[i]
          /\ wire'[Len(wire) + 1] = m
          /\ \A i \in DOMAIN wire' : i \in DOMAIN wire \/ i = Len(wire) + 1
          /\ \A i \in DOMAIN wire : ~(Len(wire) + 1 < i)
      <4>1. wire \in Seq(Message) /\ m \in Message /\ wire' = Append(wire, m)
        BY <2>2 DEF Sends
      <4> HIDE DEF IInv, TypeOK
      <4> QED
        BY <4>1, AppendIndex
    <3>2. \A i \in DOMAIN wire' : i \in DOMAIN wire \/ i = Len(wire) + 1
      BY <3>1
    <3>3. conn' # "reset"
      BY <2>2 DEF Sends
    <3>4. WireAhead'
      <4> SUFFICES ASSUME NEW i \in DOMAIN wire', IsEvent(i)'
                   PROVE  wire'[i].id \in (Queued' + 1)..sentEv'
        BY DEF WireAhead
      <4>1. CASE i \in DOMAIN wire
        <5>1. wire'[i] = wire[i] /\ wire[i].id \in (Queued + 1)..sentEv
          BY <3>1, <4>1 DEF EventsInv, WireAhead, IsEvent
        <5>2. sentEv <= sentEv' /\ sentEv' \in Int
          BY <2>2
        <5> QED
          BY <2>1, <5>1, <5>2
      <4>2. CASE i = Len(wire) + 1
        <5>1. wire'[i].id = sentEv + 1 /\ sentEv' = sentEv + 1
          BY <2>2, <3>1, <4>2 DEF IsEvent
        <5>2. Queued <= sentEv
          BY DEF EventsInv
        <5> QED
          BY <2>1, <5>1, <5>2
      <4> QED
        BY <3>2, <4>1, <4>2
    <3>5. WireSorted'
      <4> SUFFICES ASSUME NEW i \in DOMAIN wire', NEW j \in DOMAIN wire',
                          IsEvent(i)', IsEvent(j)', i < j
                   PROVE  wire'[i].id < wire'[j].id
        BY DEF WireSorted
      <4>1. i \in DOMAIN wire /\ wire'[i] = wire[i] /\ IsEvent(i)
        <5>1. i # Len(wire) + 1
          BY <3>1, <3>2
        <5> QED
          BY <3>1, <3>2, <5>1 DEF IsEvent
      <4>4. wire[i].id <= sentEv /\ wire[i].id \in Nat
        <5>1. wire[i].id \in (Queued + 1)..sentEv
          BY <4>1 DEF EventsInv, WireAhead
        <5> QED
          BY <2>1, <5>1
      <4>2. CASE j \in DOMAIN wire
        BY <3>1, <4>1, <4>2 DEF EventsInv, WireSorted, IsEvent
      <4>3. CASE j = Len(wire) + 1
        <5>1. wire'[j] = m
          BY <3>1, <4>3
        <5>2. wire'[j].id = sentEv + 1
          BY <2>2, <5>1 DEF IsEvent
        <5> QED
          BY <4>1, <4>4, <5>2
      <4> QED
        BY <3>2, <4>2, <4>3
    <3>6. NoGap'
      <4> SUFFICES ASSUME NEW e \in (Queued' + 1)..sentEv'
                   PROVE  \E i \in DOMAIN wire' : IsEvent(i)' /\ wire'[i].id = e
        BY DEF NoGap
      <4>1. CASE e \in (Queued + 1)..sentEv
        <5>1. PICK i \in DOMAIN wire : IsEvent(i) /\ wire[i].id = e
          BY <2>2, <3>3, <4>1 DEF EventsInv, NoGap
        <5>2. i \in DOMAIN wire' /\ wire'[i] = wire[i]
          BY <3>1
        <5>3. IsEvent(i)' /\ wire'[i].id = e
          BY <5>1, <5>2 DEF IsEvent
        <5> QED
          BY <5>2, <5>3
      <4>2. CASE m.kind = "event" /\ e = sentEv + 1
        <5>1. Len(wire) + 1 \in DOMAIN wire' /\ wire'[Len(wire) + 1] = m
          BY <3>1
        <5> QED
          BY <2>2, <4>2, <5>1 DEF IsEvent
      <4> QED
        BY <2>1, <2>2, <4>1, <4>2
    <3>7. Queued' <= sentEv'
      BY <2>1, <2>2 DEF EventsInv
    <3> QED
      BY <2>1, <3>3, <3>4, <3>5, <3>6, <3>7 DEF EventsInv, QueueFollows
  <2>3. ASSUME NEW s \in Seqs, Answer(s) PROVE EventsInv'
    <3>1. PICK ok \in BOOLEAN : Sends([kind |-> "reply", id |-> s, ok |-> ok])
      BY <2>3 DEF Answer
    <3>2. [kind |-> "reply", id |-> s, ok |-> ok] \in Message
      BY DEF Message, Reply
    <3> QED
      BY <2>2, <2>3, <3>1, <3>2 DEF Answer
  <2>4. CASE EmitEvent
    <3>1. [kind |-> "event", id |-> sentEv + 1] \in Message
      BY <2>4 DEF EmitEvent, Message, Event
    <3> QED
      BY <2>2, <2>4, <3>1 DEF EmitEvent
  <2>5. ASSUME NEW kind \in {"reverse", "garbage"}, EmitOther(kind) PROVE EventsInv'
    <3>1. [kind |-> kind] \in Message
      BY DEF Message, Other
    <3> QED
      BY <2>2, <2>5, <3>1 DEF EmitOther
  <2>6. ASSUME NEW how \in {"eof", "reset"}, RemoteEnds(how) PROVE EventsInv'
    <3>1. CASE how = "eof"
      BY <2>1, <2>6, <3>1 DEF RemoteEnds, EventsInv, QueueFollows, WireAhead, WireSorted, NoGap, IsEvent
    <3>2. CASE how = "reset"
      BY <2>1, <2>6, <3>2 DEF RemoteEnds, EventsInv, QueueFollows, WireAhead, WireSorted, NoGap, IsEvent
    <3> QED
      BY <3>1, <3>2
  <2> QED
    BY <1>3, <2>3, <2>4, <2>5, <2>6 DEF Adapter
<1>4. CASE UNCHANGED <<queue, handled, wire, conn, sentEv>>
  BY <1>4 DEF EventsInv, QueueFollows, WireAhead, WireSorted, NoGap, IsEvent, Queued
<1> QED
  BY <1>1, <1>2, <1>3, <1>4, StepFrames DEF Frames

THEOREM EventsInvariance == Spec => []EventsInv
<1>1. Init => EventsInv
  BY BoundsAssumption DEF BoundsAssumption, Init, EventsInv, QueueFollows, WireAhead,
     WireSorted, NoGap, Queued, IsEvent
<1> QED
  BY <1>1, Invariance, EventsStep, PTL DEF Spec

(* Events reach the handlers in the order they were sent, each once, and   *)
(* never after the client is closed.                                       *)
THEOREM EventsDelivered == Spec => EventsInOrder
<1>1. IInv /\ EventsInv /\ [Next]_vars
        => [handled' # handled => handled' = handled + 1 /\ ~closed]_vars
  <2> SUFFICES ASSUME IInv, EventsInv, [Next]_vars, handled' # handled
               PROVE  handled' = handled + 1 /\ ~closed
    OBVIOUS
  <2>1. TakeEvent
    BY StepFrames, DispatchCases DEF IInv, Frames
  <2>2. queue # <<>> /\ queue[1] = handled + 1 /\ handled' = Head(queue)
    BY <2>1, TailIndex DEF TakeEvent, EventsInv, QueueFollows, IInv, TypeOK
  <2>3. ~closed
    BY <2>1 DEF TakeEvent, IInv, LifeInv
  <2> QED
    BY <2>2, <2>3, TailIndex DEF IInv, TypeOK
<1> QED
  BY <1>1, Invariance, EventsInvariance, PTL DEF Spec, EventsInOrder

-----------------------------------------------------------------------------
(* The refinement: every step of the client and of the adapter is a step   *)
(* of RequestPromise or changes nothing of what the promise speaks of.     *)

(* The adapter knows only requests whose write is behind them, whether     *)
(* their callers still wait or were cancelled while they drained, and a    *)
(* request that waits for its response has left the queue for the lock.    *)
OwedInv ==
  /\ \A s \in owed \cup answered : task[s] \notin {"unborn", "response", "sending"}
  /\ owed \cap answered = {}
  /\ \A i \in DOMAIN sendq : task[sendq[i]] # "waiting"

LEMMA OwedStep == IInv /\ OwedInv /\ [Next]_vars => OwedInv'
<1> SUFFICES ASSUME IInv, OwedInv, [Next]_vars PROVE OwedInv'
  OBVIOUS
<1> USE BoundsAssumption DEF BoundsAssumption, IInv, TypeOK, OwedInv, Seqs, Settled, InFlight,
                             vars, clientVars, adapterVars
<1>1. ASSUME seq \in Seqs, sendq' = Append(sendq, seq), UNCHANGED <<owed, answered>>,
             \E v \in {"sending", "response"} : task' = [task EXCEPT ![seq] = v]
      PROVE  OwedInv'
  <2>1. task[seq] = "unborn"
    BY <1>1 DEF NumbersInv
  <2>2. /\ \A i \in DOMAIN sendq : sendq'[i] = sendq[i] /\ sendq[i] \in Seqs
        /\ sendq'[Len(sendq) + 1] = seq
        /\ \A i \in DOMAIN sendq' : i \in DOMAIN sendq \/ i = Len(sendq) + 1
    <3>1. sendq \in Seq(Seqs) /\ seq \in Seqs /\ sendq' = Append(sendq, seq)
      BY <1>1
    <3> HIDE DEF IInv, TypeOK, OwedInv, Seqs
    <3>2. \A i \in DOMAIN sendq : sendq[i] \in Seqs
      BY <3>1
    <3> QED
      BY <3>1, <3>2, AppendIndex
  <2>3. ASSUME NEW i \in DOMAIN sendq' PROVE task'[sendq'[i]] # "waiting"
    BY <1>1, <2>2
  <2> QED
    BY <1>1, <2>1, <2>3
<1>2. ASSUME sendq # <<>>, sendq' = Tail(sendq), UNCHANGED answered,
             \A s \in Seqs : s # Head(sendq) => task'[s] = task[s],
             \/ owed' = owed
             \/ owed' = owed \cup {Head(sendq)} /\ task[Head(sendq)] = "sending",
             \/ task' = task /\ owed' = owed
             \/ task'[Head(sendq)] \in {"waiting", "sendError"}
      PROVE  OwedInv'
  <2>1. /\ Head(sendq) \in Seqs /\ Head(sendq) = sendq[1] /\ 1 \in DOMAIN sendq
        /\ \A i \in DOMAIN sendq' : /\ i + 1 \in DOMAIN sendq /\ sendq'[i] = sendq[i + 1]
                                    /\ 1 < i + 1
    <3>1. sendq \in Seq(Seqs) /\ sendq # <<>> /\ sendq' = Tail(sendq)
      BY <1>2
    <3> HIDE DEF IInv, TypeOK, OwedInv, Seqs
    <3> QED
      BY <3>1, TailIndex, HeadTailOf
  <2>2. ASSUME NEW i \in DOMAIN sendq'
        PROVE  sendq'[i] \in Seqs /\ sendq'[i] # Head(sendq) /\ task[sendq'[i]] # "waiting"
    <3>1. sendq[1] < sendq[i + 1] /\ sendq[i + 1] \in Seqs
      BY <2>1 DEF WrittenInOrder
    <3> QED
      BY <2>1, <3>1
  <2>3. \A i \in DOMAIN sendq' : task'[sendq'[i]] # "waiting"
    BY <1>2, <2>2
  <2>4. \A s \in owed' \cup answered' : task'[s] \notin {"unborn", "response", "sending"}
    BY <1>2, <2>1
  <2>5. owed' \cap answered' = {}
    BY <1>2, <2>1
  <2> QED
    BY <2>3, <2>4, <2>5
<1>3. CASE Request \/ HandlerRequests
  BY <1>1, <1>3 DEF Request, HandlerRequests, Register
<1>4. CASE Write \/ WriteFails
  <2>1. Head(sendq) \in Seqs /\ sendq # <<>>
    BY <1>4, HeadTailOf DEF Write, WriteFails
  <2>2. CASE Write
    <3>1. /\ sendq' = Tail(sendq) /\ answered' = answered
          /\ \/ task' = task /\ owed' = owed
             \/ /\ task[Head(sendq)] = "sending"
                /\ task' = [task EXCEPT ![Head(sendq)] = "waiting"]
                /\ owed' = owed \/ owed' = owed \cup {Head(sendq)}
      BY <2>2 DEF Write
    <3> QED
      BY <1>2, <2>1, <3>1
  <2>3. CASE WriteFails
    BY <1>2, <2>1, <2>3 DEF WriteFails
  <2> QED
    BY <1>4, <2>2, <2>3
<1>5. CASE Dispatch
  <2>1. CASE RejectReverse
    BY <1>1, <1>5, <2>1 DEF Dispatch, RejectReverse
  <2>2. CASE UNCHANGED <<task, sendq, owed, answered>>
    BY <2>2
  <2> QED
    BY <1>5, <2>1, <2>2, DispatchCases DEF Dispatch, DispatchReply, DispatchEvent, IgnoreReverse
<1>6. ASSUME NEW s \in Seqs, Resume(s) \/ Timeout(s)
      PROVE  OwedInv'
  <2>1. /\ UNCHANGED <<sendq, owed, answered>>
        /\ \E v \in Settled : task' = [task EXCEPT ![s] = v]
    <3>1. CASE Resume(s)
      <4>1. fut[s] \in {"success", "failure", "lost", "cancelled"}
        BY <3>1 DEF Resume, FutureState
      <4>2. OutcomeOf(fut[s]) \in Settled
        BY <4>1 DEF OutcomeOf
      <4> QED
        BY <3>1, <4>2 DEF Resume
    <3>2. CASE Timeout(s)
      BY <3>2 DEF Timeout
    <3> QED
      BY <1>6, <3>1, <3>2
  <2>2. \A i \in DOMAIN sendq : sendq[i] \in Seqs
    OBVIOUS
  <2> QED
    BY <2>1, <2>2
<1>7. ASSUME NEW s \in Seqs, Abandon(s)
      PROVE  OwedInv'
  <2>1. /\ task' = [task EXCEPT ![s] = "cancelled"]
        /\ UNCHANGED <<sendq, answered>>
        /\ \/ owed' = owed
           \/ owed' = owed \cup {s} /\ sendq # <<>> /\ Head(sendq) = s
    BY <1>7 DEF Abandon
  <2>2. s \notin answered \/ owed' = owed
    <3>1. CASE sendq # <<>> /\ Head(sendq) = s
      <4>1. 1 \in DOMAIN sendq /\ sendq[1] = s
        BY <3>1
      <4>2. task[s] = "sending"
        BY <1>7, <4>1 DEF Abandon
      <4> QED
        BY <4>2
    <3> QED
      BY <2>1, <3>1
  <2>3. \A i \in DOMAIN sendq : sendq[i] \in Seqs
    OBVIOUS
  <2> QED
    BY <2>1, <2>2, <2>3
<1>8. CASE Teardown \/ Close \/ HandlerCloses
  <2>1. /\ UNCHANGED <<sendq, owed, answered>>
        /\ \A s \in Seqs : task'[s] = task[s] \/ task'[s] = "cancelled"
    BY <1>8 DEF Teardown, Close, HandlerCloses, CloseBegins, EventTaskCancelled
  <2>2. \A i \in DOMAIN sendq : sendq[i] \in Seqs
    OBVIOUS
  <2> QED
    BY <2>1, <2>2
<1>9. CASE Adapter
  BY <1>9 DEF Adapter, Answer, EmitEvent, EmitOther, RemoteEnds
<1>10. CASE UNCHANGED <<task, sendq, owed, answered>>
  BY <1>10
<1> QED
  BY <1>3, <1>4, <1>5, <1>6, <1>7, <1>8, <1>9, <1>10
     DEF Next, Listen, Handler, TeardownFlushed, Report, TakeEvent, HandlerReturns, HandlerResumes,
         HandlerRaises, CloseFlushed, CloseFails

(* No request is answered twice, and none is answered that was not sent.    *)
THEOREM OwedInvariance == Spec => []OwedInv
<1>1. Init => OwedInv
  BY DEF Init, OwedInv
<1> QED
  BY <1>1, OwedStep, Invariance, PTL DEF Spec

-----------------------------------------------------------------------------
(* The promise, step by step *)

Outcomes == [s \in Seqs |-> Outcome(s)]

(* A step that moves one request moves one outcome. *)
LEMMA OneOutcome ==
  ASSUME TypeOK, NEW s \in Seqs, NEW v \in Status, task' = [task EXCEPT ![s] = v]
  PROVE  Outcomes' = [Outcomes EXCEPT ![s] =
                        CASE v \in {"unborn", "response"} -> "none"
                          [] v \in {"sending", "waiting"} -> "open"
                          [] v \in {"replied", "refused"} -> "answered"
                          [] OTHER                        -> "failed"]
<1>1. \A r \in Seqs : r # s => task'[r] = task[r]
  BY DEF TypeOK
<1>2. task'[s] = v
  BY DEF TypeOK
<1>3. \A r \in Seqs : r # s => Outcome(r)' = Outcome(r)
  BY <1>1 DEF Outcome, InFlight
<1>4. Outcome(s)' = CASE v \in {"unborn", "response"} -> "none"
                      [] v \in {"sending", "waiting"} -> "open"
                      [] v \in {"replied", "refused"} -> "answered"
                      [] OTHER                        -> "failed"
  BY <1>2 DEF Outcome, InFlight
<1> QED
  BY <1>3, <1>4 DEF Outcomes

LEMMA OutcomeAt ==
  ASSUME TypeOK, NEW s \in Seqs
  PROVE  /\ Outcomes[s] = "none" <=> task[s] \in {"unborn", "response"}
         /\ Outcomes[s] = "open" <=> InFlight(s)
  BY DEF Outcomes, Outcome, InFlight

LEMMA InitPromise == Init => Promise!Init
<1> SUFFICES ASSUME Init PROVE Promise!Init
  OBVIOUS
<1>1. \A s \in Seqs : Outcome(s) = "none"
  BY DEF Init, Outcome, InFlight
<1>2. [s \in Seqs |-> Outcome(s)] = [s \in Seqs |-> "none"]
  BY <1>1
<1>3. ~closed
  BY DEF Init
<1> QED
  BY <1>2, <1>3 DEF Init, Promise!Init

(* Every step maps to a step of the promise or to a stutter. *)
LEMMA PromiseStep ==
  IInv /\ EventsInv /\ OwedInv /\ [Next]_vars => [Promise!Next]_Promise!vars
<1> SUFFICES ASSUME IInv, EventsInv, OwedInv, [Next]_vars
             PROVE  [Promise!Next]_Promise!vars
  OBVIOUS
<1> DEFINE Kept  == UNCHANGED <<answered, closed, reports, handled>>
           Moved(s, o) == Outcomes' = [Outcomes EXCEPT ![s] = o]
<1>1. TypeOK
  BY DEF IInv
<1>2. ASSUME NEW s \in Seqs, Kept, ~closed, Outcomes[s] = "none", Moved(s, "open")
      PROVE  Promise!Next
  <2>1. Promise!Issue(s)
    BY <1>2 DEF Promise!Issue, Outcomes
  <2> QED
    BY <2>1 DEF Promise!Next
<1>3. ASSUME NEW s \in Seqs, Kept, InFlight(s), Moved(s, "failed")
      PROVE  Promise!Next
  <2>1. Promise!Fails(s)
    BY <1>1, <1>3, OutcomeAt DEF Promise!Fails, Outcomes
  <2> QED
    BY <2>1 DEF Promise!Next, Promise!Settle
<1>4. ASSUME NEW s \in Seqs, Kept, InFlight(s), s \in answered, Moved(s, "answered")
      PROVE  Promise!Next
  <2>1. Promise!Answered(s)
    BY <1>1, <1>4, OutcomeAt DEF Promise!Answered, Outcomes
  <2> QED
    BY <2>1 DEF Promise!Next, Promise!Settle
<1>5. ASSUME ~closed, closed', UNCHANGED <<answered, reports, handled>>,
             \A s \in Seqs : task'[s] = task[s] \/ (InFlight(s) /\ task'[s] = "cancelled")
      PROVE  Promise!Next
  <2> DEFINE lost == {s \in Seqs : InFlight(s) /\ task'[s] = "cancelled"}
  <2>1. \A s \in Seqs : Outcome(s)' = IF s \in lost THEN "failed" ELSE Outcome(s)
    BY <1>5 DEF Outcome, InFlight
  <2>2. lost \in SUBSET {s \in Seqs : Outcomes[s] = "open"}
    BY <1>1, OutcomeAt
  <2>3. Outcomes' = [s \in Seqs |-> IF s \in lost THEN "failed" ELSE Outcomes[s]]
    BY <2>1 DEF Outcomes
  <2>4. Promise!Down
    BY <1>5, <2>2, <2>3 DEF Promise!Down, Outcomes
  <2> QED
    BY <2>4 DEF Promise!Next
<1>6. ASSUME UNCHANGED Outcomes, Kept
      PROVE  UNCHANGED Promise!vars
  BY <1>6 DEF Promise!vars, Outcomes
<1>7. ASSUME UNCHANGED task PROVE UNCHANGED Outcomes
  BY <1>7 DEF Outcomes, Outcome, InFlight
<1>8. CASE Request \/ HandlerRequests
  <2>1. /\ ~closed /\ seq \in Seqs /\ Kept
        /\ task' = [task EXCEPT ![seq] = "sending"]
    BY <1>8 DEF Request, HandlerRequests, Register, adapterVars
  <2>2. Outcomes[seq] = "none"
    BY <1>1, <2>1, OutcomeAt, BoundsAssumption DEF IInv, NumbersInv, TypeOK, Seqs, BoundsAssumption
  <2>3. Moved(seq, "open")
    BY <1>1, <2>1, OneOutcome DEF Status
  <2> QED
    BY <1>2, <2>1, <2>2, <2>3
<1>9. CASE Write
  <2>1. /\ Head(sendq) \in Seqs /\ Kept
        /\ \/ task' = task
           \/ /\ task[Head(sendq)] = "sending"
              /\ task' = [task EXCEPT ![Head(sendq)] = "waiting"]
    BY <1>1, <1>9, HeadTailOf DEF Write, TypeOK
  <2>2. CASE task[Head(sendq)] = "sending" /\ task' = [task EXCEPT ![Head(sendq)] = "waiting"]
    <3>1. Moved(Head(sendq), "open")
      BY <1>1, <2>1, <2>2, OneOutcome DEF Status
    <3>2. Outcomes[Head(sendq)] = "open"
      BY <1>1, <2>1, <2>2, OutcomeAt DEF InFlight
    <3>3. UNCHANGED Outcomes
      BY <2>1, <3>1, <3>2 DEF Outcomes
    <3> QED
      BY <1>6, <2>1, <3>3
  <2> QED
    BY <1>6, <1>7, <2>1, <2>2
<1>10. CASE WriteFails
  <2>1. /\ Head(sendq) \in Seqs /\ Kept /\ InFlight(Head(sendq))
        /\ task' = [task EXCEPT ![Head(sendq)] = "sendError"]
    BY <1>1, <1>10, HeadTailOf DEF WriteFails, TypeOK, InFlight, adapterVars
  <2>2. PICK s \in Seqs : s = Head(sendq) /\ task' = [task EXCEPT ![s] = "sendError"]
    BY <2>1
  <2>3. Moved(s, "failed")
    <3>1. "sendError" \in Status
      BY DEF Status, Settled
    <3> QED
      BY <1>1, <2>2, <3>1, OneOutcome
  <2> QED
    BY <1>3, <2>1, <2>2, <2>3
<1>11. ASSUME NEW s \in Seqs, Resume(s) PROVE Promise!Next
  <2>1. /\ Kept /\ InFlight(s) /\ task' = [task EXCEPT ![s] = OutcomeOf(fut[s])]
        /\ fut[s] \in {"success", "failure", "lost", "cancelled"}
    BY <1>1, <1>11 DEF Resume, TypeOK, FutureState, InFlight, adapterVars
  <2>2. CASE fut[s] \in {"success", "failure"}
    <3>1. s \in answered
      BY <2>2 DEF IInv, NoCrossedReplies
    <3>2. OutcomeOf(fut[s]) \in {"replied", "refused"}
      BY <2>2 DEF OutcomeOf
    <3>3. Moved(s, "answered")
      BY <1>1, <2>1, <3>2, OneOutcome DEF Status, Settled
    <3> QED
      BY <1>4, <2>1, <3>1, <3>3
  <2>3. CASE fut[s] \in {"lost", "cancelled"}
    <3>1. OutcomeOf(fut[s]) \in {"lost", "cancelled"}
      BY <2>3 DEF OutcomeOf
    <3>2. Moved(s, "failed")
      BY <1>1, <2>1, <3>1, OneOutcome DEF Status, Settled
    <3> QED
      BY <1>3, <2>1, <3>2
  <2> QED
    BY <2>1, <2>2, <2>3
<1>12. ASSUME NEW s \in Seqs, Timeout(s) \/ Abandon(s) PROVE Promise!Next
  <2>1. /\ Kept /\ InFlight(s)
        /\ \E v \in {"timedOut", "cancelled"} : task' = [task EXCEPT ![s] = v]
    BY <1>12 DEF Timeout, Abandon, InFlight, adapterVars
  <2>2. Moved(s, "failed")
    BY <1>1, <2>1, OneOutcome DEF Status, Settled
  <2> QED
    BY <1>3, <2>1, <2>2
<1>13. CASE Dispatch
  <2>1. CASE RejectReverse
    <3>1. seq \in Seqs /\ task' = [task EXCEPT ![seq] = "response"] /\ Kept
      BY <1>13, <2>1 DEF Dispatch, RejectReverse
    <3>2. Outcomes[seq] = "none"
      BY <1>1, <3>1, OutcomeAt, BoundsAssumption DEF IInv, NumbersInv, TypeOK, Seqs, BoundsAssumption
    <3>3. Moved(seq, "none")
      BY <1>1, <3>1, OneOutcome DEF Status
    <3>4. UNCHANGED Outcomes
      BY <3>1, <3>2, <3>3 DEF Outcomes
    <3> QED
      BY <1>6, <3>1, <3>4
  <2>2. CASE UNCHANGED task
    BY <1>6, <1>7, <1>13, <2>2 DEF Dispatch
  <2> QED
    BY <1>13, <2>1, <2>2 DEF Dispatch, DispatchReply, DispatchEvent, IgnoreReverse
<1>14. CASE Teardown \/ Close \/ HandlerCloses
  <2>1. ~closed
    BY <1>14 DEF Teardown, ListenFails, Close, HandlerCloses, CloseBegins, IInv, LifeInv
  <2>2. /\ closed' /\ UNCHANGED <<answered, reports, handled>>
        /\ \A s \in Seqs : task'[s] = task[s] \/ (InFlight(s) /\ task'[s] = "cancelled")
    BY <1>14 DEF Teardown, Close, HandlerCloses, CloseBegins, EventTaskCancelled, adapterVars
  <2> QED
    BY <1>5, <2>1, <2>2
<1>15. CASE Report
  <2>1. /\ closed /\ reports = 0 /\ reports' = 1
        /\ UNCHANGED <<task, answered, closed, handled>>
    BY <1>15 DEF Report, IInv, LifeInv, adapterVars
  <2>2. Promise!ReportLoss
    BY <1>7, <2>1 DEF Promise!ReportLoss, Outcomes
  <2> QED
    BY <2>2 DEF Promise!Next
<1>16. CASE TakeEvent
  <2>1. /\ UNCHANGED <<task, answered, closed, reports>>
        /\ queue \in Seq(1..MaxEvents) /\ queue # <<>> /\ handled' = Head(queue)
    BY <1>1, <1>16 DEF TakeEvent, TypeOK, adapterVars
  <2>2. handled' = handled + 1
    <3>1. 1 \in DOMAIN queue /\ handled' = queue[1]
      BY <2>1, TailIndex
    <3> QED
      BY <3>1 DEF EventsInv, QueueFollows
  <2>3. ~closed
    BY <1>16 DEF TakeEvent, IInv, LifeInv
  <2>4. Promise!Hear
    BY <1>7, <2>1, <2>2, <2>3 DEF Promise!Hear, Outcomes
  <2> QED
    BY <2>4 DEF Promise!Next
<1>17. ASSUME NEW s \in Seqs, Answer(s) PROVE Promise!Next
  <2>1. /\ s \in owed /\ answered' = answered \cup {s}
        /\ UNCHANGED <<task, closed, reports, handled>>
    BY <1>17 DEF Answer, clientVars
  <2>2. s \notin answered /\ Outcomes[s] # "none"
    BY <1>1, <2>1, OutcomeAt DEF OwedInv
  <2>3. Promise!AdapterReplies(s)
    BY <1>7, <2>1, <2>2 DEF Promise!AdapterReplies, Outcomes
  <2> QED
    BY <2>3 DEF Promise!Next
<1>18. CASE UNCHANGED <<task, answered, closed, reports, handled>>
  BY <1>6, <1>7, <1>18
<1> QED
  BY <1>8, <1>9, <1>10, <1>11, <1>12, <1>13, <1>14, <1>15, <1>16, <1>17, <1>18
     DEF Next, Listen, Handler, Adapter, TeardownFlushed, HandlerReturns, HandlerResumes,
         HandlerRaises, CloseFlushed, CloseFails, EmitEvent, EmitOther, RemoteEnds,
         vars, clientVars, adapterVars

(* The client keeps the promise its callers rely on: a request is issued   *)
(* on an open link, settles once and is answered only by its own answer;   *)
(* the link goes down once and its loss is reported at most once.          *)
THEOREM ClientKeepsPromise == Spec => Promise!SafeSpec
  BY InitPromise, PromiseStep, Invariance, EventsInvariance, OwedInvariance, PTL
     DEF Spec, Promise!SafeSpec
=============================================================================
