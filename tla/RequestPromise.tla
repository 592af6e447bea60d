---------------------------- MODULE RequestPromise ----------------------------
(***************************************************************************)
(* What the transport promises the session manager, whatever the adapter   *)
(* and the network do (core/dap/client.py seen from its callers): a        *)
(* request is issued on an open link, is settled once and for good, and is *)
(* answered only by the adapter's own answer to it; the link goes down     *)
(* once, hands over no event and issues no request afterwards, and its     *)
(* loss is reported at most once.                                          *)
(***************************************************************************)
EXTENDS Naturals

CONSTANT Requests

VARIABLES outcome,   \* outcome[r]: what became of request r
          replied,   \* requests the adapter has answered
          link,      \* the link is up or down
          reports,   \* how often its loss was reported
          heard      \* the last event handed over

vars == <<outcome, replied, link, reports, heard>>

Init ==
  /\ outcome = [r \in Requests |-> "none"]
  /\ replied = {}
  /\ link = "up"
  /\ reports = 0
  /\ heard = 0

Issue(r) ==
  /\ link = "up"
  /\ outcome[r] = "none"
  /\ outcome' = [outcome EXCEPT ![r] = "open"]
  /\ UNCHANGED <<replied, link, reports, heard>>

AdapterReplies(r) ==
  /\ outcome[r] # "none"
  /\ r \notin replied
  /\ replied' = replied \cup {r}
  /\ UNCHANGED <<outcome, link, reports, heard>>

Answered(r) ==
  /\ outcome[r] = "open"
  /\ r \in replied
  /\ outcome' = [outcome EXCEPT ![r] = "answered"]
  /\ UNCHANGED <<replied, link, reports, heard>>

Fails(r) ==
  /\ outcome[r] = "open"
  /\ outcome' = [outcome EXCEPT ![r] = "failed"]
  /\ UNCHANGED <<replied, link, reports, heard>>

Hear ==
  /\ link = "up"
  /\ heard' = heard + 1
  /\ UNCHANGED <<outcome, replied, link, reports>>

(* The link goes down, and takes a request with it that only the event     *)
(* handler was waiting for.                                                *)
Down ==
  /\ link = "up"
  /\ link' = "down"
  /\ \E lost \in SUBSET {r \in Requests : outcome[r] = "open"} :
       outcome' = [r \in Requests |-> IF r \in lost THEN "failed" ELSE outcome[r]]
  /\ UNCHANGED <<replied, reports, heard>>

ReportLoss ==
  /\ link = "down"
  /\ reports = 0
  /\ reports' = 1
  /\ UNCHANGED <<outcome, replied, link, heard>>

Settle(r) == Answered(r) \/ Fails(r)

Next ==
  \/ \E r \in Requests : Issue(r) \/ AdapterReplies(r) \/ Settle(r)
  \/ Hear \/ Down \/ ReportLoss

SafeSpec == Init /\ [][Next]_vars
Spec     == SafeSpec /\ \A r \in Requests : WF_vars(Settle(r))
=============================================================================
