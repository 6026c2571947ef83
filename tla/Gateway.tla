------------------------------- MODULE Gateway -------------------------------
(***************************************************************************)
(* The handlers that bill one model call: chatCompletions,                 *)
(* imageGenerations and streamChatCompletions of internal/aigateway, and   *)
(* Store.Charge of internal/billing.  Each preauthorises, works, then      *)
(* settles, by calls that other handlers of the same key, administrators   *)
(* and time may come between.                                              *)
(*                                                                         *)
(* A call to the billing API (BillingClient.post) is in flight until the   *)
(* API executes it or it is lost; the handler waits for the reply, but     *)
(* only until its timeout, after which the call may still be executed.     *)
(* What the gateway checks before Authorize touches no billing state and   *)
(* is left out.                                                            *)
(***************************************************************************)
EXTENDS UsageBilling

CONSTANTS
    Handlers,    \* one per HTTP request that reaches Authorize
    KeyOf,       \* the usage request a handler bills
    Kind,        \* "call" (chat, images), "stream" or "charge"
    EstimateOf   \* EstimatedUsage; of a charge, its ActualUsage

ASSUME GatewayAssumption ==
    /\ KeyOf \in [Handlers -> Keys]
    /\ Kind \in [Handlers -> {"call", "stream", "charge"}]
    /\ EstimateOf \in [Handlers -> Demands]

VARIABLES
    pc,      \* where a handler is, or the outcome it ended with
    call,    \* its billing call that is in flight
    reply,   \* the reply it has not read yet
    served   \* its client got model output

handlerVars == <<pc, call, reply, served>>

allVars == <<vars, handlerVars>>

NoCall == [op |-> "none", actual |-> [x \in Units |-> 0]]

Waiting == {"authorizing", "cancelling", "committing"}

Outcomes == {"ok", "authorize_failed", "request_conflict", "provider_failed",
             "commit_failed", "crashed"}

GatewayTypeOK ==
    /\ pc \in [Handlers -> {"idle", "upstream"} \cup Waiting \cup Outcomes]
    /\ call \in [Handlers -> [op : {"none", "authorize", "commit", "cancel"},
                              actual : [Units -> Nat]]]
    /\ reply \in [Handlers -> {"none", "error", "authorized", "committed", "cancelled"}]
    /\ served \in [Handlers -> BOOLEAN]
    /\ \A h \in Handlers : reply[h] # "none" => pc[h] \in Waiting

GatewayInit ==
    /\ Init
    /\ pc = [h \in Handlers |-> "idle"]
    /\ call = [h \in Handlers |-> NoCall]
    /\ reply = [h \in Handlers |-> "none"]
    /\ served = [h \in Handlers |-> FALSE]

-----------------------------------------------------------------------------
(* The billing API's side of a call.                                       *)

(* Faulty variant: a late reply is kept for a handler that has given up.   *)
AnswerAnyway(h, status) ==
    /\ call' = [call EXCEPT ![h] = NoCall]
    /\ reply' = [reply EXCEPT ![h] = status]
    /\ UNCHANGED <<pc, served>>

(* The reply reaches the handler only while it waits.                      *)
Answer(h, status) ==
    /\ call' = [call EXCEPT ![h] = NoCall]
    /\ reply' = [reply EXCEPT ![h] = IF pc[h] \in Waiting THEN status ELSE "none"]
    /\ UNCHANGED <<pc, served>>

ServeAuthorize(h) ==
    LET k == KeyOf[h]
    IN  /\ call[h].op = "authorize"
        /\ \/ /\ usage[k].status = "none"
              /\ \E mode \in Modes :
                    \/ Authorize(k, mode, EstimateOf[h]) /\ Answer(h, "authorized")
                    \/ /\ ~ AuthorizeAccepted(k, mode, EstimateOf[h])
                       /\ UNCHANGED vars /\ Answer(h, "error")
           \/ /\ usage[k].status # "none"
              /\ UNCHANGED vars /\ Answer(h, usage[k].status)

ServeCommit(h) ==
    LET k == KeyOf[h]
    IN  /\ call[h].op = "commit"
        /\ \/ Commit(k, call[h].actual) /\ Answer(h, "committed")
           \/ /\ usage[k].status = "committed"
              /\ UNCHANGED vars /\ Answer(h, "committed")
           \/ /\ usage[k].status # "committed"
              /\ ~ CommitAccepted(k, call[h].actual)
              /\ UNCHANGED vars /\ Answer(h, "error")

ServeCancel(h) ==
    LET k == KeyOf[h]
    IN  /\ call[h].op = "cancel"
        /\ \/ Cancel(k) /\ Answer(h, "cancelled")
           \/ /\ usage[k].status = "cancelled"
              /\ UNCHANGED vars /\ Answer(h, "cancelled")
           \/ /\ usage[k].status = "committed"
              /\ UNCHANGED vars /\ Answer(h, "error")

Serve(h) == ServeAuthorize(h) \/ ServeCommit(h) \/ ServeCancel(h)

(* The call or its transaction fails, and nothing was done.                *)
FailCall(h) ==
    /\ call[h].op # "none"
    /\ UNCHANGED vars
    /\ Answer(h, "error")

-----------------------------------------------------------------------------
(* The handler's side.                                                     *)

Send(h, op, actual) == call' = [call EXCEPT ![h] = [op |-> op, actual |-> actual]]

GoTo(h, place) == pc' = [pc EXCEPT ![h] = place]

Arrive(h) ==
    /\ pc[h] = "idle"
    /\ GoTo(h, "authorizing")
    /\ Send(h, "authorize", NoCall.actual)
    /\ UNCHANGED <<reply, served>>

(* The reply is read; "error" also stands for the client's own timeout.    *)
Receive(h, status) ==
    /\ pc[h] \in Waiting
    /\ reply[h] = status
    /\ reply' = [reply EXCEPT ![h] = "none"]

(* Faulty variant: the status of an accepted Authorize is not looked at.   *)
AuthorizedUnchecked(h, status) ==
    /\ pc[h] = "authorizing" /\ Kind[h] # "charge"
    /\ UNCHANGED <<call, served>>
    /\ IF status = "error" THEN GoTo(h, "authorize_failed") ELSE GoTo(h, "upstream")

(* The gateway goes on to the provider only for an open preauthorisation.  *)
Authorized(h, status) ==
    /\ pc[h] = "authorizing" /\ Kind[h] # "charge"
    /\ UNCHANGED <<call, served>>
    /\ \/ status = "error" /\ GoTo(h, "authorize_failed")
       \/ status = "authorized" /\ GoTo(h, "upstream")
       \/ status \in {"committed", "cancelled"} /\ GoTo(h, "request_conflict")

(* Charge commits what it finds, and leaves it to Commit to refuse.        *)
ChargeAuthorized(h, status) ==
    /\ pc[h] = "authorizing" /\ Kind[h] = "charge"
    /\ UNCHANGED served
    /\ \/ status = "error" /\ GoTo(h, "authorize_failed") /\ UNCHANGED call
       \/ /\ status # "error" /\ GoTo(h, "committing")
          /\ Send(h, "commit", EstimateOf[h])

(* Faulty variant: the error of a Commit is ignored.                        *)
CommittedUnchecked(h, status) ==
    /\ pc[h] = "committing"
    /\ UNCHANGED call
    /\ GoTo(h, "ok")
    /\ served' = [served EXCEPT ![h] = Kind[h] # "charge"]

(* A failed Commit is neither repeated nor followed by a Cancel.           *)
Committed(h, status) ==
    /\ pc[h] = "committing"
    /\ UNCHANGED call
    /\ \/ /\ status = "error" /\ GoTo(h, "commit_failed") /\ UNCHANGED served
       \/ /\ status # "error" /\ GoTo(h, "ok")
          /\ served' = [served EXCEPT ![h] = Kind[h] # "charge"]

(* The error of a Cancel is ignored.                                       *)
Cancelled(h) ==
    /\ pc[h] = "cancelling"
    /\ GoTo(h, "provider_failed")
    /\ UNCHANGED <<call, served>>

OnReply(h) ==
    \E status \in {"error", "authorized", "committed", "cancelled"} :
        /\ Receive(h, status)
        /\ \/ Authorized(h, status) \/ ChargeAuthorized(h, status)
           \/ Committed(h, status)
           \/ Cancelled(h)

(* Faulty variant: calls that settle have no timeout.                      *)
GiveUpAuthorizing(h) ==
    /\ reply[h] = "none"
    /\ UNCHANGED reply
    /\ Authorized(h, "error") \/ ChargeAuthorized(h, "error")

(* The client's timeout, the request's context or billingFinalizerContext  *)
(* ends; the call stays in flight.                                         *)
GiveUp(h) ==
    /\ pc[h] \in Waiting
    /\ reply[h] = "none"
    /\ UNCHANGED reply
    /\ \/ Authorized(h, "error") \/ ChargeAuthorized(h, "error")
       \/ Committed(h, "error")
       \/ Cancelled(h)

(* Faulty variant: a failure of the provider is answered without a Cancel. *)
ProviderFailsUncancelled(h) ==
    /\ pc[h] = "upstream"
    /\ GoTo(h, "provider_failed")
    /\ UNCHANGED <<call, reply, served>>

(* LiteLLM fails or reports no usage; a stream may have been copied to the *)
(* client before.                                                          *)
ProviderFails(h) ==
    /\ pc[h] = "upstream"
    /\ GoTo(h, "cancelling")
    /\ Send(h, "cancel", NoCall.actual)
    /\ \E output \in (IF Kind[h] = "stream" THEN BOOLEAN ELSE {FALSE}) :
          served' = [served EXCEPT ![h] = output]
    /\ UNCHANGED reply

ProviderSucceeds(h) ==
    /\ pc[h] = "upstream"
    /\ GoTo(h, "committing")
    /\ \E actual \in Demands :
          /\ \E x \in Units : actual[x] > 0
          /\ Send(h, "commit", actual)
    /\ served' = [served EXCEPT ![h] = Kind[h] = "stream"]
    /\ UNCHANGED reply

(* The gateway process stops; calls already sent may still be executed.    *)
Crash ==
    /\ \E h \in Handlers : pc[h] \in Waiting \cup {"upstream"}
    /\ pc' = [h \in Handlers |->
                IF pc[h] \in Waiting \cup {"upstream"} THEN "crashed" ELSE pc[h]]
    /\ reply' = [h \in Handlers |-> "none"]
    /\ UNCHANGED <<call, served>>

Upstream(h) == (ProviderFails(h) \/ ProviderSucceeds(h)) /\ UNCHANGED vars

HandlerStep(h) == ((Arrive(h) \/ OnReply(h)) /\ UNCHANGED vars) \/ Upstream(h)

Unreliable ==
    \/ \E h \in Handlers : FailCall(h) \/ (GiveUp(h) /\ UNCHANGED vars)
    \/ Crash /\ UNCHANGED vars

Handling == \E h \in Handlers : HandlerStep(h) \/ Serve(h)

Others == (AssetChanges \/ CatalogueEdits) /\ UNCHANGED handlerVars

GatewayNext == Handling \/ Unreliable \/ Others

GatewaySpec == GatewayInit /\ [][GatewayNext]_allVars

(* A handler reads a reply that has come.  The gateway's calls to billing  *)
(* end by the timeout of their client (30 s) or the settling context       *)
(* (15 s), and a LiteLLM call whose body is read whole by its client's     *)
(* timeout (10 min).  Nothing ends a stream to a client that does not read *)
(* on, for the server has no write timeout; nor a charge in the billing    *)
(* API, which waits for MySQL as long as its caller does.                  *)
LiveGatewaySpec ==
    /\ GatewaySpec
    /\ \A h \in Handlers :
          /\ WF_allVars(OnReply(h) /\ UNCHANGED vars)
          /\ Kind[h] # "charge" => WF_allVars(GiveUp(h) /\ UNCHANGED vars)
          /\ Kind[h] = "call" => WF_allVars(Upstream(h))

(* Every call is executed and answered in time, clients read their         *)
(* streams, the gateway does not stop, and prices and plans stay.          *)
ReliableNext == Handling \/ (AssetChanges /\ UNCHANGED handlerVars)

ReliableSpec ==
    /\ GatewayInit
    /\ [][ReliableNext]_allVars
    /\ \A h \in Handlers :
          /\ WF_allVars(OnReply(h) /\ UNCHANGED vars)
          /\ WF_allVars(Upstream(h))
          /\ WF_allVars(Serve(h))

-----------------------------------------------------------------------------
(* Safety.                                                                 *)

(* A handler answers 200 only for a request that is charged and stays so,  *)
(* whatever other handlers of the same key do; and no chat or image reaches *)
(* a client uncharged.  Only a stream can be read before it is paid.       *)
SuccessIsCharged ==
    \A h \in Handlers :
        \/ pc[h] = "ok"
        \/ served[h] /\ Kind[h] # "stream"
        => usage[KeyOf[h]].status = "committed"

(* A request that arrives when its key is already settled never reaches    *)
(* the provider: the client's retry after a charge is rejected.            *)
RetryAfterSettlementRejected ==
    \A h \in Handlers :
        [](/\ pc[h] = "idle"
           /\ usage[KeyOf[h]].status \in {"committed", "cancelled"}
           => [](pc[h] # "upstream"))

(* Whatever is lost: no handler of the gateway waits for billing for ever, *)
(* and each chat or image request is answered, unless the gateway stops.   *)
(* Of a stream only its waits for billing end, of a charge nothing is      *)
(* claimed.                                                                *)
EveryRequestAnswered ==
    /\ \A h \in {i \in Handlers : Kind[i] # "charge"} :
          pc[h] \in Waiting ~> pc[h] \in {"upstream"} \cup Outcomes
    /\ \A h \in {i \in Handlers : Kind[i] = "call"} :
          pc[h] = "authorizing" ~> pc[h] \in Outcomes

(* No handler asks to commit more than its request has announced.          *)
WithinEstimate ==
    \A h \in Handlers :
        LET k == KeyOf[h]
        IN  call[h].op = "commit" /\ usage[k].status = "authorized" =>
                \A x \in Units : call[h].actual[x] <= usage[k].estimated[x]

(* Where nothing is lost and no call uses more than it announced, a request *)
(* is open only while some handler of its key is still at work: none comes  *)
(* to rest with coins or units held, whoever else has used the key.         *)
HoldsAttended ==
    \A k \in Keys :
        usage[k].status = "authorized" =>
            \E h \in Handlers : KeyOf[h] = k /\ pc[h] \in Waiting \cup {"upstream"}

(* Where nothing is lost and no call uses more than it announced, every    *)
(* preauthorisation is settled, also when several handlers share its key.  *)
EveryHoldSettled ==
    \A k \in Keys :
        usage[k].status = "authorized" ~> usage[k].status \in {"committed", "cancelled"}

-----------------------------------------------------------------------------
(* What the documentation says.                                            *)

(* docs/api.md: if the provider call fails the gateway cancels the         *)
(* preauthorisation.  Nothing is open once the handler has answered so,    *)
(* with no other handler at work and no call in flight.                    *)
FailureReleasesHold ==
    \A h \in Handlers :
        /\ pc[h] = "provider_failed"
        /\ \A i \in Handlers : /\ pc[i] \in Outcomes \cup {"idle"}
                               /\ call[i].op = "none"
        => usage[KeyOf[h]].status # "authorized"

(* docs/app-integration.md: once a key is charged, a request with the same *)
(* key gets the same result or is rejected.  A response that reaches a      *)
(* client is the only one of its key.                                      *)
OneResponsePerKey ==
    \A g, h \in Handlers :
        /\ pc[g] = "ok" /\ Kind[g] # "charge"
        /\ pc[h] = "ok" /\ Kind[h] # "charge"
        /\ KeyOf[g] = KeyOf[h]
        => g = h
=============================================================================
