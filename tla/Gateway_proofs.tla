---------------------------- MODULE Gateway_proofs ----------------------------
(***************************************************************************)
(* Proofs about Gateway, for any number of handlers of any kinds, on any   *)
(* keys, with any failures.                                                *)
(*                                                                         *)
(* First, that the handlers use the store as it is specified: GatewaySpec  *)
(* implies Spec, so whatever is proved of UsageBilling holds under them.   *)
(* Then, that success is charged.  It needs to know what a reply means:    *)
(* while a handler commits, only its own Commit can be in flight, so what  *)
(* it is told other than an error is that the key is committed; and that   *)
(* never changes, whatever other handlers of the key do.  Last, that where *)
(* nothing is lost no request is left open: the handler that will settle   *)
(* it is followed from Authorize to its Commit, which Preauthorized says   *)
(* is accepted, or its Cancel.                                             *)
(***************************************************************************)
EXTENDS Gateway, UsageBilling_proofs

Places == {"idle", "upstream"} \cup Waiting \cup Outcomes

Call == [op : {"none", "authorize", "commit", "cancel"}, actual : [Units -> Nat]]

Statuses == {"error", "authorized", "committed", "cancelled"}

(* What the handlers know on their own, without the store.                 *)
CallsInv ==
    /\ pc \in [Handlers -> Places]
    /\ call \in [Handlers -> Call]
    /\ reply \in [Handlers -> Statuses \cup {"none"}]
    /\ served \in [Handlers -> BOOLEAN]
    /\ \A h \in Handlers :
          /\ reply[h] # "none" => pc[h] \in Waiting
          /\ call[h].op = "commit" => call[h].actual \in Demands
          /\ pc[h] = "committing" => call[h].op \in {"none", "commit"}

(* A handler that is told of a success has been charged for.               *)
RepliesTrue ==
    \A h \in Handlers :
        /\ pc[h] = "committing"
        /\ reply[h] \in Statuses \ {"error"}
        => usage[KeyOf[h]].status = "committed"

(* A step of a handler's own, which leaves the store alone.                *)
Own(h) == Arrive(h) \/ OnReply(h) \/ GiveUp(h) \/ ProviderFails(h) \/ ProviderSucceeds(h)

-----------------------------------------------------------------------------
(* The steps of the composition: a call is answered, a handler goes on by  *)
(* itself, the gateway stops, or the store changes alone.                  *)
LEMMA GatewaySteps ==
    ASSUME [GatewayNext]_allVars
    PROVE  \/ \E h \in Handlers : Serve(h) \/ FailCall(h)
           \/ \E h \in Handlers : Own(h) /\ UNCHANGED vars
           \/ Crash /\ UNCHANGED vars
           \/ (AssetChanges \/ CatalogueEdits \/ UNCHANGED vars) /\ UNCHANGED handlerVars
BY DEF GatewayNext, Handling, Unreliable, Others, HandlerStep, Upstream, Own, allVars

(* What a call may be answered, and what that says of the key it is about.  *)
LEMMA Answers ==
    ASSUME NEW h \in Handlers, Serve(h) \/ FailCall(h), CallsInv
    PROVE  /\ [Requests]_vars
           /\ \/ Answer(h, "error")
              \/ call[h].op = "authorize" /\ Answer(h, "authorized")
                    /\ usage[KeyOf[h]].status = "none"
              \/ call[h].op = "authorize" /\ Answer(h, usage[KeyOf[h]].status)
                    /\ usage[KeyOf[h]].status # "none" /\ UNCHANGED vars
              \/ call[h].op = "commit" /\ Answer(h, "committed")
              \/ call[h].op = "cancel" /\ Answer(h, "cancelled")
<1>1. KeyOf[h] \in Keys /\ EstimateOf[h] \in Demands
  BY GatewayAssumption
<1>2. CASE ServeAuthorize(h)
  <2>1. CASE \E mode \in Modes : Authorize(KeyOf[h], mode, EstimateOf[h])
    <3>1. Requests
      BY <1>1, <2>1 DEF Requests
    <3>2. QED
      BY <1>2, <3>1 DEF ServeAuthorize
  <2>2. CASE ~ \E mode \in Modes : Authorize(KeyOf[h], mode, EstimateOf[h])
    BY <1>2, <2>2 DEF ServeAuthorize
  <2>3. QED
    BY <2>1, <2>2
<1>3. CASE ServeCommit(h)
  <2>1. CASE Commit(KeyOf[h], call[h].actual)
    <3>1. call[h].actual \in Demands
      BY <1>3 DEF ServeCommit, CallsInv
    <3>2. Requests
      BY <1>1, <2>1, <3>1 DEF Requests
    <3>3. QED
      BY <1>3, <3>2 DEF ServeCommit
  <2>2. CASE ~ Commit(KeyOf[h], call[h].actual)
    BY <1>3, <2>2 DEF ServeCommit
  <2>3. QED
    BY <2>1, <2>2
<1>4. CASE ServeCancel(h)
  <2>1. CASE Cancel(KeyOf[h])
    <3>1. Requests
      BY <1>1, <2>1 DEF Requests
    <3>2. QED
      BY <1>4, <3>1 DEF ServeCancel
  <2>2. CASE ~ Cancel(KeyOf[h])
    BY <1>4, <2>2 DEF ServeCancel
  <2>3. QED
    BY <2>1, <2>2
<1>5. CASE FailCall(h)
  BY <1>5 DEF FailCall
<1>6. QED
  BY <1>2, <1>3, <1>4, <1>5 DEF Serve

-----------------------------------------------------------------------------
(* What an answer does to the handlers.                                    *)
LEMMA AnswerEffect ==
    ASSUME NEW h \in Handlers, NEW status \in Statuses, Answer(h, status), CallsInv
    PROVE  /\ CallsInv'
           /\ call'[h].op = "none"
           /\ reply'[h] \in {status, "none"}
           /\ \A g \in Handlers \ {h} : call'[g] = call[g] /\ reply'[g] = reply[g]
           /\ UNCHANGED <<pc, served>>
<1>1. NoCall \in Call /\ NoCall.op = "none"
  BY DEF NoCall, Call
<1>2. /\ pc \in [Handlers -> Places] /\ call \in [Handlers -> Call]
      /\ reply \in [Handlers -> Statuses \cup {"none"}]
      /\ served \in [Handlers -> BOOLEAN]
  BY DEF CallsInv
<1>3. /\ call' = [call EXCEPT ![h] = NoCall]
      /\ reply' = [reply EXCEPT ![h] = IF pc[h] \in Waiting THEN status ELSE "none"]
      /\ UNCHANGED <<pc, served>>
  BY DEF Answer
<1>4. call' \in [Handlers -> Call] /\ reply' \in [Handlers -> Statuses \cup {"none"}]
  BY <1>1, <1>2, <1>3
<1>5. /\ call'[h] = NoCall
      /\ reply'[h] = IF pc[h] \in Waiting THEN status ELSE "none"
      /\ \A g \in Handlers \ {h} : call'[g] = call[g] /\ reply'[g] = reply[g]
  BY <1>2, <1>3
<1>6. \A g \in Handlers :
         /\ reply'[g] # "none" => pc'[g] \in Waiting
         /\ call'[g].op = "commit" => call'[g].actual \in Demands
         /\ pc'[g] = "committing" => call'[g].op \in {"none", "commit"}
  BY <1>1, <1>3, <1>5 DEF CallsInv
<1>7. QED
  BY <1>1, <1>2, <1>3, <1>4, <1>5, <1>6 DEF CallsInv

(* What a handler does by itself: it changes no other handler's state, has *)
(* read its reply, and if it commits then by a call just sent.             *)
LEMMA OwnEffect ==
    ASSUME NEW h \in Handlers, Own(h), CallsInv
    PROVE  /\ CallsInv'
           /\ reply'[h] = "none"
           /\ \A g \in Handlers \ {h} : /\ pc'[g] = pc[g] /\ call'[g] = call[g]
                                        /\ reply'[g] = reply[g] /\ served'[g] = served[g]
           /\ pc'[h] = "upstream" => pc[h] = "authorizing" /\ reply[h] = "authorized"
           /\ pc'[h] = "ok" => /\ pc[h] = "committing"
                               /\ reply[h] \in Statuses \ {"error"}
           /\ \/ served'[h] = served[h] \/ Kind[h] = "stream" \/ served'[h] = FALSE
              \/ pc'[h] = "ok"
<1> USE DEF GoTo, Send
<1>1. /\ pc \in [Handlers -> Places] /\ call \in [Handlers -> Call]
      /\ reply \in [Handlers -> Statuses \cup {"none"}]
      /\ served \in [Handlers -> BOOLEAN]
  BY DEF CallsInv
<1>2. NoCall.actual \in [Units -> Nat] /\ \A d \in Demands : d \in [Units -> Nat]
  BY UsageBillingAssumption DEF NoCall
<1>3. \A g \in Handlers :
         /\ reply[g] # "none" => pc[g] \in Waiting
         /\ call[g].op = "commit" => call[g].actual \in Demands
         /\ pc[g] = "committing" => call[g].op \in {"none", "commit"}
  BY DEF CallsInv
<1>4. EstimateOf[h] \in Demands /\ Kind[h] \in {"call", "stream", "charge"}
  BY GatewayAssumption
<1>5. CASE Arrive(h)
  <2>1. pc[h] = "idle" /\ reply[h] = "none"
    BY <1>1, <1>3, <1>5 DEF Arrive, Waiting
  <2>2. /\ pc' = [pc EXCEPT ![h] = "authorizing"]
        /\ call' = [call EXCEPT ![h] = [op |-> "authorize", actual |-> NoCall.actual]]
        /\ UNCHANGED <<reply, served>>
    BY <1>5 DEF Arrive
  <2>3. [op |-> "authorize", actual |-> NoCall.actual] \in Call
    BY <1>2 DEF Call
  <2>4. pc' \in [Handlers -> Places] /\ call' \in [Handlers -> Call]
    BY <1>1, <2>2, <2>3 DEF Places, Waiting
  <2>5. QED
    BY <1>1, <1>3, <2>1, <2>2, <2>4 DEF CallsInv, Waiting
<1>6. ASSUME NEW status \in Statuses,
             status = "error" \/ reply[h] = status,
             pc[h] \in Waiting, reply' = [reply EXCEPT ![h] = "none"],
             \/ Authorized(h, status) \/ ChargeAuthorized(h, status)
             \/ Committed(h, status) \/ Cancelled(h)
      PROVE  /\ CallsInv'
             /\ pc'[h] = "upstream" => pc[h] = "authorizing" /\ reply[h] = "authorized"
             /\ pc'[h] = "ok" => pc[h] = "committing" /\ reply[h] \in Statuses \ {"error"}
             /\ \A g \in Handlers \ {h} : /\ pc'[g] = pc[g] /\ call'[g] = call[g]
                                          /\ served'[g] = served[g]
             /\ served'[h] = served[h] \/ pc'[h] = "ok"
  <2>1. reply' \in [Handlers -> Statuses \cup {"none"}]
        /\ reply'[h] = "none" /\ \A g \in Handlers \ {h} : reply'[g] = reply[g]
    BY <1>1, <1>6
  <2>2. CASE Authorized(h, status)
    <3>1. \E place \in Outcomes \cup {"upstream"} :
             /\ pc' = [pc EXCEPT ![h] = place]
             /\ place = "upstream" => status = "authorized"
             /\ place # "ok"
      BY <2>2 DEF Authorized, Outcomes
    <3>2. UNCHANGED <<call, served>> /\ pc[h] = "authorizing"
      BY <2>2 DEF Authorized
    <3>3. PICK place \in Outcomes \cup {"upstream"} :
             /\ pc' = [pc EXCEPT ![h] = place]
             /\ place = "upstream" => status = "authorized"
             /\ place # "ok"
      BY <3>1
    <3>4. /\ pc' \in [Handlers -> Places] /\ pc'[h] = place
          /\ \A g \in Handlers \ {h} : pc'[g] = pc[g]
      BY <1>1, <3>3 DEF Places
    <3>5. place # "committing"
      BY DEF Outcomes
    <3>6. QED
      BY <1>1, <1>3, <1>6, <2>1, <3>2, <3>3, <3>4, <3>5 DEF CallsInv
  <2>3. CASE ChargeAuthorized(h, status)
    <3>1. CASE status = "error"
      <4>1. pc' = [pc EXCEPT ![h] = "authorize_failed"] /\ UNCHANGED <<call, served>>
        BY <2>3, <3>1 DEF ChargeAuthorized
      <4>2. /\ pc' \in [Handlers -> Places] /\ pc'[h] = "authorize_failed"
            /\ \A g \in Handlers \ {h} : pc'[g] = pc[g]
        BY <1>1, <4>1 DEF Places, Outcomes
      <4>3. QED
        BY <1>1, <1>3, <2>1, <4>1, <4>2 DEF CallsInv
    <3>2. CASE status # "error"
      <4>1. /\ pc' = [pc EXCEPT ![h] = "committing"] /\ UNCHANGED served
            /\ call' = [call EXCEPT ![h] = [op |-> "commit", actual |-> EstimateOf[h]]]
        BY <2>3, <3>2 DEF ChargeAuthorized
      <4>2. [op |-> "commit", actual |-> EstimateOf[h]] \in Call
        BY <1>2, <1>4 DEF Call
      <4>3. /\ pc' \in [Handlers -> Places] /\ pc'[h] = "committing"
            /\ \A g \in Handlers \ {h} : pc'[g] = pc[g] /\ call'[g] = call[g]
            /\ call' \in [Handlers -> Call]
            /\ call'[h].op = "commit" /\ call'[h].actual = EstimateOf[h]
        BY <1>1, <4>1, <4>2 DEF Places, Waiting
      <4>4. QED
        BY <1>1, <1>3, <1>4, <2>1, <4>1, <4>3 DEF CallsInv, Waiting
    <3>3. QED
      BY <3>1, <3>2
  <2>4. CASE Committed(h, status)
    <3>1. pc[h] = "committing" /\ UNCHANGED call
      BY <2>4 DEF Committed
    <3>2. \/ /\ status = "error" /\ pc' = [pc EXCEPT ![h] = "commit_failed"]
             /\ UNCHANGED served
          \/ /\ status # "error" /\ pc' = [pc EXCEPT ![h] = "ok"]
             /\ served' = [served EXCEPT ![h] = Kind[h] # "charge"]
      BY <2>4 DEF Committed
    <3>3. /\ pc' \in [Handlers -> Places] /\ served' \in [Handlers -> BOOLEAN]
          /\ pc'[h] \in {"ok", "commit_failed"}
          /\ pc'[h] = "ok" => status # "error"
          /\ pc'[h] # "ok" => served'[h] = served[h]
          /\ \A g \in Handlers \ {h} : pc'[g] = pc[g] /\ served'[g] = served[g]
      <4>1. CASE status = "error"
        BY <1>1, <3>2, <4>1 DEF Places, Outcomes
      <4>2. CASE status # "error"
        BY <1>1, <3>2, <4>2 DEF Places, Outcomes
      <4>3. QED
        BY <4>1, <4>2
    <3>4. QED
      BY <1>1, <1>3, <1>6, <2>1, <3>1, <3>3 DEF CallsInv
  <2>5. CASE Cancelled(h)
    <3>1. pc' = [pc EXCEPT ![h] = "provider_failed"] /\ UNCHANGED <<call, served>>
      BY <2>5 DEF Cancelled
    <3>2. /\ pc' \in [Handlers -> Places] /\ pc'[h] = "provider_failed"
          /\ \A g \in Handlers \ {h} : pc'[g] = pc[g]
      BY <1>1, <3>1 DEF Places, Outcomes
    <3>3. QED
      BY <1>1, <1>3, <2>1, <3>1, <3>2 DEF CallsInv
  <2>6. QED
    BY <1>6, <2>2, <2>3, <2>4, <2>5
<1>7. CASE OnReply(h)
  <2>1. PICK status \in Statuses :
           /\ Receive(h, status)
           /\ \/ Authorized(h, status) \/ ChargeAuthorized(h, status)
              \/ Committed(h, status) \/ Cancelled(h)
    BY <1>7 DEF OnReply, Statuses
  <2>2. /\ pc[h] \in Waiting /\ reply[h] = status
        /\ reply' = [reply EXCEPT ![h] = "none"]
    BY <2>1 DEF Receive
  <2>3. reply'[h] = "none" /\ \A g \in Handlers \ {h} : reply'[g] = reply[g]
    BY <1>1, <2>2
  <2>4. QED
    BY <1>6, <2>1, <2>2, <2>3
<1>8. CASE GiveUp(h)
  <2>1. /\ pc[h] \in Waiting /\ reply[h] = "none" /\ reply' = reply
        /\ \/ Authorized(h, "error") \/ ChargeAuthorized(h, "error")
           \/ Committed(h, "error") \/ Cancelled(h)
    BY <1>8 DEF GiveUp
  <2>2. reply' = [reply EXCEPT ![h] = "none"]
    BY <1>1, <2>1
  <2>3. "error" \in Statuses
    BY DEF Statuses
  <2>4. /\ CallsInv'
        /\ pc'[h] = "upstream" => pc[h] = "authorizing" /\ reply[h] = "authorized"
        /\ pc'[h] = "ok" => pc[h] = "committing" /\ reply[h] \in Statuses \ {"error"}
        /\ \A g \in Handlers \ {h} : /\ pc'[g] = pc[g] /\ call'[g] = call[g]
                                     /\ served'[g] = served[g]
        /\ served'[h] = served[h] \/ pc'[h] = "ok"
    BY <1>6, <2>1, <2>2, <2>3
  <2>5. QED
    BY <2>1, <2>4
<1>9. CASE ProviderFails(h) \/ ProviderSucceeds(h)
  <2>1. pc[h] = "upstream" /\ reply[h] = "none" /\ UNCHANGED reply
    BY <1>1, <1>3, <1>9 DEF ProviderFails, ProviderSucceeds, Waiting
  <2>2. \/ \E actual \in Demands :
              /\ pc' = [pc EXCEPT ![h] = "committing"]
              /\ call' = [call EXCEPT ![h] = [op |-> "commit", actual |-> actual]]
        \/ /\ pc' = [pc EXCEPT ![h] = "cancelling"]
           /\ call' = [call EXCEPT ![h] = [op |-> "cancel", actual |-> NoCall.actual]]
    BY <1>9 DEF ProviderFails, ProviderSucceeds
  <2>3. PICK b \in BOOLEAN : /\ served' = [served EXCEPT ![h] = b]
                             /\ b => Kind[h] = "stream"
    BY <1>9 DEF ProviderFails, ProviderSucceeds
  <2>4. /\ served' \in [Handlers -> BOOLEAN] /\ served'[h] = b
        /\ \A g \in Handlers \ {h} : served'[g] = served[g]
    BY <1>1, <2>3
  <2>5. PICK c \in Call, place \in {"committing", "cancelling"} :
           /\ pc' = [pc EXCEPT ![h] = place] /\ call' = [call EXCEPT ![h] = c]
           /\ place = "committing" <=> c.op = "commit"
           /\ c.op = "commit" => c.actual \in Demands
    <3>1. CASE \E actual \in Demands :
                  /\ pc' = [pc EXCEPT ![h] = "committing"]
                  /\ call' = [call EXCEPT ![h] = [op |-> "commit", actual |-> actual]]
      <4>1. PICK actual \in Demands :
                  /\ pc' = [pc EXCEPT ![h] = "committing"]
                  /\ call' = [call EXCEPT ![h] = [op |-> "commit", actual |-> actual]]
        BY <3>1
      <4>2. [op |-> "commit", actual |-> actual] \in Call
        BY <1>2 DEF Call
      <4>3. QED
        BY <4>1, <4>2
    <3>2. CASE /\ pc' = [pc EXCEPT ![h] = "cancelling"]
               /\ call' = [call EXCEPT ![h] = [op |-> "cancel", actual |-> NoCall.actual]]
      <4>1. [op |-> "cancel", actual |-> NoCall.actual] \in Call
        BY <1>2 DEF Call
      <4>2. QED
        BY <3>2, <4>1
    <3>3. QED
      BY <2>2, <3>1, <3>2
  <2>6. /\ pc' \in [Handlers -> Places] /\ call' \in [Handlers -> Call]
        /\ pc'[h] = place /\ call'[h] = c
        /\ \A g \in Handlers \ {h} : pc'[g] = pc[g] /\ call'[g] = call[g]
    BY <1>1, <2>5 DEF Places, Waiting
  <2>7. CallsInv'
    BY <1>1, <1>3, <2>1, <2>4, <2>5, <2>6 DEF CallsInv, Waiting
  <2>8. QED
    BY <2>1, <2>3, <2>4, <2>5, <2>6, <2>7
<1>10. QED
  BY <1>5, <1>7, <1>8, <1>9 DEF Own

(* The statuses a request may have are those of a reply.                   *)
LEMMA UsageStatus ==
    ASSUME IInv, NEW k \in Keys
    PROVE  usage[k].status \in {"none", "authorized", "committed", "cancelled"}
BY DEF IInv, TypeOK

(* The knowledge of the handlers is kept by every step, and every step is  *)
(* one of the store's, or leaves it alone.                                 *)
LEMMA CallsKept ==
    IInv /\ CallsInv /\ [GatewayNext]_allVars => IInv' /\ CallsInv' /\ [Next]_vars
<1> SUFFICES ASSUME IInv, CallsInv, [GatewayNext]_allVars
             PROVE  CallsInv' /\ [Next]_vars
  BY NextIInv
<1>1. CASE \E h \in Handlers : Serve(h) \/ FailCall(h)
  <2>1. PICK h \in Handlers : Serve(h) \/ FailCall(h)
    BY <1>1
  <2>2. [Next]_vars
    BY <2>1, Answers DEF Next
  <2>3. usage[KeyOf[h]].status \in {"none", "authorized", "committed", "cancelled"}
    BY UsageStatus, GatewayAssumption
  <2>4. \E status \in Statuses : Answer(h, status)
    BY <2>1, <2>3, Answers DEF Statuses
  <2>5. QED
    BY <2>2, <2>4, AnswerEffect
<1>2. CASE \E h \in Handlers : Own(h) /\ UNCHANGED vars
  BY <1>2, OwnEffect
<1>3. CASE Crash /\ UNCHANGED vars
  <2>1. /\ pc' = [h \in Handlers |->
                    IF pc[h] \in Waiting \cup {"upstream"} THEN "crashed" ELSE pc[h]]
        /\ reply' = [h \in Handlers |-> "none"]
        /\ UNCHANGED <<call, served>>
    BY <1>3 DEF Crash
  <2>2. pc' \in [Handlers -> Places]
    BY <2>1 DEF CallsInv, Places, Outcomes
  <2>3. QED
    BY <1>3, <2>1, <2>2 DEF CallsInv, Waiting
<1>4. CASE (AssetChanges \/ CatalogueEdits \/ UNCHANGED vars) /\ UNCHANGED handlerVars
  BY <1>4 DEF handlerVars, CallsInv, Next
<1>5. QED
  BY <1>1, <1>2, <1>3, <1>4, GatewaySteps

(* At first no handler has called.                                         *)
LEMMA InitCallsInv == GatewayInit => IInv /\ CallsInv
<1> SUFFICES ASSUME GatewayInit
             PROVE  CallsInv
  BY InitIInv DEF GatewayInit
<1>1. NoCall \in Call /\ NoCall.op = "none"
  BY DEF NoCall, Call
<1>2. QED
  BY <1>1 DEF GatewayInit, CallsInv, Places, Statuses

(* The handlers use the store as it is specified, whatever fails: each of  *)
(* their steps is one of its steps.  So all that is proved of UsageBilling *)
(* holds under them.                                                       *)
THEOREM StoreUnderGateway == GatewaySpec => Spec
<1>1. GatewayInit => Init
  BY DEF GatewayInit
<1>2. GatewaySpec => [](IInv /\ CallsInv)
  BY InitCallsInv, CallsKept, PTL DEF GatewaySpec
<1>3. QED
  BY <1>1, <1>2, CallsKept, PTL DEF GatewaySpec, Spec

(* The handlers' variables keep their types.                               *)
THEOREM GatewayTypeCorrect == GatewaySpec => []GatewayTypeOK
<1>1. CallsInv => GatewayTypeOK
  BY DEF CallsInv, GatewayTypeOK, Places, Call, Statuses
<1>2. QED
  BY <1>1, InitCallsInv, CallsKept, PTL DEF GatewaySpec

-----------------------------------------------------------------------------
(* A request that is settled stays so.                                     *)
LEMMA StatusStays ==
    ASSUME IInv, [Next]_vars, NEW k \in Keys,
           usage[k].status \in {"committed", "cancelled"}
    PROVE  usage'[k].status = usage[k].status
<1>1. CASE Requests
  <2>1. PICK j \in Keys : \/ \E mode \in Modes, d \in Demands : Authorize(j, mode, d)
                          \/ \E d \in Demands : Commit(j, d)
                          \/ Cancel(j)
    BY <1>1 DEF Requests
  <2>2. usage[j].status \in {"none", "authorized"} /\ \E x : usage' = [usage EXCEPT ![j] = x]
    <3>1. CASE \E mode \in Modes, d \in Demands : Authorize(j, mode, d)
      BY <3>1 DEF Authorize
    <3>2. CASE \E d \in Demands : Commit(j, d)
      BY <3>2 DEF Commit, CommitAccepted
    <3>3. CASE Cancel(j)
      BY <3>3 DEF Cancel
    <3>4. QED
      BY <2>1, <3>1, <3>2, <3>3
  <2>3. k # j
    BY <2>2
  <2>4. QED
    BY <2>2, <2>3 DEF IInv, TypeOK
<1>2. CASE AssetChanges \/ CatalogueEdits \/ UNCHANGED vars
  <2>1. UNCHANGED usage
    BY <1>2 DEF AssetChanges, AdminAdjustCoins, AdminGrantSubscription,
                RunEntitlementMaintenance, EnsureCurrentMonthEntitlementsForUser, Tick,
                CatalogueEdits, AdminUpsertPricing, AdminDeletePricing,
                SetPrice, AdminUpsertPlanEntitlement, vars
  <2>2. QED
    BY <2>1
<1>3. QED
  BY <1>1, <1>2 DEF Next

(* An answer "committed" is true once it is given.                         *)
LEMMA CommitAnswered ==
    ASSUME NEW h \in Handlers, ServeCommit(h), IInv, ~ Answer(h, "error")
    PROVE  usage'[KeyOf[h]].status = "committed"
<1>1. CASE Commit(KeyOf[h], call[h].actual)
  <2>1. KeyOf[h] \in Keys /\ usage \in [Keys -> UsageRow]
    BY GatewayAssumption DEF IInv, TypeOK, UsageRow
  <2>2. \E c, n : usage' = [usage EXCEPT ![KeyOf[h]].status = "committed",
                                         ![KeyOf[h]].chargedCoins = c,
                                         ![KeyOf[h]].chargedUnits = n]
    BY <1>1, Zenon DEF Commit
  <2>3. QED
    BY <2>1, <2>2 DEF UsageRow
<1>2. CASE usage[KeyOf[h]].status = "committed" /\ UNCHANGED vars
  BY <1>2 DEF vars
<1>3. QED
  BY <1>1, <1>2 DEF ServeCommit

(* What a handler is told, and where it goes by it, is true of its key     *)
(* after every step.                                                       *)
LEMMA SuccessKept ==
    IInv /\ CallsInv /\ RepliesTrue /\ SuccessIsCharged /\ [GatewayNext]_allVars
        => RepliesTrue' /\ SuccessIsCharged'
<1> SUFFICES ASSUME IInv, CallsInv, RepliesTrue, SuccessIsCharged, [GatewayNext]_allVars
             PROVE  RepliesTrue' /\ SuccessIsCharged'
  OBVIOUS
<1>1. [Next]_vars
  BY CallsKept
<1>2. \A h \in Handlers : usage[KeyOf[h]].status = "committed"
                           => usage'[KeyOf[h]].status = "committed"
  BY <1>1, StatusStays, GatewayAssumption
<1>3. CASE \E h \in Handlers : Serve(h) \/ FailCall(h)
  <2>1. PICK h \in Handlers : Serve(h) \/ FailCall(h)
    BY <1>3
  <2>2. usage[KeyOf[h]].status \in {"none", "authorized", "committed", "cancelled"}
    BY UsageStatus, GatewayAssumption
  <2>3. PICK status \in Statuses : Answer(h, status)
    BY <2>1, <2>2, Answers DEF Statuses
  <2>4. /\ reply'[h] \in {status, "none"}
        /\ \A g \in Handlers \ {h} : reply'[g] = reply[g]
        /\ UNCHANGED <<pc, served>>
    BY <2>3, AnswerEffect
  <2>5. SuccessIsCharged'
    BY <1>2, <2>4 DEF SuccessIsCharged
  <2>6. pc[h] = "committing" /\ reply'[h] \in Statuses \ {"error"}
           => usage'[KeyOf[h]].status = "committed"
    <3> SUFFICES ASSUME pc[h] = "committing", reply'[h] \in Statuses \ {"error"}
                 PROVE  usage'[KeyOf[h]].status = "committed"
      OBVIOUS
    <3>1. ~ Answer(h, "error")
      <4> SUFFICES ASSUME Answer(h, "error")
                   PROVE  FALSE
        OBVIOUS
      <4>1. reply'[h] \in {"error", "none"}
        BY AnswerEffect DEF Statuses
      <4>2. QED
        BY <4>1 DEF Statuses
    <3>2. call[h].op \in {"none", "commit"}
      BY DEF CallsInv
    <3>3. ServeCommit(h)
      BY <2>1, <3>1, <3>2 DEF Serve, ServeAuthorize, ServeCancel, FailCall
    <3>4. QED
      BY <3>1, <3>3, CommitAnswered
  <2>7. RepliesTrue'
    BY <1>2, <2>4, <2>6 DEF RepliesTrue
  <2>8. QED
    BY <2>5, <2>7
<1>4. CASE \E h \in Handlers : Own(h) /\ UNCHANGED vars
  <2>1. PICK h \in Handlers : Own(h) /\ UNCHANGED vars
    BY <1>4
  <2>2. usage' = usage
    BY <2>1 DEF vars
  <2>3. /\ reply'[h] = "none"
        /\ \A g \in Handlers \ {h} : /\ pc'[g] = pc[g] /\ reply'[g] = reply[g]
                                     /\ served'[g] = served[g]
        /\ pc'[h] = "ok" => pc[h] = "committing" /\ reply[h] \in Statuses \ {"error"}
        /\ \/ served'[h] = served[h] \/ Kind[h] = "stream" \/ served'[h] = FALSE
           \/ pc'[h] = "ok"
    BY <2>1, OwnEffect
  <2>4. RepliesTrue'
    BY <2>2, <2>3 DEF RepliesTrue, Statuses
  <2>5. pc'[h] = "ok" => usage[KeyOf[h]].status = "committed"
    BY <2>3 DEF RepliesTrue
  <2>6. SuccessIsCharged'
    BY <2>2, <2>3, <2>5 DEF SuccessIsCharged
  <2>7. QED
    BY <2>4, <2>6
<1>5. CASE Crash /\ UNCHANGED vars
  <2>1. /\ \A h \in Handlers : /\ pc'[h] \in {"crashed", pc[h]}
                              /\ reply'[h] = "none"
        /\ UNCHANGED <<served, usage>>
    BY <1>5 DEF Crash, vars
  <2>2. QED
    BY <2>1 DEF RepliesTrue, SuccessIsCharged, Statuses
<1>6. CASE (AssetChanges \/ CatalogueEdits \/ UNCHANGED vars) /\ UNCHANGED handlerVars
  BY <1>2, <1>6 DEF handlerVars, RepliesTrue, SuccessIsCharged
<1>7. QED
  BY <1>3, <1>4, <1>5, <1>6, GatewaySteps

(* Whatever handlers of whatever kinds share a key, and whatever is lost:  *)
(* a request that is answered with success is charged, and stays so, and   *)
(* only a stream is read before.                                           *)
THEOREM SuccessCharged == GatewaySpec => []SuccessIsCharged
<1>1. GatewayInit => RepliesTrue /\ SuccessIsCharged
  BY DEF GatewayInit, RepliesTrue, SuccessIsCharged
<1>2. QED
  BY <1>1, InitCallsInv, CallsKept, SuccessKept, PTL DEF GatewaySpec

-----------------------------------------------------------------------------
(* A handler that can no longer reach the provider: its key is settled,    *)
(* and it has not been told otherwise.                                     *)
TurnedAway(h) ==
    /\ usage[KeyOf[h]].status \in {"committed", "cancelled"}
    /\ pc[h] # "upstream"
    /\ pc[h] = "authorizing" => reply[h] # "authorized"

(* Once turned away, a handler stays so.                                   *)
LEMMA TurnedAwayKept ==
    ASSUME NEW h \in Handlers, IInv, CallsInv, TurnedAway(h), [GatewayNext]_allVars
    PROVE  TurnedAway(h)'
<1>1. usage'[KeyOf[h]].status = usage[KeyOf[h]].status
  BY CallsKept, StatusStays, GatewayAssumption DEF TurnedAway
<1>2. CASE \E g \in Handlers : Serve(g) \/ FailCall(g)
  <2>1. PICK g \in Handlers : Serve(g) \/ FailCall(g)
    BY <1>2
  <2>2. usage[KeyOf[g]].status \in {"none", "authorized", "committed", "cancelled"}
    BY UsageStatus, GatewayAssumption
  <2>3. PICK status \in Statuses :
           /\ Answer(g, status)
           /\ status = "authorized" => usage[KeyOf[g]].status \in {"none", "authorized"}
    BY <2>1, <2>2, Answers DEF Statuses
  <2>4. /\ reply'[g] \in {status, "none"}
        /\ \A i \in Handlers \ {g} : reply'[i] = reply[i]
        /\ UNCHANGED pc
    BY <2>3, AnswerEffect
  <2>5. QED
    BY <1>1, <2>3, <2>4 DEF TurnedAway
<1>3. CASE \E g \in Handlers : Own(g) /\ UNCHANGED vars
  <2>1. PICK g \in Handlers : Own(g)
    BY <1>3
  <2>2. /\ reply'[g] = "none"
        /\ \A i \in Handlers \ {g} : pc'[i] = pc[i] /\ reply'[i] = reply[i]
        /\ pc'[g] = "upstream" => pc[g] = "authorizing" /\ reply[g] = "authorized"
    BY <2>1, OwnEffect
  <2>3. QED
    BY <1>1, <2>2 DEF TurnedAway
<1>4. CASE Crash /\ UNCHANGED vars
  <2>1. pc'[h] \in {"crashed", pc[h]} /\ reply'[h] = "none"
    BY <1>4 DEF Crash
  <2>2. QED
    BY <1>1, <2>1 DEF TurnedAway
<1>5. CASE (AssetChanges \/ CatalogueEdits \/ UNCHANGED vars) /\ UNCHANGED handlerVars
  BY <1>1, <1>5 DEF handlerVars, TurnedAway
<1>6. QED
  BY <1>2, <1>3, <1>4, <1>5, GatewaySteps

(* A request whose key was settled before it came never reaches the        *)
(* provider.                                                               *)
THEOREM RetriesRejected == GatewaySpec => RetryAfterSettlementRejected
<1> SUFFICES ASSUME NEW h \in Handlers
             PROVE  GatewaySpec =>
                       [](/\ pc[h] = "idle"
                          /\ usage[KeyOf[h]].status \in {"committed", "cancelled"}
                          => [](pc[h] # "upstream"))
  BY DEF RetryAfterSettlementRejected
<1>1. CallsInv /\ pc[h] = "idle" /\ usage[KeyOf[h]].status \in {"committed", "cancelled"}
         => TurnedAway(h)
  BY DEF TurnedAway
<1>2. TurnedAway(h) => pc[h] # "upstream"
  BY DEF TurnedAway
<1>3. GatewaySpec => [](IInv /\ CallsInv)
  BY InitCallsInv, CallsKept, PTL DEF GatewaySpec
<1>4. IInv /\ CallsInv /\ TurnedAway(h) /\ [GatewayNext]_allVars => TurnedAway(h)'
  BY TurnedAwayKept
<1>5. QED
  BY <1>1, <1>2, <1>3, <1>4, PTL DEF GatewaySpec

-----------------------------------------------------------------------------
(* Where nothing is lost.                                                  *)

(* A handler that will settle its request: it has read, or is about to     *)
(* read, that the request is open, or its Commit or Cancel is on its way.  *)
Settling(h) ==
    \/ pc[h] = "authorizing" /\ reply[h] = "authorized"
    \/ pc[h] = "upstream"
    \/ pc[h] = "committing" /\ call[h].op = "commit"
    \/ pc[h] = "cancelling" /\ call[h].op = "cancel"

(* A call in flight is one its handler waits for.                          *)
Awaited ==
    \A h \in Handlers :
        /\ call[h].op # "none" => reply[h] = "none"
        /\ call[h].op = "authorize" => pc[h] = "authorizing"
        /\ call[h].op = "commit" => pc[h] = "committing"
        /\ call[h].op = "cancel" => pc[h] = "cancelling"

OpenIsSettling ==
    \A k \in Keys :
        usage[k].status = "authorized" => \E h \in Handlers : KeyOf[h] = k /\ Settling(h)

(* The steps of the handlers themselves, when nobody gives up.             *)
ReliableOwn(h) == Arrive(h) \/ OnReply(h) \/ ProviderFails(h) \/ ProviderSucceeds(h)

(* What each of them does to the handler.                                  *)
LEMMA ReliableOwnSteps ==
    ASSUME CallsInv, NEW h \in Handlers, ReliableOwn(h)
    PROVE  \/ /\ pc[h] = "idle" /\ pc'[h] = "authorizing"
              /\ call'[h].op = "authorize"
           \/ /\ pc[h] \in Waiting /\ reply[h] # "none"
              /\ call'[h] = call[h] /\ pc'[h] \in Outcomes \cup {"upstream"}
              /\ Settling(h) /\ call[h].op = "none" => pc'[h] = "upstream"
           \/ /\ pc[h] \in Waiting /\ reply[h] # "none"
              /\ pc'[h] = "committing" /\ call'[h].op = "commit"
           \/ /\ pc[h] = "upstream"
              /\ \/ pc'[h] = "committing" /\ call'[h].op = "commit"
                 \/ pc'[h] = "cancelling" /\ call'[h].op = "cancel"
<1> USE DEF GoTo, Send
<1>1. pc \in [Handlers -> Places] /\ call \in [Handlers -> Call]
  BY DEF CallsInv
<1>2. CASE Arrive(h)
  BY <1>1, <1>2 DEF Arrive
<1>3. CASE ProviderFails(h) \/ ProviderSucceeds(h)
  <2>1. pc[h] = "upstream"
    BY <1>3 DEF ProviderFails, ProviderSucceeds
  <2>2. \/ /\ pc' = [pc EXCEPT ![h] = "committing"]
           /\ \E d : call' = [call EXCEPT ![h] = [op |-> "commit", actual |-> d]]
        \/ /\ pc' = [pc EXCEPT ![h] = "cancelling"]
           /\ \E d : call' = [call EXCEPT ![h] = [op |-> "cancel", actual |-> d]]
    <3>1. CASE ProviderFails(h)
      BY <3>1 DEF ProviderFails
    <3>2. CASE ProviderSucceeds(h)
      BY <3>2 DEF ProviderSucceeds
    <3>3. QED
      BY <1>3, <3>1, <3>2
  <2>3. QED
    BY <1>1, <2>1, <2>2
<1>4. CASE OnReply(h)
  <2>1. PICK status \in Statuses :
           /\ Receive(h, status)
           /\ \/ Authorized(h, status) \/ ChargeAuthorized(h, status)
              \/ Committed(h, status) \/ Cancelled(h)
    BY <1>4 DEF OnReply, Statuses
  <2>2. pc[h] \in Waiting /\ reply[h] = status /\ status # "none"
    BY <2>1 DEF Receive, Statuses
  <2>3. CASE Authorized(h, status)
    <3>1. pc[h] = "authorizing" /\ call' = call
      BY <2>3 DEF Authorized
    <3>2. \/ pc' = [pc EXCEPT ![h] = "upstream"]
          \/ /\ status # "authorized"
             /\ \E place \in Outcomes : pc' = [pc EXCEPT ![h] = place]
      BY <2>3 DEF Authorized, Outcomes
    <3>3. QED
      BY <1>1, <2>2, <3>1, <3>2 DEF Settling
  <2>4. CASE ChargeAuthorized(h, status)
    <3>1. pc[h] = "authorizing"
      BY <2>4 DEF ChargeAuthorized
    <3>2. CASE status = "error"
      <4>1. call' = call /\ pc' = [pc EXCEPT ![h] = "authorize_failed"]
        BY <2>4, <3>2 DEF ChargeAuthorized
      <4>2. QED
        BY <1>1, <2>2, <3>1, <3>2, <4>1 DEF Settling, Outcomes
    <3>3. CASE status # "error"
      <4>1. /\ call' = [call EXCEPT ![h] = [op |-> "commit", actual |-> EstimateOf[h]]]
            /\ pc' = [pc EXCEPT ![h] = "committing"]
        BY <2>4, <3>3 DEF ChargeAuthorized
      <4>2. QED
        BY <1>1, <2>2, <4>1
    <3>4. QED
      BY <3>2, <3>3
  <2>5. CASE Committed(h, status) \/ Cancelled(h)
    <3>1. call' = call /\ pc[h] \in {"committing", "cancelling"}
      BY <2>5 DEF Committed, Cancelled
    <3>2. \E place \in Outcomes : pc' = [pc EXCEPT ![h] = place]
      BY <2>5 DEF Committed, Cancelled, Outcomes
    <3>3. QED
      BY <1>1, <2>2, <3>1, <3>2 DEF Settling
  <2>6. QED
    BY <2>1, <2>3, <2>4, <2>5
<1>5. QED
  BY <1>2, <1>3, <1>4 DEF ReliableOwn

(* A handler that will settle its request goes on to do so.                *)
LEMMA OwnSettles ==
    ASSUME CallsInv, Awaited, OpenIsSettling, NEW h \in Handlers, ReliableOwn(h),
           UNCHANGED vars
    PROVE  Awaited' /\ OpenIsSettling'
<1>1. /\ CallsInv' /\ reply'[h] = "none"
      /\ \A g \in Handlers \ {h} : /\ pc'[g] = pc[g] /\ call'[g] = call[g]
                                   /\ reply'[g] = reply[g]
  BY OwnEffect DEF ReliableOwn, Own
<1>2. /\ call[h].op # "none" => reply[h] = "none"
      /\ call[h].op \in {"none", "authorize", "commit", "cancel"}
      /\ reply[h] # "none" => pc[h] \in Waiting
      /\ call[h].op = "authorize" => pc[h] = "authorizing"
      /\ call[h].op = "commit" => pc[h] = "committing"
      /\ call[h].op = "cancel" => pc[h] = "cancelling"
  BY DEF Awaited, CallsInv, Call
<1>3. /\ Settling(h) => Settling(h)'
      /\ call'[h].op = "authorize" => pc'[h] = "authorizing"
      /\ call'[h].op = "commit" => pc'[h] = "committing"
      /\ call'[h].op = "cancel" => pc'[h] = "cancelling"
  BY <1>2, ReliableOwnSteps DEF Settling, Waiting
<1>4. Awaited'
  BY <1>1, <1>3 DEF Awaited
<1>5. \A g \in Handlers : Settling(g) => Settling(g)'
  BY <1>1, <1>3 DEF Settling
<1>6. usage' = usage
  BY DEF vars
<1>7. QED
  BY <1>4, <1>5, <1>6 DEF OpenIsSettling

(* What the store makes of a call, when it is executed: an open request of *)
(* a Commit or a Cancel is settled, for what was preauthorised suffices.   *)
LEMMA ServeSettles ==
    ASSUME IInv, CallsInv, PreauthorizationSuffices, WithinEstimate,
           NEW h \in Handlers, Serve(h)
    PROVE  /\ \A k \in Keys \ {KeyOf[h]} : usage'[k] = usage[k]
           /\ call[h].op # "none"
           /\ \/ call[h].op = "authorize"
              \/ usage'[KeyOf[h]].status # "authorized"
           /\ usage'[KeyOf[h]].status = "authorized" => Answer(h, "authorized")
<1> DEFINE k == KeyOf[h]
<1>1. k \in Keys /\ EstimateOf[h] \in Demands
  BY GatewayAssumption
<1>2. CASE ServeAuthorize(h)
  <2>1. call[h].op = "authorize"
    BY <1>2 DEF ServeAuthorize
  <2>2. CASE \E mode \in Modes : Authorize(k, mode, EstimateOf[h]) /\ Answer(h, "authorized")
    BY <1>1, <2>1, <2>2, AuthorizeEffect DEF OthersStay
  <2>3. CASE usage[k].status = "none" /\ UNCHANGED vars
    BY <2>1, <2>3 DEF vars
  <2>4. CASE usage[k].status # "none" /\ UNCHANGED vars /\ Answer(h, usage[k].status)
    BY <2>1, <2>4 DEF vars
  <2>5. QED
    BY <1>2, <2>2, <2>3, <2>4 DEF ServeAuthorize
<1>3. CASE ServeCommit(h)
  <2>1. call[h].op = "commit" /\ call[h].actual \in Demands
    BY <1>3 DEF ServeCommit, CallsInv
  <2>2. CASE Commit(k, call[h].actual)
    BY <1>1, <2>1, <2>2, CommitEffect DEF OthersStay, HoldsSettled
  <2>3. usage[k].status = "authorized" => CommitAccepted(k, call[h].actual)
    BY <1>1, <2>1 DEF WithinEstimate, PreauthorizationSuffices
  <2>4. CASE UNCHANGED vars /\ usage[k].status # "authorized"
    BY <2>1, <2>4 DEF vars
  <2>5. QED
    BY <1>3, <2>2, <2>3, <2>4 DEF ServeCommit
<1>4. CASE ServeCancel(h)
  <2>1. call[h].op = "cancel"
    BY <1>4 DEF ServeCancel
  <2>2. CASE Cancel(k)
    BY <1>1, <2>1, <2>2, CancelEffect DEF OthersStay
  <2>3. CASE UNCHANGED vars /\ usage[k].status # "authorized"
    BY <2>1, <2>3 DEF vars
  <2>4. QED
    BY <1>4, <2>2, <2>3 DEF ServeCancel
<1>5. QED
  BY <1>2, <1>3, <1>4 DEF Serve

(* So an open request is still attended to after the call: the handler     *)
(* that opened it knows, and the others have not changed.                  *)
LEMMA ServeAttends ==
    ASSUME IInv, CallsInv, Awaited, OpenIsSettling, PreauthorizationSuffices,
           WithinEstimate, NEW h \in Handlers, Serve(h)
    PROVE  Awaited' /\ OpenIsSettling'
<1>1. \E status \in Statuses : Answer(h, status)
  <2>1. usage[KeyOf[h]].status \in {"none", "authorized", "committed", "cancelled"}
    BY UsageStatus, GatewayAssumption
  <2>2. QED
    BY <2>1, Answers DEF Statuses
<1>2. /\ call'[h].op = "none" /\ pc' = pc
      /\ \A g \in Handlers \ {h} : call'[g] = call[g] /\ reply'[g] = reply[g]
  BY <1>1, AnswerEffect
<1>3. Awaited'
  BY <1>2 DEF Awaited
<1>4. /\ \A k \in Keys \ {KeyOf[h]} : usage'[k] = usage[k]
      /\ call[h].op # "none"
      /\ call[h].op = "authorize" \/ usage'[KeyOf[h]].status # "authorized"
      /\ usage'[KeyOf[h]].status = "authorized" => Answer(h, "authorized")
  BY ServeSettles
<1>5. ASSUME NEW k \in Keys, usage'[k].status = "authorized"
      PROVE  \E g \in Handlers : KeyOf[g] = k /\ Settling(g)'
  <2>1. CASE k = KeyOf[h]
    <3>1. call[h].op = "authorize" /\ pc[h] = "authorizing" /\ Answer(h, "authorized")
      BY <1>4, <1>5, <2>1 DEF Awaited
    <3>2. reply'[h] = "authorized"
      BY <3>1 DEF Answer, Waiting, CallsInv
    <3>3. QED
      BY <1>2, <2>1, <3>1, <3>2 DEF Settling
  <2>2. CASE k # KeyOf[h]
    <3>1. PICK g \in Handlers : KeyOf[g] = k /\ Settling(g)
      BY <1>4, <1>5, <2>2 DEF OpenIsSettling
    <3>2. QED
      BY <1>2, <2>2, <3>1 DEF Settling
  <2>3. QED
    BY <2>1, <2>2
<1>6. QED
  BY <1>3, <1>5 DEF OpenIsSettling

(* Each step of the reliable system keeps that, and is one of the store    *)
(* while the catalogue stays.                                              *)
LEMMA ReliableSteps ==
    ASSUME IInv, CallsInv, [ReliableNext]_allVars
    PROVE  /\ [Requests \/ AssetChanges]_vars /\ [GatewayNext]_allVars
           /\ \/ \E h \in Handlers : Serve(h)
              \/ \E h \in Handlers : ReliableOwn(h) /\ UNCHANGED vars
              \/ (AssetChanges \/ UNCHANGED vars) /\ UNCHANGED handlerVars
<1>1. \/ \E h \in Handlers : Serve(h)
      \/ \E h \in Handlers : ReliableOwn(h) /\ UNCHANGED vars
      \/ (AssetChanges \/ UNCHANGED vars) /\ UNCHANGED handlerVars
  BY DEF ReliableNext, Handling, HandlerStep, Upstream, ReliableOwn, allVars
<1>2. [Requests \/ AssetChanges]_vars
  BY <1>1, Answers
<1>3. [GatewayNext]_allVars
  BY DEF ReliableNext, GatewayNext, Others
<1>4. QED
  BY <1>1, <1>2, <1>3

(* Every step of the reliable system keeps open requests attended to.      *)
LEMMA AttendedKept ==
    ASSUME IInv, CallsInv, Awaited, OpenIsSettling, PreauthorizationSuffices,
           WithinEstimate, [ReliableNext]_allVars
    PROVE  Awaited' /\ OpenIsSettling'
<1>1. CASE \E h \in Handlers : Serve(h)
  BY <1>1, ServeAttends
<1>2. CASE \E h \in Handlers : ReliableOwn(h) /\ UNCHANGED vars
  BY <1>2, OwnSettles
<1>3. CASE (AssetChanges \/ UNCHANGED vars) /\ UNCHANGED handlerVars
  <2>1. UNCHANGED usage
    BY <1>3, OtherEffect DEF IInv
  <2>2. QED
    BY <1>3, <2>1 DEF Awaited, OpenIsSettling, Settling, handlerVars
<1>4. QED
  BY <1>1, <1>2, <1>3, ReliableSteps

(* Where nothing is lost and no call uses more than it announced, no       *)
(* handler comes to rest and leaves a request open that nobody else will   *)
(* settle.                                                                 *)
THEOREM HoldsAttendedTo == ReliableSpec /\ []WithinEstimate => []HoldsAttended
<1> DEFINE J == Awaited /\ OpenIsSettling
<1>1. GatewayInit => Init /\ IInv /\ CallsInv /\ J
  <2> SUFFICES ASSUME GatewayInit
               PROVE  Awaited /\ OpenIsSettling
    BY InitCallsInv DEF GatewayInit
  <2>1. Awaited
    BY DEF GatewayInit, Awaited, NoCall
  <2>2. OpenIsSettling
    BY DEF GatewayInit, Init, OpenIsSettling, NoUsage
  <2>3. QED
    BY <2>1, <2>2
<1>2. IInv /\ CallsInv /\ [ReliableNext]_allVars
         => IInv' /\ CallsInv' /\ [Requests \/ AssetChanges]_vars
  BY ReliableSteps, CallsKept
<1>3. ReliableSpec => [](IInv /\ CallsInv) /\ StableSpec
  BY <1>1, <1>2, PTL DEF ReliableSpec, StableSpec
<1>4. IInv /\ CallsInv /\ J /\ PreauthorizationSuffices /\ WithinEstimate
         /\ [ReliableNext]_allVars => J'
  BY AttendedKept
<1>5. J => HoldsAttended
  BY DEF OpenIsSettling, Settling, HoldsAttended, Waiting
<1> HIDE DEF J
<1>6. QED
  BY <1>1, <1>3, <1>4, <1>5, Preauthorized, PTL DEF ReliableSpec
=============================================================================
