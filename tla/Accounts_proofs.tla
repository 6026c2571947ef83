---------------------------- MODULE Accounts_proofs ----------------------------
(***************************************************************************)
(* Proofs about Accounts, for any number of users, phones and handlers.    *)
(*                                                                         *)
(* That the two sides agree when the handlers are done does not stand      *)
(* alone: while they work, a user's sides agree or one handler is about to *)
(* make them agree, and it is the only one that works for that user: so it *)
(* is for every user who is not torn, whatever is of others.               *)
(***************************************************************************)
EXTENDS Accounts, TLAPS

(* Casdoor has a user before anything else is known of that user.          *)
Knows ==
    /\ \A u \in Users : u \notin known => cphone[u] = {} /\ token[u] = {}
    /\ \A h \in Handlers : handler[h] # Idle => handler[h].user \subseteq known

(* Casdoor takes no phone away, so whoever has none never had one.         *)
Remembers ==
    /\ \A u \in Users : cphone[u] = {} => /\ lphone[u] = {}
                                         /\ \A claim \in token[u] : claim = {}
    /\ \A h \in Handlers, u \in Users : WorksFor(h, u) /\ At(h, "save") => cphone[u] # {}

OneAtATime ==
    \A u \in Users \ torn : \A g, h \in Handlers :
        WorksFor(g, u) /\ WorksFor(h, u) => g = h

Finishing(h, u) ==
    /\ WorksFor(h, u)
    /\ PastCasdoor(h)
    /\ cphone[u] = {handler[h].phone}

Converging(u) ==
    /\ Agree(u) \/ \E h \in Handlers : Finishing(h, u)
    /\ \A h \in Handlers : WorksFor(h, u) /\ At(h, "save") => Finishing(h, u)

Converges == \A u \in Users : u \notin torn => Converging(u)

AInv == TypeOK /\ Knows /\ Remembers /\ OneAtATime /\ Converges

-----------------------------------------------------------------------------
(* What a handler's place is.                                              *)
LEMMA Busy ==
    ASSUME TypeOK, NEW h \in Handlers, handler[h] # Idle
    PROVE  /\ handler[h] \in Handler /\ handler[h].phone \in Phones
           /\ handler[h].user \in {{}} \cup {{u} : u \in Users}
           /\ handler[h].pc \in {"casdoor", "update", "verify", "save"}
<1>1. handler[h] \in Handler
  BY DEF TypeOK
<1>2. QED
  BY <1>1 DEF Handler

(* A handler goes on, for the same user and phone.                         *)
LEMMA GoesOn ==
    ASSUME TypeOK, NEW h \in Handlers, handler[h] # Idle,
           NEW pc \in {"casdoor", "update", "verify", "save"}, Go(h, pc)
    PROVE  /\ handler' \in [Handlers -> Handler \cup {Idle}]
           /\ handler'[h] # Idle /\ handler'[h].pc = pc
           /\ handler'[h].phone = handler[h].phone
           /\ handler'[h].user = handler[h].user
           /\ \A g \in Handlers \ {h} : handler'[g] = handler[g]
<1> DEFINE x == [pc |-> pc, phone |-> handler[h].phone, user |-> handler[h].user]
<1>1. handler[h] \in Handler /\ handler \in [Handlers -> Handler \cup {Idle}]
  BY Busy DEF TypeOK
<1>2. x \in Handler /\ x.pc = pc /\ x.phone = handler[h].phone /\ x.user = handler[h].user
  BY <1>1 DEF Handler
<1>3. x # Idle
  BY <1>2 DEF Idle
<1>4. handler' = [handler EXCEPT ![h] = x]
  <2>1. handler' = [handler EXCEPT ![h] = [handler[h] EXCEPT !.pc = pc]]
    BY DEF Go
  <2>2. [handler[h] EXCEPT !.pc = pc] = x
    BY <1>1 DEF Handler
  <2>3. QED
    BY <2>1, <2>2
<1> HIDE DEF x
<1>5. QED
  BY <1>1, <1>2, <1>3, <1>4

(* A handler ends.                                                         *)
LEMMA Ends ==
    ASSUME TypeOK, NEW h \in Handlers, End(h)
    PROVE  /\ handler' \in [Handlers -> Handler \cup {Idle}]
           /\ handler'[h] = Idle
           /\ \A g \in Handlers \ {h} : handler'[g] = handler[g]
BY DEF TypeOK, End

-----------------------------------------------------------------------------
(* Nobody is known at first.                                               *)
LEMMA InitAInv == Init => AInv
<1> SUFFICES ASSUME Init
             PROVE  AInv
  OBVIOUS
<1>1. TypeOK
  BY DEF Init, TypeOK, Claims
<1>2. \A h \in Handlers : handler[h] = Idle
  BY DEF Init
<1>3. Knows /\ Remembers /\ OneAtATime /\ Converges
  BY <1>2 DEF Init, Knows, Remembers, OneAtATime, Converges, Converging, WorksFor, At, Agree
<1>4. QED
  BY <1>1, <1>3 DEF AInv

(* A handler ends before Casdoor has changed for it, or finds that it has   *)
(* not changed, or the states it leaves are torn.                          *)
LEMMA EndKeeps ==
    ASSUME AInv, NEW h \in Handlers, handler[h] # Idle, End(h),
           UNCHANGED <<known, cphone, rows, lphone, token>>,
           torn \subseteq torn', torn' \subseteq known,
           \A u \in Users \ torn' : ~ Finishing(h, u)
    PROVE  AInv'
<1>1. TypeOK /\ Knows /\ Remembers /\ OneAtATime /\ Converges
  BY DEF AInv
<1>2. /\ handler' \in [Handlers -> Handler \cup {Idle}]
      /\ handler'[h] = Idle
      /\ \A g \in Handlers \ {h} : handler'[g] = handler[g]
  BY <1>1, Ends
<1>3. TypeOK'
  BY <1>1, <1>2 DEF TypeOK
<1>4. Knows' /\ Remembers'
  BY <1>1, <1>2 DEF Knows, Remembers, WorksFor, At
<1>5. OneAtATime'
  BY <1>1, <1>2 DEF OneAtATime, WorksFor
<1>6. Converges'
  <2> SUFFICES ASSUME NEW u \in Users, u \notin torn'
               PROVE  Converging(u)'
    BY DEF Converges
  <2>1. Converging(u)
    BY <1>1 DEF Converges
  <2>2. \A g \in Handlers : Finishing(g, u) => Finishing(g, u)'
    BY <1>2 DEF Finishing, WorksFor, PastCasdoor, At
  <2>3. Agree(u) => Agree(u)'
    BY DEF Agree
  <2>4. \A g \in Handlers :
           (WorksFor(g, u) /\ At(g, "save"))' => WorksFor(g, u) /\ At(g, "save")
    BY <1>2 DEF WorksFor, At
  <2>5. QED
    BY <2>1, <2>2, <2>3, <2>4 DEF Converging
<1>7. QED
  BY <1>3, <1>4, <1>5, <1>6 DEF AInv

(* A handler goes on and nothing else changes: what it may be about to     *)
(* finish, it still is.                                                    *)
LEMMA GoKeeps ==
    ASSUME AInv, NEW h \in Handlers, handler[h] # Idle,
           NEW pc \in {"update", "verify", "save"}, Go(h, pc),
           UNCHANGED <<known, cphone, rows, lphone, token, torn>>,
           pc = "update" => ~ PastCasdoor(h),
           pc = "save" => \A u \in handler[h].user : cphone[u] = {handler[h].phone}
    PROVE  AInv'
<1>1. TypeOK /\ Knows /\ Remembers /\ OneAtATime /\ Converges
  BY DEF AInv
<1>2. /\ handler' \in [Handlers -> Handler \cup {Idle}]
      /\ handler'[h] # Idle /\ handler'[h].pc = pc
      /\ handler'[h].phone = handler[h].phone
      /\ handler'[h].user = handler[h].user
      /\ \A g \in Handlers \ {h} : handler'[g] = handler[g]
  BY <1>1, GoesOn
<1>3. TypeOK'
  BY <1>1, <1>2 DEF TypeOK
<1>4. Knows'
  BY <1>1, <1>2 DEF Knows
<1>5. \A g \in Handlers, u \in Users : WorksFor(g, u)' <=> WorksFor(g, u)
  BY <1>2 DEF WorksFor
<1>6. \A g \in Handlers, u \in Users :
         (WorksFor(g, u) /\ At(g, "save"))'
         => \/ WorksFor(g, u) /\ At(g, "save") /\ g # h
            \/ g = h /\ pc = "save" /\ handler[h].user = {u}
  BY <1>2 DEF WorksFor, At
<1>7. Remembers'
  <2>1. \A g \in Handlers, u \in Users :
           (WorksFor(g, u) /\ At(g, "save"))' => cphone[u] # {}
    BY <1>1, <1>6 DEF Remembers
  <2>2. QED
    BY <1>1, <2>1 DEF Remembers
<1>8. OneAtATime'
  BY <1>1, <1>5 DEF OneAtATime
<1>9. Converges'
  <2> SUFFICES ASSUME NEW u \in Users, u \notin torn
               PROVE  Converging(u)'
    BY DEF Converges
  <2>1. Converging(u)
    BY <1>1 DEF Converges
  <2>2. \A g \in Handlers : Finishing(g, u) => Finishing(g, u)'
    BY <1>2 DEF Finishing, WorksFor, PastCasdoor, At
  <2>3. Agree(u) => Agree(u)'
    BY DEF Agree
  <2>4. pc = "save" /\ handler[h].user = {u} => Finishing(h, u)'
    BY <1>2 DEF Finishing, WorksFor, PastCasdoor, At
  <2>5. QED
    BY <1>6, <2>1, <2>2, <2>3, <2>4 DEF Converging
<1>10. QED
  BY <1>3, <1>4, <1>7, <1>8, <1>9 DEF AInv

-----------------------------------------------------------------------------
(* A user whom WeChat vouches for has no phone on either side.             *)
LEMMA AddWeChatUserKeeps == ASSUME AInv, NEW u \in Users, AddWeChatUser(u) PROVE AInv'
<1>1. TypeOK /\ Knows /\ Remembers /\ OneAtATime /\ Converges
  BY DEF AInv
<1>2. /\ u \notin known /\ known' = known \cup {u} /\ rows' = rows \cup {u}
      /\ UNCHANGED <<cphone, lphone, token, handler, torn>>
  BY DEF AddWeChatUser
<1>3. TypeOK'
  BY <1>1, <1>2 DEF TypeOK
<1>4. Knows' /\ Remembers' /\ OneAtATime'
  BY <1>1, <1>2 DEF Knows, Remembers, OneAtATime, WorksFor, At
<1>5. Agree(u)'
  BY <1>1, <1>2 DEF Agree, Knows, Remembers
<1>6. \A v \in Users : v # u /\ Agree(v) => Agree(v)'
  BY <1>2 DEF Agree
<1>7. Converges'
  BY <1>1, <1>2, <1>5, <1>6 DEF Converges, Converging, Finishing, WorksFor, PastCasdoor, At
<1>8. QED
  BY <1>3, <1>4, <1>7 DEF AInv

(* A handler is called.                                                    *)
LEMMA BeginKeeps ==
    ASSUME AInv, NEW h \in Handlers, NEW p \in Phones, NEW user \in SUBSET Users,
           user = {} \/ \E u \in rows : user = {u},
           Begin(h, p, user)
    PROVE  AInv'
<1>1. TypeOK /\ Knows /\ Remembers /\ OneAtATime /\ Converges
  BY DEF AInv
<1> DEFINE x == [pc |-> "casdoor", phone |-> p, user |-> user]
<1>2. x \in Handler /\ x.pc = "casdoor" /\ x.user = user /\ x # Idle
  BY <1>1 DEF Handler, Idle
<1>3. /\ handler[h] = Idle /\ user \subseteq rows
      /\ handler' = [handler EXCEPT ![h] = x]
      /\ torn' = torn \cup {u \in user : \E g \in Handlers : WorksFor(g, u)}
      /\ UNCHANGED <<known, cphone, rows, lphone, token>>
  BY DEF Begin, casdoor, local
<1> HIDE DEF x
<1>4. /\ handler' \in [Handlers -> Handler \cup {Idle}] /\ handler'[h] = x
      /\ \A g \in Handlers \ {h} : handler'[g] = handler[g]
  BY <1>1, <1>2, <1>3 DEF TypeOK
<1>5. TypeOK'
  <2>1. torn' \subseteq known
    BY <1>1, <1>3 DEF TypeOK
  <2>2. QED
    BY <1>1, <1>3, <1>4, <2>1 DEF TypeOK
<1>6. Knows'
  <2>1. user \subseteq known
    BY <1>1, <1>3 DEF TypeOK
  <2>2. QED
    BY <1>1, <1>2, <1>3, <1>4, <2>1 DEF Knows
<1>7. \A g \in Handlers, u \in Users :
         (WorksFor(g, u) /\ At(g, "save"))' => WorksFor(g, u) /\ At(g, "save")
  BY <1>2, <1>4 DEF WorksFor, At
<1>8. Remembers'
  <2>1. \A g \in Handlers, u \in Users :
           (WorksFor(g, u) /\ At(g, "save"))' => cphone[u] # {}
    BY <1>1, <1>7 DEF Remembers
  <2>2. QED
    BY <1>1, <1>3, <2>1 DEF Remembers
<1>9. OneAtATime'
  <2> SUFFICES ASSUME NEW u \in Users \ torn', NEW f \in Handlers, NEW g \in Handlers,
                      WorksFor(f, u)', WorksFor(g, u)'
               PROVE  f = g
    BY DEF OneAtATime
  <2>1. u \notin torn /\ (u \in user => ~ WorksFor(f, u) /\ ~ WorksFor(g, u))
    BY <1>3
  <2>2. CASE f = h \/ g = h
    BY <1>2, <1>4, <2>1, <2>2 DEF WorksFor
  <2>3. CASE f # h /\ g # h
    BY <1>1, <1>4, <2>1, <2>3 DEF OneAtATime, WorksFor
  <2>4. QED
    BY <2>2, <2>3
<1>10. Converges'
  <2> SUFFICES ASSUME NEW u \in Users, u \notin torn'
               PROVE  Converging(u)'
    BY DEF Converges
  <2>1. Converging(u)
    BY <1>1, <1>3 DEF Converges
  <2>2. \A g \in Handlers : Finishing(g, u) => Finishing(g, u)'
    BY <1>3, <1>4 DEF Finishing, WorksFor, PastCasdoor, At
  <2>3. Agree(u) => Agree(u)'
    BY <1>3 DEF Agree
  <2>4. QED
    BY <1>7, <2>1, <2>2, <2>3 DEF Converging
<1>11. QED
  BY <1>5, <1>6, <1>8, <1>9, <1>10 DEF AInv

(* It asks Casdoor about the phone.                                        *)
LEMMA CheckCasdoorKeeps == ASSUME AInv, NEW h \in Handlers, CheckCasdoor(h) PROVE AInv'
<1>1. /\ handler[h] # Idle /\ handler[h].pc = "casdoor"
      /\ End(h) \/ Go(h, "update")
      /\ UNCHANGED <<known, cphone, rows, lphone, token, torn>>
  BY DEF CheckCasdoor, At, casdoor, local
<1>2. CASE End(h)
  BY <1>1, <1>2, EndKeeps DEF Finishing, PastCasdoor, At, AInv, TypeOK
<1>3. CASE Go(h, "update")
  BY <1>1, <1>3, GoKeeps DEF At, PastCasdoor
<1>4. QED
  BY <1>1, <1>2, <1>3

(* Casdoor gives a phone to a user whom one handler works for: either side *)
(* is to follow.                                                           *)
LEMMA GiveKeeps ==
    ASSUME AInv, NEW h \in Handlers, handler[h] # Idle, NEW u \in Users,
           NEW pc \in {"verify", "save"},
           handler[h].user \in {{}, {u}},
           handler[h].user = {} => u \notin known,
           At(h, "update"),
           ~ Taken(cphone, handler[h].phone, {u}),
           known' = known \cup {u},
           cphone' = [cphone EXCEPT ![u] = {handler[h].phone}],
           handler' \in [Handlers -> Handler \cup {Idle}],
           handler'[h] # Idle, handler'[h].pc = pc,
           handler'[h].phone = handler[h].phone, handler'[h].user = {u},
           \A g \in Handlers \ {h} : handler'[g] = handler[g],
           UNCHANGED <<rows, lphone, token, torn>>
    PROVE  AInv'
<1>1. TypeOK /\ Knows /\ Remembers /\ OneAtATime /\ Converges
  BY DEF AInv
<1>2. PICK p \in Phones : p = handler[h].phone
  BY <1>1, Busy
<1>3. /\ cphone \in [Users -> Claims] /\ cphone'[u] = {p}
      /\ \A v \in Users \ {u} : cphone'[v] = cphone[v]
      /\ \A v \in Users \ {u} : p \notin cphone[v]
  BY <1>1, <1>2 DEF TypeOK, Taken
<1>4. TypeOK'
  <2>1. cphone' \in [Users -> Claims]
    BY <1>2, <1>3 DEF Claims
  <2>2. \A v, w \in Users : v # w => cphone'[v] \cap cphone'[w] = {}
    BY <1>1, <1>3 DEF TypeOK
  <2>3. QED
    BY <1>1, <2>1, <2>2 DEF TypeOK
<1>5. Knows'
  BY <1>1, <1>3 DEF Knows
<1>6. \A g \in Handlers, v \in Users :
         WorksFor(g, v) /\ g # h => (v # u \/ u \in torn)
  BY <1>1 DEF Knows, OneAtATime, WorksFor
<1>7. \A g \in Handlers, v \in Users : g # h =>
         /\ WorksFor(g, v)' <=> WorksFor(g, v)
         /\ \A place : At(g, place)' <=> At(g, place)
  BY DEF WorksFor, At
<1>8. \A v \in Users : WorksFor(h, v)' <=> v = u
  BY DEF WorksFor
<1>9. Remembers'
  <2>1. \A v \in Users : cphone'[v] = {} => v # u /\ cphone[v] = {}
    BY <1>3
  <2>2. \A g \in Handlers, v \in Users :
           (WorksFor(g, v) /\ At(g, "save"))' => cphone'[v] # {}
    BY <1>1, <1>7, <1>8, <2>1 DEF Remembers
  <2>3. QED
    BY <1>1, <2>1, <2>2 DEF Remembers
<1>10. OneAtATime'
  BY <1>1, <1>6, <1>7, <1>8 DEF OneAtATime
<1>11. Converges'
  <2> SUFFICES ASSUME NEW v \in Users, v \notin torn
               PROVE  Converging(v)'
    BY DEF Converges
  <2>1. Converging(v) /\ v \notin torn
    BY <1>1 DEF Converges
  <2>2. Finishing(h, u)'
    BY <1>2, <1>3, <1>8 DEF Finishing, PastCasdoor, At
  <2>3. CASE v = u
    <3>1. \A g \in Handlers : WorksFor(g, v)' => g = h
      BY <1>6, <1>7, <2>1, <2>3
    <3>2. QED
      BY <2>2, <2>3, <3>1 DEF Converging
  <2>4. CASE v # u
    <3>1. \A g \in Handlers : Finishing(g, v) => g # h
      BY DEF Finishing, PastCasdoor, At
    <3>2. \A g \in Handlers : Finishing(g, v) => Finishing(g, v)'
      BY <1>3, <1>7, <2>4, <3>1 DEF Finishing, PastCasdoor
    <3>3. Agree(v) => Agree(v)'
      BY <1>3, <2>4 DEF Agree
    <3>4. QED
      BY <1>7, <1>8, <2>1, <2>4, <3>2, <3>3 DEF Converging
  <2>5. QED
    BY <2>3, <2>4
<1>12. QED
  BY <1>4, <1>5, <1>9, <1>10, <1>11 DEF AInv

(* Casdoor adds a user for a registration.                                 *)
LEMMA AddUserKeeps ==
    ASSUME AInv, NEW h \in Handlers, NEW u \in Users, AddUser(h, u)
    PROVE  AInv'
<1>1. /\ handler[h] # Idle /\ At(h, "update") /\ handler[h].pc = "update"
      /\ handler[h].user = {} /\ u \notin known
      /\ UNCHANGED <<rows, lphone, token, torn>>
  BY DEF AddUser, At, local
<1>2. TypeOK
  BY DEF AInv
<1>3. CASE Taken(cphone, handler[h].phone, {})
  <2>1. End(h) /\ UNCHANGED <<known, cphone>>
    BY <1>3 DEF AddUser, casdoor
  <2>2. \A v \in Users : ~ Finishing(h, v)
    BY <1>1 DEF Finishing, PastCasdoor, At
  <2>3. torn' \subseteq known
    BY <1>1, <1>2 DEF TypeOK
  <2>4. QED
    BY <1>1, <2>1, <2>2, <2>3, EndKeeps
<1>4. CASE ~ Taken(cphone, handler[h].phone, {})
  <2> DEFINE x == [pc |-> "save", phone |-> handler[h].phone, user |-> {u}]
  <2>1. /\ known' = known \cup {u}
        /\ cphone' = [cphone EXCEPT ![u] = {handler[h].phone}]
        /\ handler' = [handler EXCEPT ![h] = x]
    BY <1>4 DEF AddUser
  <2>2. handler[h] \in Handler /\ handler[h].phone \in Phones
    BY <1>1, <1>2, Busy
  <2>3. x \in Handler /\ x.pc = "save" /\ x.phone = handler[h].phone /\ x.user = {u}
        /\ x # Idle
    BY <2>2 DEF Handler, Idle
  <2> HIDE DEF x
  <2>4. /\ handler' \in [Handlers -> Handler \cup {Idle}] /\ handler'[h] = x
        /\ \A g \in Handlers \ {h} : handler'[g] = handler[g]
    BY <1>2, <2>1, <2>3 DEF TypeOK
  <2>5. ~ Taken(cphone, handler[h].phone, {u})
    BY <1>4 DEF Taken
  <2>6. QED
    BY <1>1, <2>1, <2>3, <2>4, <2>5, GiveKeeps
<1>5. QED
  BY <1>3, <1>4

(* Casdoor changes a phone, or does not.                                   *)
LEMMA UpdateKeeps ==
    ASSUME AInv, NEW h \in Handlers, UpdateUserForColumns(h)
    PROVE  AInv'
<1>1. /\ handler[h] # Idle /\ At(h, "update") /\ handler[h].pc = "update"
      /\ UNCHANGED <<rows, lphone, token, torn>>
  BY DEF UpdateUserForColumns, At, local
<1>2. TypeOK /\ Knows
  BY DEF AInv
<1>3. PICK u \in handler[h].user :
         IF Taken(cphone, handler[h].phone, {u})
         THEN (End(h) \/ Go(h, "verify")) /\ UNCHANGED casdoor
         ELSE /\ cphone' = [cphone EXCEPT ![u] = {handler[h].phone}]
                    /\ Go(h, "verify")
              /\ UNCHANGED known
  BY DEF UpdateUserForColumns
<1>4. u \in Users /\ handler[h].user = {u} /\ u \in known
  <2>1. handler[h].user \in {{}} \cup {{v} : v \in Users}
    BY <1>1, <1>2, Busy
  <2>2. QED
    BY <1>1, <1>2, <1>3, <2>1 DEF Knows
<1>5. CASE Taken(cphone, handler[h].phone, {u})
  <2>1. UNCHANGED <<known, cphone>>
    BY <1>3, <1>5 DEF casdoor
  <2>2. CASE End(h)
    <3>1. \A v \in Users : ~ Finishing(h, v)
      BY <1>1 DEF Finishing, PastCasdoor, At
    <3>2. torn' \subseteq known
      BY <1>1, <1>2 DEF TypeOK
    <3>3. QED
      BY <1>1, <2>1, <2>2, <3>1, <3>2, EndKeeps
  <2>3. CASE Go(h, "verify")
    BY <1>1, <2>1, <2>3, GoKeeps
  <2>4. QED
    BY <1>3, <1>5, <2>2, <2>3
<1>6. CASE ~ Taken(cphone, handler[h].phone, {u})
  <2>1. /\ cphone' = [cphone EXCEPT ![u] = {handler[h].phone}]
        /\ Go(h, "verify")
        /\ known' = known \cup {u}
    BY <1>3, <1>4, <1>6
  <2>2. /\ handler' \in [Handlers -> Handler \cup {Idle}]
        /\ handler'[h] # Idle /\ handler'[h].pc = "verify"
        /\ handler'[h].phone = handler[h].phone /\ handler'[h].user = {u}
        /\ \A g \in Handlers \ {h} : handler'[g] = handler[g]
    BY <1>1, <1>2, <1>4, <2>1, GoesOn
  <2>3. QED
    BY <1>1, <1>4, <1>6, <2>1, <2>2, GiveKeeps
<1>7. QED
  BY <1>5, <1>6

(* bindPhone looks whether Casdoor has changed the phone.                  *)
LEMMA VerifyKeeps == ASSUME AInv, NEW h \in Handlers, VerifyUpdate(h) PROVE AInv'
<1>1. /\ handler[h] # Idle /\ handler[h].pc = "verify"
      /\ UNCHANGED <<known, cphone, rows, lphone, token, torn>>
  BY DEF VerifyUpdate, At, casdoor, local
<1>2. TypeOK
  BY DEF AInv
<1>3. PICK u \in handler[h].user :
         IF cphone[u] = {handler[h].phone} THEN Go(h, "save") ELSE End(h)
  BY DEF VerifyUpdate
<1>4. u \in Users /\ handler[h].user = {u}
  <2>1. handler[h].user \in {{}} \cup {{v} : v \in Users}
    BY <1>1, <1>2, Busy
  <2>2. QED
    BY <1>3, <2>1
<1>5. CASE cphone[u] = {handler[h].phone}
  BY <1>1, <1>3, <1>4, <1>5, GoKeeps
<1>6. CASE cphone[u] # {handler[h].phone}
  <2>1. \A v \in Users : ~ Finishing(h, v)
    BY <1>4, <1>6 DEF Finishing, WorksFor
  <2>2. torn' \subseteq known
    BY <1>1, <1>2 DEF TypeOK
  <2>3. QED
    BY <1>1, <1>3, <1>6, <2>1, <2>2, EndKeeps
<1>7. QED
  BY <1>5, <1>6

(* The local row follows, unless another has the phone.                    *)
LEMMA SaveKeeps == ASSUME AInv, NEW h \in Handlers, SavePhone(h) PROVE AInv'
<1>1. /\ handler[h] # Idle /\ At(h, "save") /\ End(h)
      /\ UNCHANGED <<known, cphone, token>>
  BY DEF SavePhone, At, casdoor
<1>2. TypeOK /\ Knows /\ Remembers /\ OneAtATime /\ Converges
  BY DEF AInv
<1>3. CASE Taken(lphone, handler[h].phone, handler[h].user)
  <2>1. torn' = torn \cup handler[h].user /\ UNCHANGED <<rows, lphone>>
    BY <1>3 DEF SavePhone, local
  <2>2. torn' \subseteq known
    BY <1>1, <1>2, <2>1 DEF TypeOK, Knows
  <2>3. \A u \in Users \ torn' : ~ Finishing(h, u)
    BY <2>1 DEF Finishing, WorksFor
  <2>4. QED
    BY <1>1, <2>1, <2>2, <2>3, EndKeeps
<1>4. CASE ~ Taken(lphone, handler[h].phone, handler[h].user)
  <2>1. PICK p \in Phones : p = handler[h].phone
    BY <1>1, <1>2, Busy
  <2>2. PICK user \in {{}} \cup {{u} : u \in Users} : user = handler[h].user
    BY <1>1, <1>2, Busy
  <2>3. /\ rows' = rows \cup user
        /\ lphone' = [u \in Users |-> IF u \in user THEN {p} ELSE lphone[u]]
        /\ UNCHANGED torn
    BY <1>4, <2>1, <2>2 DEF SavePhone
  <2>4. /\ handler' \in [Handlers -> Handler \cup {Idle}]
        /\ handler'[h] = Idle
        /\ \A g \in Handlers \ {h} : handler'[g] = handler[g]
    BY <1>1, <1>2, Ends
  <2>5. TypeOK'
    <3>1. lphone \in [Users -> Claims] /\ lphone' \in [Users -> Claims]
      BY <1>2, <2>3 DEF TypeOK, Claims
    <3>2. \A u, v \in Users : u # v => lphone'[u] \cap lphone'[v] = {}
      <4>1. \A v \in Users \ user : p \notin lphone[v]
        BY <1>4, <2>1, <2>2 DEF Taken
      <4>2. \A u, v \in Users : u \in user /\ v \in user => u = v
        BY <2>2
      <4>3. \A u \in Users : lphone'[u] = IF u \in user THEN {p} ELSE lphone[u]
        BY <2>3
      <4>4. QED
        BY <1>2, <4>1, <4>2, <4>3 DEF TypeOK
    <3>3. user \subseteq known
      BY <1>1, <1>2, <2>2 DEF Knows
    <3>4. QED
      BY <1>1, <1>2, <2>3, <2>4, <3>1, <3>2, <3>3 DEF TypeOK
  <2>6. Knows'
    BY <1>1, <1>2, <2>4 DEF Knows
  <2>7. \A u \in user : WorksFor(h, u) /\ u \in Users
    BY <1>1, <2>2 DEF WorksFor
  <2>8. Remembers'
    <3>1. \A u \in Users : cphone[u] = {} => lphone'[u] = {}
      BY <1>1, <1>2, <2>3, <2>7 DEF Remembers
    <3>2. \A g \in Handlers, u \in Users :
             (WorksFor(g, u) /\ At(g, "save"))' => cphone[u] # {}
      BY <1>2, <2>4 DEF Remembers, WorksFor, At
    <3>3. QED
      BY <1>1, <1>2, <3>1, <3>2 DEF Remembers
  <2>9. OneAtATime'
    BY <1>2, <2>3, <2>4 DEF OneAtATime, WorksFor
  <2>10. Converges'
    <3> SUFFICES ASSUME NEW u \in Users, u \notin torn
                 PROVE  Converging(u)'
      BY <1>1, <2>3 DEF Converges
    <3>1. Converging(u)
      BY <1>2 DEF Converges
    <3>2. \A g \in Handlers : g # h /\ Finishing(g, u) => Finishing(g, u)'
      BY <1>1, <2>4 DEF Finishing, WorksFor, PastCasdoor, At
    <3>3. CASE u \in user
      <4>1. cphone[u] = {p}
        BY <1>1, <2>1, <2>7, <3>1, <3>3 DEF Converging, Finishing
      <4>2. Agree(u)'
        BY <1>1, <2>3, <2>7, <3>3, <4>1 DEF Agree
      <4>3. \A g \in Handlers : (WorksFor(g, u) /\ At(g, "save"))' =>
               WorksFor(g, u) /\ At(g, "save") /\ g # h
        BY <2>4 DEF WorksFor, At
      <4>4. QED
        BY <3>1, <3>2, <4>2, <4>3 DEF Converging
    <3>4. CASE u \notin user
      <4>1. ~ Finishing(h, u) /\ (Agree(u) => Agree(u)')
        BY <1>1, <2>2, <2>3, <3>4 DEF Agree, Finishing, WorksFor
      <4>2. \A g \in Handlers : (WorksFor(g, u) /\ At(g, "save"))' =>
               WorksFor(g, u) /\ At(g, "save") /\ g # h
        BY <2>4 DEF WorksFor, At
      <4>3. QED
        BY <3>1, <3>2, <4>1, <4>2 DEF Converging
    <3>5. QED
      BY <3>3, <3>4
  <2>11. QED
    BY <2>5, <2>6, <2>8, <2>9, <2>10 DEF AInv
<1>5. QED
  BY <1>3, <1>4

(* A handler fails: what it was about to finish is torn.                   *)
LEMMA FailKeeps == ASSUME AInv, NEW h \in Handlers, Fail(h) PROVE AInv'
<1>1. /\ handler[h] # Idle /\ End(h)
      /\ torn' = torn \cup (IF PastCasdoor(h) THEN handler[h].user ELSE {})
      /\ UNCHANGED <<known, cphone, rows, lphone, token>>
  BY DEF Fail, casdoor, local
<1>2. torn \subseteq torn' /\ torn' \subseteq known
  BY <1>1 DEF AInv, TypeOK, Knows
<1>3. \A u \in Users \ torn' : ~ Finishing(h, u)
  BY <1>1 DEF Finishing, WorksFor
<1>4. QED
  BY <1>1, <1>2, <1>3, EndKeeps

(* Casdoor issues a JWT, or one expires: the phones stay.                  *)
LEMMA TokensKeep ==
    ASSUME AInv, NEW u \in Users,
           loginAccount(u) \/ \E claim \in Claims : Expire(u, claim)
    PROVE  AInv'
<1>1. TypeOK /\ Knows /\ Remembers /\ OneAtATime /\ Converges
  BY DEF AInv
<1>2. UNCHANGED <<known, cphone, rows, lphone, handler, torn>>
  BY DEF loginAccount, Expire, casdoor, local
<1>3. /\ token' \in [Users -> SUBSET Claims]
      /\ \A v \in Users : /\ token'[v] \subseteq token[v] \cup {cphone[v]}
                          /\ v \notin known => token'[v] = {}
  <2>1. cphone[u] \in Claims /\ token \in [Users -> SUBSET Claims]
    BY <1>1 DEF TypeOK
  <2>2. CASE loginAccount(u)
    BY <1>1, <2>1, <2>2 DEF loginAccount, Knows
  <2>3. CASE \E claim \in Claims : Expire(u, claim)
    BY <1>1, <2>1, <2>3 DEF Expire, Knows
  <2>4. QED
    BY <2>2, <2>3
<1>4. TypeOK'
  BY <1>1, <1>2, <1>3 DEF TypeOK
<1>5. Knows' /\ Remembers'
  BY <1>1, <1>2, <1>3 DEF Knows, Remembers, WorksFor, At
<1>6. OneAtATime' /\ Converges'
  BY <1>1, <1>2
     DEF OneAtATime, Converges, Converging, Finishing, WorksFor, PastCasdoor, At, Agree
<1>7. QED
  BY <1>4, <1>5, <1>6 DEF AInv

(* A request takes the phone of its JWT over.                              *)
LEMMA SyncKeeps == ASSUME AInv, NEW u \in Users, SyncUser(u) PROVE AInv'
<1>1. TypeOK /\ Knows /\ Remembers /\ OneAtATime /\ Converges
  BY DEF AInv
<1>2. PICK claim \in token[u] :
         /\ \A p \in claim : ~ Taken(lphone, p, {u})
         /\ lphone' = [lphone EXCEPT ![u] = IF claim = {} THEN lphone[u] ELSE claim]
         /\ torn' = IF Outdated(u, claim) THEN torn \cup {u} ELSE torn
  BY DEF SyncUser
<1>3. /\ rows' = rows \cup {u} /\ torn \subseteq torn'
      /\ UNCHANGED <<known, cphone, token, handler>>
  BY <1>2 DEF SyncUser, casdoor
<1>4. claim \in Claims /\ u \in known /\ (cphone[u] = {} => claim = {})
  BY <1>1 DEF TypeOK, Knows, Remembers
<1>5. /\ lphone \in [Users -> Claims]
      /\ lphone'[u] = IF claim = {} THEN lphone[u] ELSE claim
      /\ \A v \in Users \ {u} : lphone'[v] = lphone[v]
  BY <1>1, <1>2 DEF TypeOK
<1>6. TypeOK'
  <2>1. lphone' \in [Users -> Claims]
    BY <1>2, <1>4, <1>5
  <2>2. \A v \in Users \ {u} : claim \cap lphone[v] = {}
    BY <1>2 DEF Taken
  <2>3. \A v, w \in Users : v # w => lphone'[v] \cap lphone'[w] = {}
    BY <1>1, <1>5, <2>2 DEF TypeOK
  <2>4. torn' \subseteq known
    BY <1>1, <1>2, <1>4 DEF TypeOK
  <2>5. QED
    BY <1>1, <1>3, <1>4, <2>1, <2>3, <2>4 DEF TypeOK
<1>7. Knows' /\ Remembers'
  BY <1>1, <1>3, <1>4, <1>5 DEF Knows, Remembers, WorksFor, At
<1>8. OneAtATime'
  BY <1>1, <1>3 DEF OneAtATime, WorksFor
<1>9. Converges'
  <2> SUFFICES ASSUME NEW v \in Users, v \notin torn'
               PROVE  Converging(v)'
    BY DEF Converges
  <2>1. v \notin torn /\ (v = u => ~ Outdated(u, claim))
    BY <1>2, <1>3
  <2>2. Converging(v)
    BY <1>1, <2>1 DEF Converges
  <2>3. \A g \in Handlers :
           /\ Finishing(g, v) => Finishing(g, v)'
           /\ (WorksFor(g, v) /\ At(g, "save"))' => WorksFor(g, v) /\ At(g, "save")
    BY <1>3 DEF Finishing, WorksFor, PastCasdoor, At
  <2>4. Agree(v) => Agree(v)'
    <3>1. CASE v = u
      BY <1>3, <1>5, <2>1, <3>1 DEF Agree, Outdated
    <3>2. CASE v # u
      BY <1>3, <1>5, <3>2 DEF Agree
    <3>3. QED
      BY <3>1, <3>2
  <2>5. QED
    BY <2>2, <2>3, <2>4 DEF Converging
<1>10. QED
  BY <1>6, <1>7, <1>8, <1>9 DEF AInv

-----------------------------------------------------------------------------
(* The invariant is inductive.                                             *)
LEMMA NextKeeps == ASSUME AInv, [Next]_vars PROVE AInv'
<1>1. CASE \E h \in Handlers, p \in Phones : Begin(h, p, {}) \/ \E u \in rows : Begin(h, p, {u})
  <2>1. PICK h \in Handlers, p \in Phones :
           Begin(h, p, {}) \/ \E u \in rows : Begin(h, p, {u})
    BY <1>1
  <2>2. rows \subseteq Users
    BY DEF AInv, TypeOK
  <2>3. CASE Begin(h, p, {})
    BY <2>3, BeginKeeps
  <2>4. CASE \E u \in rows : Begin(h, p, {u})
    <3>1. PICK u \in rows : Begin(h, p, {u})
      BY <2>4
    <3>2. {u} \in SUBSET Users /\ \E v \in rows : {u} = {v}
      BY <2>2
    <3>3. QED
      BY <3>1, <3>2, BeginKeeps
  <2>5. QED
    BY <2>1, <2>3, <2>4
<1>2. CASE \E h \in Handlers : Handle(h)
  BY <1>2, CheckCasdoorKeeps, AddUserKeeps, UpdateKeeps, VerifyKeeps, SaveKeeps DEF Handle
<1>3. CASE \E h \in Handlers : Fail(h)
  BY <1>3, FailKeeps
<1>4. CASE \E u \in Users : \/ AddWeChatUser(u) \/ loginAccount(u) \/ SyncUser(u)
                          \/ \E claim \in Claims : Expire(u, claim)
  BY <1>4, AddWeChatUserKeeps, TokensKeep, SyncKeeps
<1>5. CASE UNCHANGED vars
  <2>1. UNCHANGED <<known, cphone, rows, lphone, token, handler, torn>>
    BY <1>5 DEF vars
  <2>2. TypeOK' /\ Knows' /\ Remembers'
    BY <2>1 DEF AInv, TypeOK, Knows, Remembers, WorksFor, At
  <2>3. OneAtATime' /\ Converges'
    BY <2>1 DEF AInv, OneAtATime, Converges, Converging, Finishing, WorksFor,
                PastCasdoor, At, Agree
  <2>4. QED
    BY <2>2, <2>3 DEF AInv
<1>6. QED
  BY <1>1, <1>2, <1>3, <1>4, <1>5 DEF Next

(* The inductive invariant: Casdoor knows first and takes no phone away;   *)
(* for a user who is not torn one handler works at a time, and what it     *)
(* does converges.                                                         *)
THEOREM AccountsInvariance == Spec => []AInv
<1>1. Init => AInv
  BY InitAInv
<1>2. AInv /\ [Next]_vars => AInv'
  BY NextKeeps
<1>3. QED
  BY <1>1, <1>2, PTL DEF Spec

(* Users, phones and handlers keep their types; on either side a phone is  *)
(* of one user.                                                            *)
THEOREM AccountsTypeCorrect == Spec => []TypeOK
<1>1. AInv => TypeOK
  BY DEF AInv
<1>2. QED
  BY <1>1, AccountsInvariance, PTL

(* However handlers and requests of all users interleave: the local phone  *)
(* of a user who is not torn is nobody else's at Casdoor, but while the    *)
(* user's own handler is between Casdoor's change and the local row.       *)
THEOREM OwnersGetCodes == Spec => []CodeGoesToOwner
<1>1. ASSUME AInv PROVE CodeGoesToOwner
  <2> SUFFICES ASSUME NEW u \in Users, NEW v \in Users, u # v, u \notin torn,
                      lphone[u] \cap cphone[v] # {}
               PROVE  \E h \in Handlers : WorksFor(h, u) /\ PastCasdoor(h)
    BY DEF CodeGoesToOwner
  <2>1. cphone[u] \cap cphone[v] = {}
    BY <1>1 DEF AInv, TypeOK
  <2>2. u \in known
    BY <1>1 DEF AInv, Knows, Remembers
  <2>3. ~ Agree(u)
    BY <2>1, <2>2 DEF Agree
  <2>4. QED
    BY <1>1, <2>3 DEF AInv, Converges, Converging, Finishing
<1>2. QED
  BY <1>1, AccountsInvariance, PTL

(* A user who is not torn is the same on both sides when no handler works  *)
(* for that user, whatever becomes of others.                              *)
THEOREM SidesMeet == Spec => []SidesAgree
<1>1. AInv => SidesAgree
  BY DEF AInv, Converges, Converging, SidesAgree, Served, Finishing
<1>2. QED
  BY <1>1, AccountsInvariance, PTL
=============================================================================
