---------------------------- MODULE SignIn_proofs ----------------------------
(***************************************************************************)
(* Proofs about SignIn, for any users, openids and unionids, states,       *)
(* callbacks and faults.                                                   *)
(*                                                                         *)
(* The steps of different callbacks interleave, so the inductive invariant *)
(* says of each callback, at each of its steps, what it still may rely on: *)
(* that nobody else holds its state, that the users it names are in the    *)
(* local database, and what its look-up had found.                         *)
(***************************************************************************)
EXTENDS SignIn, Totals_proofs

(* A state that is open is held by no callback, and by one at most.        *)
OneHolder ==
    \A s \in States :
        /\ \A c, d \in Callbacks : Holds(c, s) /\ Holds(d, s) => c = d
        /\ \A c \in Callbacks : Holds(c, s) => state[s] = {}

(* A request to bind is of one user of the local database.                 *)
ForOneUser(request) ==
    /\ request.user \subseteq local
    /\ \A u, v \in request.user : u = v

KnownUsers ==
    /\ \A s \in States : \A row \in state[s] : ForOneUser(row)
    /\ \A c \in Callbacks : Busy(c) => ForOneUser(callback[c])

(* What a callback has found when it goes on.                              *)
LookedUp(c) ==
    /\ At(c, "bind") => callback[c].found \subseteq callback[c].user
    /\ At(c, "create") \/ At(c, "ensure") => callback[c].found = {}
    /\ At(c, "ensure") => WxName[callback[c].identity] \in casdoor
    /\ At(c, "code") => callback[c].found \subseteq local

(* Rows are numbered without gaps, so a new one comes last.                *)
Numbered == \A i \in Rows : bound[i].place <= Cardinality(Rows)

SInv ==
    /\ TypeOK
    /\ OneHolder
    /\ KnownUsers
    /\ \A c \in Callbacks : LookedUp(c)
    /\ Numbered

(* The part of TypeOK about auth_identities.                               *)
Row == [user : {{u} : u \in local}, place : Nat \ {0}]

RowsOK ==
    /\ bound \in [Identities -> {NoRow} \cup Row]
    /\ \A i, j \in Rows : bound[i].place = bound[j].place => i = j

-----------------------------------------------------------------------------
(* Rows.                                                                   *)

(* There are finitely many rows, each of one user of the local database.   *)
LEMMA RowsType ==
    ASSUME RowsOK
    PROVE  /\ Rows \subseteq Identities /\ IsFiniteSet(Rows)
           /\ Cardinality(Rows) \in Nat
           /\ \A i \in Rows : bound[i] \in Row
           /\ \A i \in Identities : i \in Rows <=> bound[i] # NoRow
<1>1. Rows \subseteq Identities
  BY DEF Rows
<1>2. IsFiniteSet(Rows) /\ Cardinality(Rows) \in Nat
  BY <1>1, SignInAssumption, FS_Subset, FS_CardinalityType
<1>3. \A i \in Identities : i \in Rows <=> bound[i] # NoRow
  BY DEF RowsOK, Rows, NoRow, Row
<1>4. QED
  BY <1>1, <1>2, <1>3 DEF RowsOK

(* Binding keeps the place of a row or adds one at the end.                *)
LEMMA BoundKeeps ==
    ASSUME RowsOK, Numbered, NEW i \in Identities, NEW u \in local',
           local \subseteq local', bound' = Bound(i, u)
    PROVE  RowsOK' /\ Numbered'
<1> DEFINE n == Cardinality(Rows)
           place == IF i \in Rows THEN bound[i].place ELSE n + 1
<1>1. /\ Rows \subseteq Identities /\ IsFiniteSet(Rows) /\ n \in Nat
      /\ \A j \in Rows : bound[j] \in Row
      /\ \A j \in Identities : j \in Rows <=> bound[j] # NoRow
  BY RowsType
<1>2. /\ bound \in [Identities -> {NoRow} \cup Row]
      /\ \A j, k \in Rows : bound[j].place = bound[k].place => j = k
      /\ \A j \in Rows : bound[j].place <= n
  BY DEF RowsOK, Numbered
<1>3. bound' = [bound EXCEPT ![i] = [user |-> {u}, place |-> place]]
  BY DEF Bound
<1> HIDE DEF n
<1>4. place \in Nat \ {0}
  BY <1>1 DEF Row
<1> HIDE DEF place
<1>5. /\ bound'[i] = [user |-> {u}, place |-> place]
      /\ \A j \in Identities \ {i} : bound'[j] = bound[j]
  BY <1>2, <1>3
<1>6. bound'[i] \in Row'
  BY <1>4, <1>5 DEF Row
<1>7. Row \subseteq Row'
  BY DEF Row
<1>8. bound' \in [Identities -> {NoRow} \cup Row']
  <2>1. \A j \in Identities : bound'[j] \in {NoRow} \cup Row'
    BY <1>2, <1>5, <1>6, <1>7
  <2>2. bound' = [j \in Identities |-> bound'[j]]
    BY <1>2, <1>3
  <2>3. QED
    BY <2>1, <2>2
<1>9. Rows' = Rows \cup {i}
  BY <1>1, <1>5 DEF Rows
<1>10. CASE i \in Rows
  <2>1. Rows' = Rows /\ \A j \in Rows : bound'[j].place = bound[j].place
    BY <1>1, <1>5, <1>9, <1>10 DEF place
  <2>2. QED
    BY <1>2, <1>8, <2>1 DEF RowsOK, Numbered, n
<1>11. CASE i \notin Rows
  <2>1. Cardinality(Rows') = n + 1
    BY <1>1, <1>9, <1>11, FS_AddElement DEF n
  <2>2. /\ bound'[i].place = n + 1
        /\ \A j \in Rows : bound'[j].place = bound[j].place /\ bound[j].place \in Nat
    BY <1>1, <1>5, <1>11 DEF place, Row
  <2>3. \A j \in Rows' : bound'[j].place <= n + 1
    BY <1>1, <1>2, <1>9, <2>2
  <2>4. \A j \in Rows : bound'[j].place # n + 1
    BY <1>1, <1>2, <2>2
  <2>5. \A j, k \in Rows' : bound'[j].place = bound'[k].place => j = k
    BY <1>2, <1>9, <2>2, <2>4
  <2>6. QED
    BY <1>8, <2>1, <2>3, <2>5 DEF RowsOK, Numbered
<1>12. QED
  BY <1>10, <1>11

(* Unbinding keeps the rows of all others, and their order.                *)
LEMMA UnboundKeeps ==
    ASSUME RowsOK, NEW u, local' = local, bound' = Unbound(u)
    PROVE  /\ RowsOK' /\ Numbered'
           /\ \A i \in Identities :
                 bound'[i].user = IF bound[i].user = {u} THEN {} ELSE bound[i].user
<1> DEFINE kept == {i \in Rows : bound[i].user # {u}}
           upTo(i) == {j \in kept : bound[j].place <= bound[i].place}
           rank(i) == Cardinality(upTo(i))
<1>1. /\ Rows \subseteq Identities /\ IsFiniteSet(Rows)
      /\ \A j \in Rows : bound[j] \in Row
      /\ \A j \in Identities : j \in Rows <=> bound[j] # NoRow
  BY RowsType
<1>2. /\ bound \in [Identities -> {NoRow} \cup Row]
      /\ \A j, k \in Rows : bound[j].place = bound[k].place => j = k
  BY DEF RowsOK
<1>3. kept \subseteq Rows /\ kept \subseteq Identities /\ IsFiniteSet(kept)
  BY <1>1, FS_Subset
<1>4. bound' = [i \in Identities |->
                  IF i \in kept THEN [bound[i] EXCEPT !.place = rank(i)] ELSE NoRow]
  BY DEF Unbound
<1>5. \A i \in kept : bound[i] \in Row /\ bound[i].place \in Nat
  BY <1>1, <1>3 DEF Row
<1>6. ASSUME NEW i \in kept
      PROVE  /\ IsFiniteSet(upTo(i)) /\ i \in upTo(i) /\ upTo(i) \subseteq kept
             /\ rank(i) \in Nat \ {0} /\ rank(i) <= Cardinality(kept)
  <2>1. upTo(i) \subseteq kept /\ i \in upTo(i)
    BY <1>5
  <2> HIDE DEF upTo, kept
  <2>2. IsFiniteSet(upTo(i)) /\ rank(i) <= Cardinality(kept) /\ rank(i) \in Nat
    BY <1>3, <2>1, FS_Subset, FS_CardinalityType
  <2>3. rank(i) # 0
    BY <2>1, <2>2, FS_EmptySet
  <2>4. QED
    BY <2>1, <2>2, <2>3
<1>7. ASSUME NEW i \in kept, NEW j \in kept, bound[i].place < bound[j].place
      PROVE  rank(i) # rank(j)
  <2>1. upTo(i) \subseteq upTo(j) /\ j \notin upTo(i)
    BY <1>5, <1>7
  <2>2. IsFiniteSet(upTo(j)) /\ j \in upTo(j)
    BY <1>6
  <2>3. upTo(i) # upTo(j)
    BY <2>1, <2>2
  <2> HIDE DEF upTo, kept
  <2>4. rank(i) = rank(j) => upTo(i) = upTo(j)
    BY <2>1, <2>2, FS_Subset
  <2>5. QED
    BY <2>3, <2>4
<1> HIDE DEF kept, upTo, rank
<1>8. \A i \in kept : /\ bound'[i] \in Row'
                      /\ bound'[i].place = rank(i)
                      /\ bound'[i].user = bound[i].user
  BY <1>3, <1>4, <1>5, <1>6 DEF Row
<1>9. \A i \in Identities \ kept : bound'[i] = NoRow
  BY <1>4
<1>10. Rows' = kept
  BY <1>3, <1>8, <1>9 DEF Rows, Row, NoRow
<1>11. bound' \in [Identities -> {NoRow} \cup Row']
  <2>1. \A i \in Identities : bound'[i] \in {NoRow} \cup Row'
    BY <1>8, <1>9
  <2>2. bound' = [i \in Identities |-> bound'[i]]
    BY <1>4
  <2>3. QED
    BY <2>1, <2>2
<1>12. \A i, j \in kept : bound'[i].place = bound'[j].place => i = j
  <2> SUFFICES ASSUME NEW i \in kept, NEW j \in kept, i # j
               PROVE  rank(i) # rank(j)
    BY <1>8
  <2>1. bound[i].place # bound[j].place
    BY <1>2, <1>3
  <2>2. bound[i].place < bound[j].place \/ bound[j].place < bound[i].place
    BY <1>5, <2>1
  <2>3. QED
    BY <1>7, <2>2
<1>13. \A i \in Identities :
          bound'[i].user = IF bound[i].user = {u} THEN {} ELSE bound[i].user
  <2> SUFFICES ASSUME NEW i \in Identities
               PROVE  bound'[i].user = IF bound[i].user = {u} THEN {} ELSE bound[i].user
    OBVIOUS
  <2>1. CASE i \in kept
    BY <1>8, <2>1 DEF kept
  <2>2. CASE i \in Rows \ kept
    <3>1. bound[i].user = {u}
      BY <2>2 DEF kept
    <3>2. bound'[i].user = {}
      BY <1>9, <2>2 DEF NoRow
    <3>3. QED
      BY <3>1, <3>2
  <2>3. CASE i \notin Rows
    <3>1. bound[i].user = {} /\ i \notin kept
      BY <1>3, <2>3 DEF Rows
    <3>2. QED
      BY <1>9, <3>1 DEF NoRow
  <2>4. QED
    BY <2>1, <2>2, <2>3
<1>14. QED
  BY <1>6, <1>8, <1>10, <1>11, <1>12, <1>13 DEF RowsOK, Numbered

(* The first of the rows alike: when there is one, an identity leads to    *)
(* the user of one of them.                                                *)
LEMMA LeadsSomewhere ==
    ASSUME RowsOK, NEW i \in Identities, NEW j \in Rows, Alike(j, i)
    PROVE  \E k \in Rows : Alike(k, i) /\ bound[k].user \subseteq LeadsTo(i)
<1> DEFINE alike == {k \in Rows : Alike(k, i)}
           places == {bound[k].place : k \in alike}
<1>1. \A k \in Rows : bound[k].place \in Nat
  BY RowsType DEF Row
<1>2. places \subseteq Nat /\ places # {}
  BY <1>1
<1>3. PICK n \in places : \A m \in places : n <= m
  <2> HIDE DEF places
  <2>1. QED
    BY <1>2, Least
<1>4. PICK k \in alike : \A m \in alike : bound[k].place <= bound[m].place
  BY <1>3
<1>5. bound[k].user \subseteq LeadsTo(i)
  BY <1>4 DEF LeadsTo
<1>6. QED
  BY <1>4, <1>5

(* Whom an identity leads to is a user of the local database.              *)
LEMMA LeadsToUsers ==
    ASSUME RowsOK, NEW i
    PROVE  /\ LeadsTo(i) \subseteq local
           /\ \A u \in LeadsTo(i) : \E j \in Rows : Alike(j, i) /\ bound[j].user = {u}
<1>1. \A j \in Rows : bound[j] \in Row
  BY RowsType
<1>2. ASSUME NEW u \in LeadsTo(i)
      PROVE  u \in local /\ \E j \in Rows : Alike(j, i) /\ bound[j].user = {u}
  <2>1. PICK j \in Rows : Alike(j, i) /\ u \in bound[j].user
    BY <1>2 DEF LeadsTo
  <2>2. QED
    BY <1>1, <2>1 DEF Row
<1>3. QED
  BY <1>2

-----------------------------------------------------------------------------
(* Callbacks.                                                              *)

(* What a callback may be.                                                 *)
Place == {Idle} \cup Fetching \cup Knowing

(* A callback at "fetch" has its state; at a later step it also knows the  *)
(* identity.                                                               *)
LEMMA CallbackType ==
    ASSUME TypeOK, NEW c \in Callbacks
    PROVE  /\ ~ Busy(c) => callback[c] = Idle
           /\ At(c, "fetch") => callback[c] \in Fetching
           /\ \A pc : At(c, pc) /\ pc # "fetch" => callback[c] \in Knowing
           /\ \A s : Holds(c, s) => s \in States
BY DEF TypeOK, Busy, At, Holds, Idle, Fetching, Knowing

(* Go takes the callback on and keeps what it knows.                       *)
LEMMA GoEffect ==
    ASSUME TypeOK, NEW c \in Callbacks, callback[c] \in Knowing,
           NEW pc \in {"look", "bind", "create", "ensure", "code"},
           NEW found \in SUBSET Users, Go(c, pc, found)
    PROVE  /\ callback' \in [Callbacks -> Place]
           /\ \A d \in Callbacks \ {c} : callback'[d] = callback[d]
           /\ callback'[c] \in Knowing
           /\ callback'[c].pc = pc /\ callback'[c].found = found
           /\ callback'[c].state = callback[c].state
           /\ callback'[c].action = callback[c].action
           /\ callback'[c].user = callback[c].user
           /\ callback'[c].identity = callback[c].identity
<1> DEFINE next == [callback[c] EXCEPT !.pc = pc, !.found = found]
<1>1. callback \in [Callbacks -> Place]
  BY DEF TypeOK, Place
<1>2. callback' = [callback EXCEPT ![c] = next]
  BY <1>1 DEF Go
<1>3. /\ next \in Knowing
      /\ next.pc = pc /\ next.found = found
      /\ next.state = callback[c].state /\ next.action = callback[c].action
      /\ next.user = callback[c].user /\ next.identity = callback[c].identity
  BY DEF Knowing
<1> HIDE DEF next
<1>4. callback'[c] = next /\ \A d \in Callbacks \ {c} : callback'[d] = callback[d]
  BY <1>1, <1>2
<1>5. callback' \in [Callbacks -> Place]
  BY <1>1, <1>2, <1>3 DEF Place
<1>6. QED
  BY <1>3, <1>4, <1>5

(* End leaves it idle.                                                     *)
LEMMA EndEffect ==
    ASSUME TypeOK, NEW c \in Callbacks, End(c)
    PROVE  /\ callback' \in [Callbacks -> Place]
           /\ \A d \in Callbacks \ {c} : callback'[d] = callback[d]
           /\ callback'[c] = Idle
BY DEF TypeOK, Place, End

(* What a step of a callback has to establish, when it opens no state and  *)
(* forgets no user: the others go on as before.                            *)
LEMMA CallbackStep ==
    ASSUME SInv, NEW c \in Callbacks,
           state' = state, local \subseteq local', casdoor \subseteq casdoor',
           \A d \in Callbacks \ {c} : callback'[d] = callback[d],
           \/ callback'[c] = Idle
           \/ /\ Busy(c) /\ Busy(c)'
              /\ callback'[c].state = callback[c].state
              /\ callback'[c].user = callback[c].user
              /\ LookedUp(c)'
    PROVE  OneHolder' /\ KnownUsers' /\ \A d \in Callbacks : LookedUp(d)'
<1>1. \A d \in Callbacks : \A s : Holds(d, s)' => Holds(d, s)
  BY DEF Holds, Busy
<1>2. OneHolder'
  BY <1>1 DEF SInv, OneHolder
<1>3. \A request : ForOneUser(request) => ForOneUser(request)'
  BY DEF ForOneUser
<1>4. KnownUsers'
  <2>1. \A s \in States : \A row \in state'[s] : ForOneUser(row)'
    BY <1>3 DEF SInv, KnownUsers
  <2>2. ASSUME NEW d \in Callbacks, Busy(d)'
        PROVE  ForOneUser(callback[d])'
    <3>1. Busy(d) /\ callback'[d].user = callback[d].user
      BY <2>2 DEF Busy
    <3>2. ForOneUser(callback[d])
      BY <3>1 DEF SInv, KnownUsers
    <3>3. QED
      BY <3>1, <3>2 DEF ForOneUser
  <2>3. QED
    BY <2>1, <2>2 DEF KnownUsers
<1>5. ASSUME NEW d \in Callbacks
      PROVE  LookedUp(d)'
  <2>1. CASE d # c
    <3>1. callback'[d] = callback[d] /\ LookedUp(d)
      BY <2>1 DEF SInv
    <3>2. QED
      BY <3>1 DEF LookedUp, At, Busy
  <2>2. CASE callback'[d] = Idle
    BY <2>2 DEF LookedUp, At, Busy
  <2>3. QED
    BY <2>1, <2>2
<1>6. QED
  BY <1>2, <1>4, <1>5

(* Steps outside the callbacks.                                            *)
LEMMA NoCallbackStep ==
    ASSUME SInv, UNCHANGED <<state, callback>>,
           local \subseteq local', casdoor \subseteq casdoor'
    PROVE  OneHolder' /\ KnownUsers' /\ \A d \in Callbacks : LookedUp(d)'
<1>1. OneHolder'
  BY DEF SInv, OneHolder, Holds, Busy
<1>2. KnownUsers'
  BY DEF SInv, KnownUsers, ForOneUser, Busy
<1>3. \A d \in Callbacks : LookedUp(d)'
  BY DEF SInv, LookedUp, At, Busy
<1>4. QED
  BY <1>1, <1>2, <1>3

(* The rows stay as they are when no user is forgotten.                    *)
LEMMA RowsStay ==
    ASSUME RowsOK, Numbered, bound' = bound, local \subseteq local'
    PROVE  RowsOK' /\ Numbered'
<1>1. Row \subseteq Row'
  BY DEF Row
<1>2. Rows' = Rows
  BY DEF Rows
<1>3. QED
  BY <1>1, <1>2 DEF RowsOK, Numbered

(* What makes up the next TypeOK.                                          *)
LEMMA NextType ==
    ASSUME state' \in [States -> {{}} \cup {{s} : s \in State}],
           callback' \in [Callbacks -> Place],
           local' \subseteq casdoor', casdoor' \subseteq Users,
           phone' \subseteq local',
           RowsOK',
           loginCode' \in [LoginCodes -> SUBSET local'],
           signedIn' \subseteq local',
           faults' \in 0 .. MaxFaults
    PROVE  TypeOK'
BY DEF TypeOK, RowsOK, Row, Place

-----------------------------------------------------------------------------
(* The steps.                                                              *)

(* The parts of the invariant, by name.                                    *)
LEMMA SInvParts ==
    ASSUME SInv
    PROVE  /\ TypeOK /\ RowsOK /\ Numbered
           /\ OneHolder /\ KnownUsers /\ \A c \in Callbacks : LookedUp(c)
           /\ state \in [States -> {{}} \cup {{s} : s \in State}]
           /\ callback \in [Callbacks -> Place]
           /\ local \subseteq casdoor /\ casdoor \subseteq Users
           /\ phone \subseteq local
           /\ loginCode \in [LoginCodes -> SUBSET local]
           /\ signedIn \subseteq local
           /\ faults \in 0 .. MaxFaults
BY DEF SInv, TypeOK, RowsOK, Row, Place

(* One callback moves on, or ends.                                         *)
Moves(c) ==
    \/ End(c)
    \/ /\ callback[c] \in Knowing
       /\ \E pc \in {"look", "bind", "create", "ensure", "code"},
             found \in SUBSET Users : Go(c, pc, found) /\ LookedUp(c)'

(* What it may rely on afterwards is what the others had.                  *)
LEMMA MoveEffect ==
    ASSUME SInv, NEW c \in Callbacks, Moves(c),
           state' = state, local \subseteq local', casdoor \subseteq casdoor'
    PROVE  /\ callback' \in [Callbacks -> Place]
           /\ OneHolder' /\ KnownUsers' /\ \A d \in Callbacks : LookedUp(d)'
<1>1. TypeOK
  BY SInvParts
<1>2. CASE End(c)
  <2>1. /\ callback' \in [Callbacks -> Place]
        /\ \A d \in Callbacks \ {c} : callback'[d] = callback[d]
        /\ callback'[c] = Idle
    BY <1>1, <1>2, EndEffect
  <2>2. QED
    BY <2>1, CallbackStep
<1>3. ASSUME callback[c] \in Knowing,
             NEW pc \in {"look", "bind", "create", "ensure", "code"},
             NEW found \in SUBSET Users, Go(c, pc, found), LookedUp(c)'
      PROVE  /\ callback' \in [Callbacks -> Place]
             /\ OneHolder' /\ KnownUsers' /\ \A d \in Callbacks : LookedUp(d)'
  <2>1. /\ callback' \in [Callbacks -> Place]
        /\ \A d \in Callbacks \ {c} : callback'[d] = callback[d]
        /\ callback'[c] \in Knowing
        /\ callback'[c].state = callback[c].state
        /\ callback'[c].user = callback[c].user
    BY <1>1, <1>3, GoEffect
  <2>2. Busy(c) /\ Busy(c)'
    BY <1>3, <2>1 DEF Busy, Idle, Knowing
  <2>3. QED
    BY <1>3, <2>1, <2>2, CallbackStep
<1>4. QED
  BY <1>2, <1>3 DEF Moves

(* A step that does nothing else.                                          *)
LEMMA MoveKeeps ==
    ASSUME SInv, NEW c \in Callbacks, Moves(c),
           UNCHANGED <<state, users, loginCode, signedIn>>,
           faults' \in 0 .. MaxFaults
    PROVE  SInv'
<1>1. /\ TypeOK /\ RowsOK /\ Numbered
      /\ state \in [States -> {{}} \cup {{s} : s \in State}]
      /\ local \subseteq casdoor /\ casdoor \subseteq Users
      /\ phone \subseteq local
      /\ loginCode \in [LoginCodes -> SUBSET local]
      /\ signedIn \subseteq local
  BY SInvParts
<1>2. /\ local' = local /\ casdoor' = casdoor /\ phone' = phone /\ bound' = bound
      /\ state' = state /\ loginCode' = loginCode /\ signedIn' = signedIn
  BY DEF users
<1>3. /\ callback' \in [Callbacks -> Place]
      /\ OneHolder' /\ KnownUsers' /\ \A d \in Callbacks : LookedUp(d)'
  BY <1>2, MoveEffect
<1>4. RowsOK' /\ Numbered'
  BY <1>1, <1>2, RowsStay
<1>5. TypeOK'
  BY <1>1, <1>2, <1>3, <1>4, NextType
<1>6. QED
  BY <1>3, <1>4, <1>5 DEF SInv

(* A new state is open and nobody holds it.                                *)
LEMMA CreateAuthStateKeeps ==
    ASSUME SInv, NEW s \in States, NEW action \in Actions, NEW u \in Users,
           CreateAuthState(s, action, u)
    PROVE  SInv'
<1> DEFINE row == [action |-> action, user |-> IF action = "login" THEN {} ELSE {u}]
<1>1. /\ TypeOK /\ RowsOK /\ Numbered
      /\ OneHolder /\ KnownUsers /\ \A c \in Callbacks : LookedUp(c)
      /\ state \in [States -> {{}} \cup {{t} : t \in State}]
      /\ callback \in [Callbacks -> Place]
      /\ local \subseteq casdoor /\ casdoor \subseteq Users
      /\ phone \subseteq local
      /\ loginCode \in [LoginCodes -> SUBSET local]
      /\ signedIn \subseteq local
      /\ faults \in 0 .. MaxFaults
  BY SInvParts
<1>2. /\ \A c \in Callbacks : ~ Holds(c, s)
      /\ action # "login" => u \in signedIn
      /\ state' = [state EXCEPT ![s] = {row}]
      /\ UNCHANGED <<callback, casdoor, local, phone, bound, loginCode, signedIn, faults>>
  BY DEF CreateAuthState, users
<1>3. row \in State /\ ForOneUser(row)
  BY <1>1, <1>2 DEF State, ForOneUser
<1> HIDE DEF row
<1>4. /\ state'[s] = {row} /\ \A t \in States \ {s} : state'[t] = state[t]
      /\ state' \in [States -> {{}} \cup {{t} : t \in State}]
  BY <1>1, <1>2, <1>3
<1>5. OneHolder'
  BY <1>1, <1>2, <1>4 DEF OneHolder, Holds, Busy
<1>6. KnownUsers'
  BY <1>1, <1>2, <1>3, <1>4 DEF KnownUsers, ForOneUser, Busy
<1>7. \A d \in Callbacks : LookedUp(d)'
  BY <1>1, <1>2 DEF LookedUp, At, Busy
<1>8. RowsOK' /\ Numbered'
  BY <1>1, <1>2, RowsStay
<1>9. TypeOK'
  BY <1>1, <1>2, <1>4, <1>8, NextType
<1>10. QED
  BY <1>5, <1>6, <1>7, <1>8, <1>9 DEF SInv

(* The callback that takes an open state is the only one to hold it.       *)
LEMMA ConsumeAuthStateKeeps ==
    ASSUME SInv, NEW c \in Callbacks, NEW s \in States, ConsumeAuthState(c, s)
    PROVE  SInv'
<1>1. /\ TypeOK /\ RowsOK /\ Numbered
      /\ OneHolder /\ KnownUsers /\ \A d \in Callbacks : LookedUp(d)
      /\ state \in [States -> {{}} \cup {{t} : t \in State}]
      /\ callback \in [Callbacks -> Place]
      /\ local \subseteq casdoor /\ casdoor \subseteq Users
      /\ phone \subseteq local
      /\ loginCode \in [LoginCodes -> SUBSET local]
      /\ signedIn \subseteq local
      /\ faults \in 0 .. MaxFaults
  BY SInvParts
<1>2. PICK row \in state[s] :
         callback' = [callback EXCEPT ![c] =
            [pc |-> "fetch", state |-> s, action |-> row.action, user |-> row.user]]
  BY DEF ConsumeAuthState
<1>3. /\ ~ Busy(c)
      /\ state' = [state EXCEPT ![s] = {}]
      /\ UNCHANGED <<casdoor, local, phone, bound, loginCode, signedIn, faults>>
  BY DEF ConsumeAuthState, users
<1> DEFINE next == [pc |-> "fetch", state |-> s, action |-> row.action, user |-> row.user]
<1>4. row \in State /\ ForOneUser(row)
  BY <1>1 DEF KnownUsers
<1>5. next \in Fetching /\ next.state = s /\ next.pc = "fetch" /\ next.user = row.user
  BY <1>4 DEF Fetching, State
<1>6. callback' = [callback EXCEPT ![c] = next]
  BY <1>2
<1> HIDE DEF next
<1>7. /\ callback'[c] = next /\ \A d \in Callbacks \ {c} : callback'[d] = callback[d]
      /\ callback' \in [Callbacks -> Place]
  BY <1>1, <1>5, <1>6 DEF Place
<1>8. /\ state'[s] = {} /\ \A t \in States \ {s} : state'[t] = state[t]
      /\ state' \in [States -> {{}} \cup {{t} : t \in State}]
  BY <1>1, <1>3
<1>9. \A d \in Callbacks : ~ Holds(d, s)
  BY <1>1, <1>2 DEF OneHolder
<1>10. OneHolder'
  <2>1. \A d \in Callbacks \ {c} : \A t \in States : Holds(d, t)' => Holds(d, t) /\ t # s
    BY <1>7, <1>9 DEF Holds, Busy
  <2>2. \A t \in States : Holds(c, t)' => t = s
    BY <1>5, <1>7 DEF Holds
  <2>3. QED
    BY <1>1, <1>8, <2>1, <2>2 DEF OneHolder
<1>11. KnownUsers'
  <2>1. \A t \in States : \A r \in state'[t] : ForOneUser(r)'
    BY <1>1, <1>3, <1>8 DEF KnownUsers, ForOneUser
  <2>2. \A d \in Callbacks \ {c} : Busy(d)' => ForOneUser(callback[d])'
    BY <1>1, <1>3, <1>7 DEF KnownUsers, ForOneUser, Busy
  <2>3. ForOneUser(callback[c])'
    BY <1>3, <1>4, <1>5, <1>7 DEF ForOneUser
  <2>4. QED
    BY <2>1, <2>2, <2>3 DEF KnownUsers
<1>12. ASSUME NEW d \in Callbacks
       PROVE  LookedUp(d)'
  <2>1. CASE d = c
    BY <1>5, <1>7, <2>1 DEF LookedUp, At
  <2>2. CASE d # c
    BY <1>1, <1>3, <1>7, <2>2 DEF LookedUp, At, Busy
  <2>3. QED
    BY <2>1, <2>2
<1>13. RowsOK' /\ Numbered'
  BY <1>1, <1>3, RowsStay
<1>14. TypeOK'
  BY <1>1, <1>3, <1>7, <1>8, <1>13, NextType
<1>15. QED
  BY <1>10, <1>11, <1>12, <1>13, <1>14 DEF SInv

(* WeChat tells whom the authorisation is of.                              *)
LEMMA FetchKeeps ==
    ASSUME SInv, NEW c \in Callbacks, NEW i \in Identities, fetchWeChatIdentity(c, i)
    PROVE  SInv'
<1> DEFINE next == [pc |-> "look", state |-> callback[c].state,
                    action |-> callback[c].action, user |-> callback[c].user,
                    identity |-> i, found |-> {}]
<1>1. /\ TypeOK /\ RowsOK /\ Numbered
      /\ state \in [States -> {{}} \cup {{t} : t \in State}]
      /\ callback \in [Callbacks -> Place]
      /\ local \subseteq casdoor /\ casdoor \subseteq Users
      /\ phone \subseteq local
      /\ loginCode \in [LoginCodes -> SUBSET local]
      /\ signedIn \subseteq local
      /\ faults \in 0 .. MaxFaults
  BY SInvParts
<1>2. /\ At(c, "fetch") /\ callback[c] \in Fetching
      /\ callback' = [callback EXCEPT ![c] = next]
      /\ UNCHANGED <<state, casdoor, local, phone, bound, loginCode, signedIn, faults>>
  BY <1>1, CallbackType DEF fetchWeChatIdentity, users
<1>3. /\ next \in Knowing /\ next.pc = "look"
      /\ next.state = callback[c].state /\ next.user = callback[c].user
  BY <1>2 DEF Fetching, Knowing
<1> HIDE DEF next
<1>4. /\ callback'[c] = next /\ \A d \in Callbacks \ {c} : callback'[d] = callback[d]
      /\ callback' \in [Callbacks -> Place]
  BY <1>1, <1>2, <1>3 DEF Place
<1>5. Busy(c) /\ Busy(c)' /\ LookedUp(c)'
  BY <1>2, <1>3, <1>4 DEF Busy, Idle, At, LookedUp
<1>6. OneHolder' /\ KnownUsers' /\ \A d \in Callbacks : LookedUp(d)'
  BY <1>2, <1>3, <1>4, <1>5, CallbackStep
<1>7. RowsOK' /\ Numbered'
  BY <1>1, <1>2, RowsStay
<1>8. TypeOK'
  BY <1>1, <1>2, <1>4, <1>7, NextType
<1>9. QED
  BY <1>6, <1>7, <1>8 DEF SInv

(* A look-up to bind, or its failure, and a look-up to log in.             *)
LEMMA LookKeeps ==
    ASSUME SInv, NEW c \in Callbacks, LookToBind(c) \/ FailToLook(c) \/ LookToLogin(c)
    PROVE  SInv'
<1>1. /\ TypeOK /\ RowsOK /\ faults \in 0 .. MaxFaults
      /\ local \subseteq casdoor /\ casdoor \subseteq Users
  BY SInvParts
<1>2. At(c, "look") /\ callback[c] \in Knowing
  <2>1. At(c, "look")
    BY DEF LookToBind, FailToLook, LookToLogin
  <2>2. QED
    BY <1>1, <2>1, CallbackType
<1> DEFINE found == LeadsTo(callback[c].identity)
<1>3. found \subseteq local /\ found \in SUBSET Users
  BY <1>1, LeadsToUsers
<1>4. /\ UNCHANGED <<state, users, loginCode, signedIn>>
      /\ faults' \in 0 .. MaxFaults
  BY <1>1, SignInAssumption DEF LookToBind, FailToLook, LookToLogin
<1>5. ASSUME NEW pc \in {"bind", "create", "code"}, NEW f \in SUBSET Users, Go(c, pc, f),
             pc = "bind" => f \subseteq callback[c].user,
             pc = "create" => f = {},
             pc = "code" => f \subseteq local
      PROVE  Moves(c)
  <2>1. /\ callback'[c].pc = pc /\ callback'[c].found = f
        /\ callback'[c].user = callback[c].user
    BY <1>1, <1>2, <1>5, GoEffect
  <2>2. local' = local
    BY <1>4 DEF users
  <2>3. LookedUp(c)'
    BY <1>5, <2>1, <2>2 DEF LookedUp, At
  <2>4. QED
    BY <1>2, <1>5, <2>3 DEF Moves
<1> HIDE DEF found
<1>6. Moves(c)
  <2>1. CASE LookToBind(c)
    <3>1. IF found \subseteq callback[c].user THEN Go(c, "bind", found) ELSE End(c)
      BY <2>1 DEF LookToBind, found
    <3>2. QED
      BY <1>3, <1>5, <3>1 DEF Moves
  <2>2. CASE FailToLook(c)
    BY <1>5, <2>2 DEF FailToLook
  <2>3. CASE LookToLogin(c)
    <3>1. Go(c, IF found = {} THEN "create" ELSE "code", found)
      BY <2>3 DEF LookToLogin, found
    <3>2. QED
      BY <1>3, <1>5, <3>1
  <2>4. QED
    BY <2>1, <2>2, <2>3
<1>7. QED
  BY <1>4, <1>6, MoveKeeps

(* The identity is bound to the user the state was issued for.             *)
LEMMA BindKeeps ==
    ASSUME SInv, NEW c \in Callbacks, BindWeChatIdentity(c)
    PROVE  SInv'
<1>1. /\ TypeOK /\ RowsOK /\ Numbered
      /\ state \in [States -> {{}} \cup {{t} : t \in State}]
      /\ callback \in [Callbacks -> Place]
      /\ local \subseteq casdoor /\ casdoor \subseteq Users
      /\ phone \subseteq local
      /\ loginCode \in [LoginCodes -> SUBSET local]
      /\ signedIn \subseteq local
      /\ faults \in 0 .. MaxFaults
  BY SInvParts
<1>2. PICK u \in callback[c].user : bound' = Bound(callback[c].identity, u)
  BY DEF BindWeChatIdentity
<1>3. /\ At(c, "bind") /\ End(c)
      /\ UNCHANGED <<state, casdoor, local, phone, loginCode, signedIn, faults>>
  BY DEF BindWeChatIdentity
<1>4. callback[c].identity \in Identities /\ u \in local
  <2>1. callback[c] \in Knowing /\ Busy(c)
    BY <1>1, <1>3, CallbackType DEF At
  <2>2. ForOneUser(callback[c])
    BY <2>1 DEF SInv, KnownUsers
  <2>3. QED
    BY <2>1, <2>2 DEF Knowing, ForOneUser
<1>5. RowsOK' /\ Numbered'
  BY <1>1, <1>2, <1>3, <1>4, BoundKeeps
<1>6. /\ callback' \in [Callbacks -> Place]
      /\ OneHolder' /\ KnownUsers' /\ \A d \in Callbacks : LookedUp(d)'
  BY <1>3, MoveEffect DEF Moves
<1>7. TypeOK'
  BY <1>1, <1>3, <1>5, <1>6, NextType
<1>8. QED
  BY <1>5, <1>6, <1>7 DEF SInv

(* Casdoor has the new user before the local database has it.              *)
LEMMA AddUserKeeps ==
    ASSUME SInv, NEW c \in Callbacks, AddUser(c)
    PROVE  SInv'
<1>1. /\ TypeOK /\ RowsOK /\ Numbered
      /\ state \in [States -> {{}} \cup {{t} : t \in State}]
      /\ callback \in [Callbacks -> Place]
      /\ local \subseteq casdoor /\ casdoor \subseteq Users
      /\ phone \subseteq local
      /\ loginCode \in [LoginCodes -> SUBSET local]
      /\ signedIn \subseteq local
      /\ faults \in 0 .. MaxFaults
  BY SInvParts
<1> DEFINE u == WxName[callback[c].identity]
<1>2. /\ At(c, "create") /\ callback[c] \in Knowing
      /\ casdoor' = casdoor \cup {u} /\ Go(c, "ensure", {})
      /\ UNCHANGED <<state, local, phone, bound, loginCode, signedIn, faults>>
  BY <1>1, CallbackType DEF AddUser
<1>3. u \in Users
  BY <1>2, SignInAssumption DEF Knowing
<1>4. LookedUp(c)'
  <2>1. /\ callback'[c].pc = "ensure" /\ callback'[c].found = {}
        /\ callback'[c].identity = callback[c].identity
    BY <1>1, <1>2, GoEffect
  <2>2. QED
    BY <1>2, <2>1 DEF LookedUp, At
<1>5. /\ callback' \in [Callbacks -> Place]
      /\ OneHolder' /\ KnownUsers' /\ \A d \in Callbacks : LookedUp(d)'
  BY <1>2, <1>4, MoveEffect DEF Moves
<1>6. RowsOK' /\ Numbered'
  BY <1>1, <1>2, RowsStay
<1>7. TypeOK'
  BY <1>1, <1>2, <1>3, <1>5, <1>6, NextType
<1>8. QED
  BY <1>5, <1>6, <1>7 DEF SInv

(* The local database gets the user and the identity together.             *)
LEMMA EnsureKeeps ==
    ASSUME SInv, NEW c \in Callbacks, EnsureWeChatUser(c)
    PROVE  SInv'
<1>1. /\ TypeOK /\ RowsOK /\ Numbered
      /\ state \in [States -> {{}} \cup {{t} : t \in State}]
      /\ callback \in [Callbacks -> Place]
      /\ local \subseteq casdoor /\ casdoor \subseteq Users
      /\ phone \subseteq local
      /\ loginCode \in [LoginCodes -> SUBSET local]
      /\ signedIn \subseteq local
      /\ faults \in 0 .. MaxFaults
  BY SInvParts
<1> DEFINE u == WxName[callback[c].identity]
<1>2. /\ At(c, "ensure") /\ callback[c] \in Knowing
      /\ local' = local \cup {u} /\ bound' = Bound(callback[c].identity, u)
      /\ Go(c, "code", {u})
      /\ UNCHANGED <<state, casdoor, phone, loginCode, signedIn, faults>>
  BY <1>1, CallbackType DEF EnsureWeChatUser
<1>3. callback[c].identity \in Identities /\ u \in casdoor /\ u \in Users
  BY <1>1, <1>2 DEF SInv, LookedUp, Knowing
<1> HIDE DEF u
<1>4. LookedUp(c)'
  <2>1. callback'[c].pc = "code" /\ callback'[c].found = {u}
    BY <1>1, <1>2, <1>3, GoEffect
  <2>2. QED
    BY <1>2, <2>1 DEF LookedUp, At
<1>5. /\ callback' \in [Callbacks -> Place]
      /\ OneHolder' /\ KnownUsers' /\ \A d \in Callbacks : LookedUp(d)'
  BY <1>2, <1>3, <1>4, MoveEffect DEF Moves
<1>6. RowsOK' /\ Numbered'
  BY <1>1, <1>2, <1>3, BoundKeeps
<1>7. local' \subseteq casdoor' /\ phone' \subseteq local' /\ signedIn' \subseteq local'
  BY <1>1, <1>2, <1>3
<1>8. loginCode' \in [LoginCodes -> SUBSET local']
  BY <1>1, <1>2
<1>9. TypeOK'
  BY <1>1, <1>2, <1>5, <1>6, <1>7, <1>8, NextType
<1>10. QED
  BY <1>5, <1>6, <1>9 DEF SInv

(* A login code is for the user the callback has found.                    *)
LEMMA CreateLoginCodeKeeps ==
    ASSUME SInv, NEW c \in Callbacks, NEW l \in LoginCodes, CreateLoginCode(c, l)
    PROVE  SInv'
<1>1. /\ TypeOK /\ RowsOK /\ Numbered
      /\ state \in [States -> {{}} \cup {{t} : t \in State}]
      /\ callback \in [Callbacks -> Place]
      /\ local \subseteq casdoor /\ casdoor \subseteq Users
      /\ phone \subseteq local
      /\ loginCode \in [LoginCodes -> SUBSET local]
      /\ signedIn \subseteq local
      /\ faults \in 0 .. MaxFaults
  BY SInvParts
<1>2. /\ At(c, "code") /\ End(c)
      /\ loginCode' = [loginCode EXCEPT ![l] = callback[c].found]
      /\ UNCHANGED <<state, casdoor, local, phone, bound, signedIn, faults>>
  BY DEF CreateLoginCode, users
<1>3. callback[c].found \subseteq local
  BY <1>2 DEF SInv, LookedUp
<1>4. /\ callback' \in [Callbacks -> Place]
      /\ OneHolder' /\ KnownUsers' /\ \A d \in Callbacks : LookedUp(d)'
  BY <1>2, MoveEffect DEF Moves
<1>5. RowsOK' /\ Numbered'
  BY <1>1, <1>2, RowsStay
<1>6. loginCode' \in [LoginCodes -> SUBSET local']
  BY <1>1, <1>2, <1>3
<1>7. TypeOK'
  BY <1>1, <1>2, <1>4, <1>5, <1>6, NextType
<1>8. QED
  BY <1>4, <1>5, <1>7 DEF SInv

(* A failure only ends a callback.                                         *)
LEMMA FailKeeps ==
    ASSUME SInv, NEW c \in Callbacks, Fail(c)
    PROVE  SInv'
<1>1. faults \in 0 .. MaxFaults
  BY SInvParts
<1>2. /\ Moves(c) /\ faults' \in 0 .. MaxFaults
      /\ UNCHANGED <<state, users, loginCode, signedIn>>
  BY <1>1, SignInAssumption DEF Fail, Moves
<1>3. QED
  BY <1>2, MoveKeeps

(* A state or a code that expires is gone.                                 *)
LEMMA ExpireKeeps ==
    ASSUME SInv, Expire
    PROVE  SInv'
<1>1. /\ TypeOK /\ RowsOK /\ Numbered
      /\ state \in [States -> {{}} \cup {{t} : t \in State}]
      /\ callback \in [Callbacks -> Place]
      /\ local \subseteq casdoor /\ casdoor \subseteq Users
      /\ phone \subseteq local
      /\ loginCode \in [LoginCodes -> SUBSET local]
      /\ signedIn \subseteq local
      /\ faults \in 0 .. MaxFaults
  BY SInvParts
<1>2. /\ UNCHANGED <<callback, casdoor, local, phone, bound, signedIn>>
      /\ faults' = faults + 1 /\ faults < MaxFaults
      /\ \/ /\ \E s \in States : state' = [state EXCEPT ![s] = {}]
            /\ loginCode' = loginCode
         \/ /\ \E l \in LoginCodes : loginCode' = [loginCode EXCEPT ![l] = {}]
            /\ state' = state
  BY DEF Expire, users
<1>3. /\ state' \in [States -> {{}} \cup {{t} : t \in State}]
      /\ \A s \in States : state'[s] = state[s] \/ state'[s] = {}
  BY <1>1, <1>2
<1>4. loginCode' \in [LoginCodes -> SUBSET local']
  BY <1>1, <1>2
<1>5. OneHolder'
  BY <1>2, <1>3 DEF SInv, OneHolder, Holds, Busy
<1>6. KnownUsers'
  BY <1>2, <1>3 DEF SInv, KnownUsers, ForOneUser, Busy
<1>7. \A d \in Callbacks : LookedUp(d)'
  BY <1>2 DEF SInv, LookedUp, At, Busy
<1>8. RowsOK' /\ Numbered'
  BY <1>1, <1>2, RowsStay
<1>9. faults' \in 0 .. MaxFaults
  BY <1>1, <1>2, SignInAssumption
<1>10. TypeOK'
  BY <1>1, <1>2, <1>3, <1>4, <1>8, <1>9, NextType
<1>11. QED
  BY <1>5, <1>6, <1>7, <1>8, <1>10 DEF SInv

(* What users do with their sessions.                                      *)
LEMMA UserStepsKeep ==
    ASSUME SInv,
           \/ \E l \in LoginCodes : exchangeSession(l)
           \/ \E u \in Users : UnbindWeChatIdentity(u) \/ BindPhone(u)
    PROVE  SInv'
<1>1. /\ TypeOK /\ RowsOK /\ Numbered
      /\ state \in [States -> {{}} \cup {{t} : t \in State}]
      /\ callback \in [Callbacks -> Place]
      /\ local \subseteq casdoor /\ casdoor \subseteq Users
      /\ phone \subseteq local
      /\ loginCode \in [LoginCodes -> SUBSET local]
      /\ signedIn \subseteq local
      /\ faults \in 0 .. MaxFaults
  BY SInvParts
<1>2. UNCHANGED <<state, callback, casdoor, local, faults>>
  BY DEF exchangeSession, UnbindWeChatIdentity, BindPhone, users
<1>3. OneHolder' /\ KnownUsers' /\ \A d \in Callbacks : LookedUp(d)'
  BY <1>2, NoCallbackStep
<1>4. RowsOK' /\ Numbered'
  <2>1. CASE bound' = bound
    BY <1>1, <1>2, <2>1, RowsStay
  <2>2. ASSUME NEW u \in Users, bound' = Unbound(u)
        PROVE  RowsOK' /\ Numbered'
    BY <1>1, <1>2, <2>2, UnboundKeeps
  <2>3. QED
    BY <2>1, <2>2 DEF exchangeSession, UnbindWeChatIdentity, BindPhone, users
<1>5. /\ phone' \subseteq local' /\ signedIn' \subseteq local'
      /\ loginCode' \in [LoginCodes -> SUBSET local']
  <2>1. ASSUME NEW l \in LoginCodes, exchangeSession(l)
        PROVE  /\ phone' = phone /\ signedIn' = signedIn \cup loginCode[l]
               /\ loginCode' = [loginCode EXCEPT ![l] = {}]
    BY <2>1 DEF exchangeSession, users
  <2>2. ASSUME NEW u \in Users, UnbindWeChatIdentity(u) \/ BindPhone(u)
        PROVE  /\ phone' \subseteq phone \cup signedIn /\ signedIn' = signedIn
               /\ loginCode' = loginCode
    BY <2>2 DEF UnbindWeChatIdentity, BindPhone
  <2>3. QED
    BY <1>1, <1>2, <2>1, <2>2
<1>6. TypeOK'
  BY <1>1, <1>2, <1>4, <1>5, NextType
<1>7. QED
  BY <1>3, <1>4, <1>6 DEF SInv

(* Initially nothing is open or bound.                                     *)
LEMMA InitSInv ==
    ASSUME Init
    PROVE  SInv
<1>1. Rows = {}
  BY DEF Init, Rows, NoRow
<1>2. TypeOK
  BY <1>1, SignInAssumption DEF Init, TypeOK
<1>3. \A c \in Callbacks : ~ Busy(c)
  BY DEF Init, Busy
<1>4. OneHolder /\ KnownUsers /\ \A c \in Callbacks : LookedUp(c)
  BY <1>3 DEF Init, OneHolder, KnownUsers, LookedUp, Holds, At
<1>5. QED
  BY <1>1, <1>2, <1>4 DEF SInv, Numbered

(* Every step keeps the invariant.                                         *)
LEMMA NextSInv ==
    ASSUME SInv, [Next]_vars
    PROVE  SInv'
<1>1. CASE UNCHANGED vars
  <2>1. UNCHANGED <<state, callback, casdoor, local, phone, bound, loginCode, signedIn, faults>>
    BY <1>1 DEF vars
  <2>2. OneHolder' /\ KnownUsers' /\ \A d \in Callbacks : LookedUp(d)'
    BY <2>1, NoCallbackStep
  <2>3. TypeOK' /\ Numbered'
    BY <2>1 DEF SInv, TypeOK, Numbered, Rows
  <2>4. QED
    BY <2>2, <2>3 DEF SInv
<1>2. ASSUME NEW s \in States, NEW action \in Actions, Start(s, action)
      PROVE  SInv'
  BY <1>2, CreateAuthStateKeeps DEF Start
<1>3. ASSUME NEW s \in States, Return(s)
      PROVE  SInv'
  BY <1>3, ConsumeAuthStateKeeps DEF Return
<1>4. ASSUME NEW c \in Callbacks, Handle(c)
      PROVE  SInv'
  BY <1>4, FetchKeeps, LookKeeps, BindKeeps, AddUserKeeps, EnsureKeeps,
     CreateLoginCodeKeeps DEF Handle
<1>5. ASSUME NEW c \in Callbacks, FailToLook(c) \/ Fail(c)
      PROVE  SInv'
  BY <1>5, LookKeeps, FailKeeps
<1>6. CASE Expire
  BY <1>6, ExpireKeeps
<1>7. CASE \/ \E l \in LoginCodes : exchangeSession(l)
           \/ \E u \in Users : UnbindWeChatIdentity(u) \/ BindPhone(u)
  BY <1>7, UserStepsKeep
<1>8. QED
  BY <1>1, <1>2, <1>3, <1>4, <1>5, <1>6, <1>7 DEF Next

(* Between any two steps of the callbacks the invariant holds.             *)
THEOREM Invariance == Spec => []SInv
<1>1. Init => SInv
  BY InitSInv
<1>2. SInv /\ [Next]_vars => SInv'
  BY NextSInv
<1>3. QED
  BY <1>1, <1>2, PTL DEF Spec

(* Users of the local database are users of Casdoor, and phones, WeChat    *)
(* rows, login codes and sessions are of users of the local database.      *)
THEOREM TypeCorrect == Spec => []TypeOK
<1>1. SInv => TypeOK
  BY DEF SInv
<1>2. QED
  BY <1>1, Invariance, PTL

-----------------------------------------------------------------------------
(* States.                                                                 *)

(* The holders of a state, and the state itself when open, are one at most.*)
LEMMA OneHolderServesOnce ==
    ASSUME SInv
    PROVE  StateServesOnce
<1> SUFFICES ASSUME NEW s \in States
             PROVE  Cardinality({c \in Callbacks : Holds(c, s)})
                       + Cardinality(state[s]) <= 1
  BY DEF StateServesOnce
<1> DEFINE holders == {c \in Callbacks : Holds(c, s)}
<1>1. /\ \A c, d \in holders : c = d
      /\ holders # {} => state[s] = {}
  BY DEF SInv, OneHolder
<1>2. state[s] = {} \/ \E row \in State : state[s] = {row}
  BY DEF SInv, TypeOK
<1> HIDE DEF holders
<1>3. Cardinality({}) = 0 /\ \A x : Cardinality({x}) = 1
  BY FS_EmptySet, FS_Singleton
<1>4. CASE holders = {}
  <2>1. Cardinality(holders) = 0
    BY <1>3, <1>4
  <2>2. Cardinality(state[s]) \in {0, 1}
    BY <1>2, <1>3
  <2>3. QED
    BY <2>1, <2>2 DEF holders
<1>5. CASE holders # {}
  <2>1. PICK c \in holders : holders = {c}
    BY <1>1, <1>5
  <2>2. Cardinality(holders) = 1 /\ Cardinality(state[s]) = 0
    BY <1>1, <1>3, <1>5, <2>1
  <2>3. QED
    BY <2>2 DEF holders
<1>6. QED
  BY <1>4, <1>5

(* However often browsers return with a state, one callback acts on it.    *)
THEOREM ServesOnce == Spec => []StateServesOnce
<1>1. SInv => StateServesOnce
  BY OneHolderServesOnce
<1>2. QED
  BY <1>1, Invariance, PTL

-----------------------------------------------------------------------------
(* Whom identities are bound to.                                           *)

(* The identity of a callback becomes u's.                                 *)
BindsTo(c, u) ==
    /\ At(c, "ensure") \/ (At(c, "bind") /\ u \in callback[c].user)
    /\ callback[c].identity \in Identities
    /\ bound' = Bound(callback[c].identity, u)

(* Rows change by a callback, or when a user with a phone unbinds; phones  *)
(* stay.                                                                   *)
LEMMA RowChanges ==
    ASSUME SInv, [Next]_vars
    PROVE  /\ phone \subseteq phone'
           /\ \/ bound' = bound
              \/ \E c \in Callbacks : \E u \in Users : BindsTo(c, u)
              \/ local' = local /\ \E u \in phone : bound' = Unbound(u)
<1> DEFINE Changes == \/ bound' = bound
                      \/ \E c \in Callbacks : \E u \in Users : BindsTo(c, u)
                      \/ local' = local /\ \E u \in phone : bound' = Unbound(u)
<1>1. TypeOK
  BY DEF SInv
<1>2. CASE UNCHANGED vars
  BY <1>2 DEF vars
<1>3. ASSUME NEW c \in Callbacks, BindWeChatIdentity(c)
      PROVE  phone' = phone /\ \E u \in Users : BindsTo(c, u)
  <2>1. PICK u \in callback[c].user : bound' = Bound(callback[c].identity, u)
    BY <1>3 DEF BindWeChatIdentity
  <2>2. At(c, "bind") /\ phone' = phone
    BY <1>3 DEF BindWeChatIdentity
  <2>3. callback[c] \in Knowing
    BY <1>1, <2>2, CallbackType
  <2>4. callback[c].identity \in Identities /\ u \in Users
    BY <2>1, <2>3 DEF Knowing
  <2>5. QED
    BY <2>1, <2>2, <2>4 DEF BindsTo
<1>4. ASSUME NEW c \in Callbacks, EnsureWeChatUser(c)
      PROVE  phone' = phone /\ \E u \in Users : BindsTo(c, u)
  <2>1. /\ At(c, "ensure") /\ phone' = phone
        /\ bound' = Bound(callback[c].identity, WxName[callback[c].identity])
    BY <1>4 DEF EnsureWeChatUser
  <2>2. callback[c] \in Knowing
    BY <1>1, <2>1, CallbackType
  <2>3. callback[c].identity \in Identities /\ WxName[callback[c].identity] \in Users
    BY <2>2, SignInAssumption DEF Knowing
  <2>4. QED
    BY <2>1, <2>3 DEF BindsTo
<1>5. ASSUME NEW u \in Users, UnbindWeChatIdentity(u)
      PROVE  UNCHANGED <<local, phone>> /\ u \in phone /\ bound' = Unbound(u)
  BY <1>5 DEF UnbindWeChatIdentity
<1>6. ASSUME NEW u \in Users, BindPhone(u)
      PROVE  phone \subseteq phone' /\ bound' = bound
  BY <1>6 DEF BindPhone
<1>7. CASE \/ \E s \in States : Return(s) \/ \E action \in Actions : Start(s, action)
           \/ Expire
           \/ \E l \in LoginCodes : exchangeSession(l)
  BY <1>7 DEF Return, Start, Expire, exchangeSession, CreateAuthState,
     ConsumeAuthState, users
<1>8. ASSUME NEW c \in Callbacks, Handle(c) \/ FailToLook(c) \/ Fail(c)
      PROVE  phone \subseteq phone' /\ Changes
  <2>1. CASE \/ \E i \in Identities : fetchWeChatIdentity(c, i)
             \/ LookToBind(c) \/ LookToLogin(c) \/ FailToLook(c) \/ Fail(c)
             \/ AddUser(c) \/ \E l \in LoginCodes : CreateLoginCode(c, l)
    BY <2>1 DEF fetchWeChatIdentity, LookToBind, LookToLogin, FailToLook, Fail,
       AddUser, CreateLoginCode, users
  <2>2. QED
    BY <1>3, <1>4, <1>8, <2>1 DEF Handle
<1>9. QED
  BY <1>2, <1>5, <1>6, <1>7, <1>8 DEF Next

(* What binding does to each row.                                          *)
LEMMA BindsToEffect ==
    ASSUME SInv, NEW c \in Callbacks, NEW u \in Users, BindsTo(c, u), NEW j \in Identities
    PROVE  /\ j = callback[c].identity => bound'[j].user = {u}
           /\ j # callback[c].identity => bound'[j].user = bound[j].user
<1> DEFINE i == callback[c].identity
           row == [user |-> {u},
                   place |-> IF i \in Rows THEN bound[i].place ELSE Cardinality(Rows) + 1]
<1>1. bound \in [Identities -> {NoRow} \cup Row]
  BY DEF SInv, TypeOK, Row
<1>2. bound' = [bound EXCEPT ![i] = row] /\ i \in Identities
  BY DEF BindsTo, Bound
<1>3. row.user = {u}
  OBVIOUS
<1> HIDE DEF row, i
<1>4. QED
  BY <1>1, <1>2, <1>3 DEF i

(* A callback whose look-up still stands takes nobody's identity.          *)
LEMMA UpToDateTakesNone ==
    ASSUME SInv, NEW c \in Callbacks, NEW v \in Users, BindsTo(c, v), ~ Outdated(c),
           NEW u \in LeadsTo(callback[c].identity)
    PROVE  u = v
<1>1. callback[c].found = LeadsTo(callback[c].identity)
  BY DEF BindsTo, Outdated
<1>2. ~ At(c, "ensure")
  BY <1>1 DEF SInv, LookedUp
<1>3. At(c, "bind") /\ v \in callback[c].user /\ u \in callback[c].user
  BY <1>1, <1>2 DEF BindsTo, SInv, LookedUp
<1>4. ForOneUser(callback[c])
  BY <1>3 DEF SInv, KnownUsers, At
<1>5. QED
  BY <1>3, <1>4 DEF ForOneUser

(* An identity that leads to one user is given to another only by a        *)
(* callback whose look-up no longer stands.                                *)
THEOREM TakenOnlyByOverlapHolds == Spec => TakenOnlyByOverlap
<1> DEFINE Kept == \A i \in Identities, u, v \in Users :
                      /\ u # v
                      /\ LeadsTo(i) = {u}
                      /\ bound[i].user # {v} /\ bound[i].user' = {v}
                      => \E c \in Callbacks : Outdated(c) /\ callback[c].identity = i
<1>1. ASSUME SInv, [Next]_vars
      PROVE  Kept
  <2> SUFFICES ASSUME NEW i \in Identities, NEW u \in Users, NEW v \in Users,
                      u # v, LeadsTo(i) = {u},
                      bound[i].user # {v}, bound'[i].user = {v}
               PROVE  \E c \in Callbacks : Outdated(c) /\ callback[c].identity = i
    OBVIOUS
  <2>1. bound' # bound
    OBVIOUS
  <2>2. ASSUME NEW w \in phone, local' = local, bound' = Unbound(w)
        PROVE  FALSE
    <3>1. RowsOK
      BY <1>1 DEF SInv, TypeOK, RowsOK, Row
    <3>2. bound'[i].user = IF bound[i].user = {w} THEN {} ELSE bound[i].user
      BY <2>2, <3>1, UnboundKeeps
    <3>3. QED
      BY <3>2
  <2>3. PICK c \in Callbacks : \E w \in Users : BindsTo(c, w)
    BY <1>1, <2>1, <2>2, RowChanges
  <2>4. PICK w \in Users : BindsTo(c, w)
    BY <2>3
  <2>5. callback[c].identity = i /\ w = v
    BY <1>1, <2>4, BindsToEffect
  <2>6. Outdated(c)
    BY <1>1, <2>4, <2>5, UpToDateTakesNone
  <2>7. QED
    BY <2>5, <2>6
<1>2. SInv /\ [Next]_vars => [Kept]_vars
  BY <1>1
<1>3. QED
  BY <1>2, Invariance, PTL DEF Spec, TakenOnlyByOverlap

(* While the rows alike are all of one user, each leads to that user.      *)
LEMMA LeadsToItsUser ==
    ASSUME RowsOK, ~ Divided, NEW u, NEW j \in Rows, bound[j].user = {u}
    PROVE  u \in LeadsTo(j)
<1>1. j \in Identities /\ Alike(j, j)
  BY DEF Rows, Alike
<1>2. PICK k \in Rows : Alike(k, j) /\ bound[k].user \subseteq LeadsTo(j)
  BY <1>1, LeadsSomewhere
<1>3. bound[k].user = {u}
  BY <1>2 DEF Divided
<1>4. QED
  BY <1>2, <1>3

(* Who can sign in by phone or WeChat still can after any step, unless     *)
(* callbacks have overlapped.                                              *)
THEOREM WayInStays == Spec => WayInKept
<1> DEFINE Kept == \A u \in local : HasWayIn(u) =>
                      HasWayIn(u)' \/ Divided \/ \E c \in Callbacks : Outdated(c)
<1>1. ASSUME SInv, [Next]_vars
      PROVE  Kept
  <2> SUFFICES ASSUME NEW u \in local, HasWayIn(u), ~ Divided,
                      \A c \in Callbacks : ~ Outdated(c)
               PROVE  HasWayIn(u)'
    OBVIOUS
  <2>1. RowsOK
    BY <1>1 DEF SInv, TypeOK, RowsOK, Row
  <2>2. CASE u \in phone
    BY <1>1, <2>2, RowChanges DEF HasWayIn
  <2>3. ASSUME NEW j \in Identities, bound[j].user = {u}
        PROVE  HasWayIn(u)'
    <3>1. CASE bound' = bound
      BY <2>3, <3>1 DEF HasWayIn
    <3>2. ASSUME NEW v \in phone, local' = local, bound' = Unbound(v)
          PROVE  HasWayIn(u)'
      <4>1. CASE u = v
        BY <1>1, <4>1, RowChanges DEF HasWayIn
      <4>2. CASE u # v
        <5>1. bound'[j].user = {u}
          BY <2>1, <2>3, <3>2, <4>2, UnboundKeeps
        <5>2. QED
          BY <5>1 DEF HasWayIn
      <4>3. QED
        BY <4>1, <4>2
    <3>3. ASSUME NEW c \in Callbacks, NEW v \in Users, BindsTo(c, v)
          PROVE  HasWayIn(u)'
      <4>1. j \in Rows
        BY <2>3 DEF Rows
      <4>2. u \in LeadsTo(j)
        BY <2>1, <2>3, <4>1, LeadsToItsUser
      <4>3. callback[c].identity = j => u = v
        BY <1>1, <3>3, <4>2, UpToDateTakesNone
      <4>4. bound'[j].user = {u}
        BY <1>1, <2>3, <3>3, <4>3, BindsToEffect
      <4>5. QED
        BY <4>4 DEF HasWayIn
    <3>4. QED
      BY <1>1, <3>1, <3>2, <3>3, RowChanges
  <2>4. QED
    BY <2>2, <2>3 DEF HasWayIn
<1>2. SInv /\ [Next]_vars => [Kept]_vars
  BY <1>1
<1>3. QED
  BY <1>2, Invariance, PTL DEF Spec, WayInKept
=============================================================================
