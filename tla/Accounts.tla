------------------------------ MODULE Accounts ------------------------------
(***************************************************************************)
(* Accounts and their phones, at Casdoor and in the local database:        *)
(* registerAccount, bindPhone and loginAccount in internal/billing, and    *)
(* SyncUser, which every request of a user begins with.                    *)
(*                                                                         *)
(* Casdoor has no transaction in common with the database.  A handler      *)
(* looks up the phone at both, consumes the code, changes Casdoor and then *)
(* the local row; it may fail, or its server stop, between any two of      *)
(* these steps, and other handlers run in between.  Besides, a request     *)
(* brings the phone of the moment its JWT was issued, and every JWT counts *)
(* until it expires: a new sign-in does not end the ones before.           *)
(*                                                                         *)
(* A phone is a number, which Casdoor and Koffy write differently but      *)
(* compare in both forms.  Codes are in PhoneCodes, passwords and names    *)
(* are left out, and so is what Koffy sessions do to phones: nothing.      *)
(***************************************************************************)
EXTENDS Naturals, FiniteSets

CONSTANTS
    Users,      \* user names at Casdoor, drawn or derived when created
    Phones,
    Handlers    \* handlers that register or bind a phone

VARIABLES
    known,      \* users of Casdoor
    cphone,     \* their phones there, none or one
    rows,       \* users of the local database
    lphone,     \* and their phones here
    token,      \* the claims to a phone in the JWTs of a user that are valid
    handler     \* where each handler is

(* What nothing in the program remembers, for the properties.              *)
VARIABLES
    torn        \* users for whom a step failed after Casdoor changed, the
                \* save of a phone that another row has by then included, who
                \* bound two phones at a time, or whose request brought an
                \* outdated phone

vars == <<known, cphone, rows, lphone, token, handler, torn>>
casdoor == <<known, cphone>>
local == <<rows, lphone>>

Idle == [pc |-> "idle"]

(* A registration has no user before AddUser names it.                     *)
Handler == [pc : {"casdoor", "update", "verify", "save"}, phone : Phones,
            user : {{}} \cup {{u} : u \in Users}]

Claims == {{}} \cup {{p} : p \in Phones}

TypeOK ==
    /\ rows \subseteq known /\ known \subseteq Users
    /\ cphone \in [Users -> Claims] /\ lphone \in [Users -> Claims]
    /\ \A u, v \in Users : u # v => /\ cphone[u] \cap cphone[v] = {}
                                    /\ lphone[u] \cap lphone[v] = {}
    /\ token \in [Users -> SUBSET Claims]
    /\ handler \in [Handlers -> Handler \cup {Idle}]
    /\ torn \subseteq known

Init ==
    /\ known = {} /\ rows = {}
    /\ cphone = [u \in Users |-> {}] /\ lphone = cphone
    /\ token = [u \in Users |-> {}]
    /\ handler = [h \in Handlers |-> Idle]
    /\ torn = {}

At(h, pc) == handler[h] # Idle /\ handler[h].pc = pc
Go(h, pc) == handler' = [handler EXCEPT ![h].pc = pc]
End(h) == handler' = [handler EXCEPT ![h] = Idle]
PastCasdoor(h) == At(h, "verify") \/ At(h, "save")
WorksFor(h, u) == handler[h] # Idle /\ handler[h].user = {u}

(* phoneAlreadyRegistered, localPhoneBoundToOther, and Casdoor's own rule. *)
Taken(phones, p, user) == \E v \in Users \ user : p \in phones[v]

-----------------------------------------------------------------------------
(* A new user at WeChat's word, at Casdoor and here; SignIn has the steps. *)
AddWeChatUser(u) ==
    /\ u \notin known
    /\ known' = known \cup {u}
    /\ rows' = rows \cup {u}
    /\ UNCHANGED <<cphone, lphone, token, handler, torn>>

(* registerAccount, and bindPhone of a signed-in user: the phone must not  *)
(* be another's in the local database.                                     *)
Begin(h, p, user) ==
    /\ handler[h] = Idle
    /\ user \subseteq rows
    /\ ~ Taken(lphone, p, user)
    /\ handler' = [handler EXCEPT ![h] = [pc |-> "casdoor", phone |-> p, user |-> user]]
    /\ torn' = torn \cup {u \in user : \E g \in Handlers : WorksFor(g, u)}
    /\ UNCHANGED <<casdoor, local, token>>

(* Nor at Casdoor; but a look-up that fails counts as no.                  *)
CheckCasdoor(h) ==
    /\ At(h, "casdoor")
    /\ \/ Taken(cphone, handler[h].phone, handler[h].user) /\ End(h)
       \/ Go(h, "update")
    /\ UNCHANGED <<casdoor, local, token, torn>>

(* The code is consumed, and Casdoor adds a user under a name that is free *)
(* on either side, unless somebody has the phone by now.                   *)
AddUser(h, u) ==
    LET p == handler[h].phone
    IN  /\ At(h, "update") /\ handler[h].user = {}
        /\ u \notin known \cup rows
        /\ IF Taken(cphone, p, {})
           THEN End(h) /\ UNCHANGED casdoor
           ELSE /\ known' = known \cup {u}
                /\ cphone' = [cphone EXCEPT ![u] = {p}]
                /\ handler' = [handler EXCEPT ![h] = [pc |-> "save", phone |-> p, user |-> {u}]]
        /\ UNCHANGED <<local, token, torn>>

(* The code is consumed, and Casdoor changes the phone; if it is taken, it *)
(* says so or does nothing.                                                *)
UpdateUserForColumns(h) ==
    LET p == handler[h].phone
    IN  /\ At(h, "update")
        /\ \E u \in handler[h].user :
              IF Taken(cphone, p, {u})
              THEN (End(h) \/ Go(h, "verify")) /\ UNCHANGED casdoor
              ELSE /\ cphone' = [cphone EXCEPT ![u] = {p}]
                   /\ Go(h, "verify")
                   /\ UNCHANGED known
        /\ UNCHANGED <<local, token, torn>>

(* Faulty variant: nobody looks whether Casdoor did it.                    *)
TrustUpdate(h) ==
    /\ At(h, "verify")
    /\ Go(h, "save")
    /\ UNCHANGED <<casdoor, local, token, torn>>

(* bindPhone asks Casdoor again, and sets the password.                    *)
VerifyUpdate(h) ==
    /\ At(h, "verify")
    /\ \E u \in handler[h].user :
          IF cphone[u] = {handler[h].phone} THEN Go(h, "save") ELSE End(h)
    /\ UNCHANGED <<casdoor, local, token, torn>>

(* Faulty variant: the unique key on the phone is missing.                 *)
SaveAnyway(h) ==
    /\ At(h, "save")
    /\ rows' = rows \cup handler[h].user
    /\ lphone' = [u \in Users |-> IF u \in handler[h].user THEN {handler[h].phone} ELSE lphone[u]]
    /\ End(h)
    /\ UNCHANGED <<casdoor, token, torn>>

(* EnsureRegisteredUser, UpdateUserPhone: a phone of another row is a      *)
(* duplicate, and the transaction rolls back.                              *)
SavePhone(h) ==
    /\ At(h, "save")
    /\ IF Taken(lphone, handler[h].phone, handler[h].user)
       THEN torn' = torn \cup handler[h].user /\ UNCHANGED local
       ELSE /\ rows' = rows \cup handler[h].user
            /\ lphone' = [u \in Users |->
                  IF u \in handler[h].user THEN {handler[h].phone} ELSE lphone[u]]
            /\ UNCHANGED torn
    /\ End(h)
    /\ UNCHANGED <<casdoor, token>>

(* A call fails, or the server stops; Casdoor stays as it is.              *)
Fail(h) ==
    /\ handler[h] # Idle
    /\ torn' = torn \cup (IF PastCasdoor(h) THEN handler[h].user ELSE {})
    /\ End(h)
    /\ UNCHANGED <<casdoor, local, token>>

Handle(h) ==
    \/ CheckCasdoor(h)
    \/ \E u \in Users : AddUser(h, u)
    \/ UpdateUserForColumns(h) \/ VerifyUpdate(h) \/ SavePhone(h)

-----------------------------------------------------------------------------
(* loginAccount: Casdoor issues a JWT with the phone it has.  The handler  *)
(* goes on with SyncUser, which may fail, and ends well all the same.      *)
loginAccount(u) ==
    /\ u \in known
    /\ token' = [token EXCEPT ![u] = @ \cup {cphone[u]}]
    /\ UNCHANGED <<casdoor, local, handler, torn>>

(* The JWTs with a claim expire: ParseJwtToken takes them no more.         *)
Expire(u, claim) ==
    /\ claim \in token[u]
    /\ token' = [token EXCEPT ![u] = @ \ {claim}]
    /\ UNCHANGED <<casdoor, local, handler, torn>>

(* Outdated, and not the word of one who had no phone, which counts for    *)
(* nothing.                                                                *)
Outdated(u, claim) == claim \notin {{}, cphone[u]}

(* Faulty variant: the phone is taken over only when there is none.        *)
SyncNewPhone(u) ==
    /\ \E claim \in token[u] :
          /\ \A p \in claim : ~ Taken(lphone, p, {u})
          /\ lphone' = [lphone EXCEPT ![u] = IF @ = {} THEN claim ELSE @]
          /\ torn' = IF Outdated(u, claim) THEN torn \cup {u} ELSE torn
    /\ rows' = rows \cup {u}
    /\ UNCHANGED <<casdoor, token, handler>>

(* SyncUser with a JWT of Casdoor: makes the row, or takes over the phone. *)
(* If another row has that phone the request fails, whatever it is for.    *)
SyncUser(u) ==
    /\ \E claim \in token[u] :
          /\ \A p \in claim : ~ Taken(lphone, p, {u})
          /\ lphone' = [lphone EXCEPT ![u] = IF claim = {} THEN @ ELSE claim]
          /\ torn' = IF Outdated(u, claim) THEN torn \cup {u} ELSE torn
    /\ rows' = rows \cup {u}
    /\ UNCHANGED <<casdoor, token, handler>>

Next ==
    \/ \E h \in Handlers : \/ \E p \in Phones : \/ Begin(h, p, {})
                                                \/ \E u \in rows : Begin(h, p, {u})
                           \/ Handle(h)
                           \/ Fail(h)
    \/ \E u \in Users : \/ AddWeChatUser(u) \/ loginAccount(u) \/ SyncUser(u)
                        \/ \E claim \in Claims : Expire(u, claim)

Spec == Init /\ [][Next]_vars

(* Handlers end.  JWTs expire, and people sign in again, each time with a  *)
(* request, so that requests are made again and again, whether or not the  *)
(* phone is free each time.                                                *)
FairSpec ==
    /\ Spec
    /\ \A h \in Handlers : WF_vars(Handle(h))
    /\ \A u \in Users : /\ WF_vars(loginAccount(u)) /\ SF_vars(SyncUser(u))
                        /\ \A claim \in Claims : WF_vars(Expire(u, claim))

-----------------------------------------------------------------------------
Agree(u) == u \in known => u \in rows /\ lphone[u] = cphone[u]
Served(u) == \E h \in Handlers : WorksFor(h, u)

(* changePassword sends its code to the phone of the local row.  While     *)
(* handlers of all users run, that phone is nobody else's at Casdoor, but  *)
(* for a user whose own handler is between Casdoor's change and the local  *)
(* row, and for one who is torn: for whom a step failed after Casdoor      *)
(* changed, a save was refused as a duplicate, two bindings ran at once,   *)
(* or a request brought an outdated phone.                                 *)
CodeGoesToOwner ==
    \A u, v \in Users :
        u # v /\ lphone[u] \cap cphone[v] # {} /\ u \notin torn
            => \E h \in Handlers : WorksFor(h, u) /\ PastCasdoor(h)

(* Although nothing is locked from the look-ups to the local row, and      *)
(* whatever happens to others: both sides know a user, with the same       *)
(* phone, when no handler works for the user, unless the user is torn.     *)
SidesAgree == \A u \in Users : u \notin torn /\ ~ Served(u) => Agree(u)

Blocked(u) == \E p \in cphone[u] : Taken(lphone, p, {u})

(* Whatever failed: once handlers rest, a user who signs in again has a    *)
(* local row with the phone of Casdoor, unless another row still has it.   *)
(* Not from the first sign-in on: as long as an older JWT is valid, each   *)
(* request with it puts the older phone back.  In the end they expire.     *)
FollowsCasdoor ==
    <>[](\A h \in Handlers : handler[h] = Idle)
        => \A u \in Users : <>[](Agree(u) \/ Blocked(u))
=============================================================================
