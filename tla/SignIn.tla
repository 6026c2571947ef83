------------------------------- MODULE SignIn -------------------------------
(***************************************************************************)
(* Signing in with WeChat and binding it to an account:                    *)
(* internal/billing/auth_wechat_handlers.go, auth_security_store.go and    *)
(* the session exchange of auth_handlers.go.  What the same callback does  *)
(* for payments is in WeChatPay.                                           *)
(*                                                                         *)
(* A browser is sent to WeChat with a one-time state and comes back with   *)
(* an authorisation.  The callback takes the state, asks WeChat whom the   *)
(* authorisation is of, and then looks up, binds or creates an account.    *)
(* Each access to the database, Casdoor or WeChat is a step: callbacks     *)
(* interleave, and one may fail or its server stop after any of them.      *)
(*                                                                         *)
(* States and codes are random and never come again.  A row that is taken  *)
(* or expired is as good as none, so the model keeps those that are open   *)
(* and issues a value anew once nothing holds it.  Names and avatars, and  *)
(* where the browser is sent in the end, are left out.                     *)
(***************************************************************************)
EXTENDS Naturals, FiniteSets

CONSTANTS
    Users,
    Registered,  \* users with a phone, and a session, from the start
    Identities,  \* openids, each of one app_type
    UnionOf,     \* their unionid, which may be NoUnion
    NoUnion,
    WxName,      \* the account an identity creates: "wx_" + shortHash
    States, LoginCodes,
    Callbacks,
    MaxFaults    \* bound on failures and expiries

Alike(i, j) == i = j \/ (UnionOf[i] = UnionOf[j] /\ UnionOf[i] # NoUnion)

ASSUME SignInAssumption ==
    /\ IsFiniteSet(Identities)
    /\ Registered \subseteq Users
    /\ WxName \in [Identities -> Users \ Registered]
    /\ \A i, j \in Identities : Alike(i, j) => WxName[i] = WxName[j]
    /\ MaxFaults \in Nat

VARIABLES
    state,      \* auth_states that are open
    callback,   \* where each callback is
    casdoor,    \* users Casdoor knows
    local,      \* users of the local database
    phone,      \* those with a phone
    bound,      \* auth_identities: the user of each openid, and where the
                \* row comes in the order of ids
    loginCode,  \* auth_login_codes that are open: whom they sign in
    signedIn,   \* users with a session
    faults

vars == <<state, callback, casdoor, local, phone, bound, loginCode, signedIn, faults>>

users == <<casdoor, local, phone, bound>>

Actions == {"login", "bind"}
Idle == [pc |-> "idle"]
NoRow == [user |-> {}, place |-> 0]

State == [action : Actions, user : SUBSET Users]

(* A callback knows the identity once WeChat has told it.                  *)
Fetching == [pc : {"fetch"}, state : States, action : Actions, user : SUBSET Users]
Knowing == [pc : {"look", "bind", "create", "ensure", "code"},
            state : States, action : Actions, user : SUBSET Users,
            identity : Identities, found : SUBSET Users]

(* The unique key of auth_identities is the openid with its app_type.      *)
Rows == {i \in Identities : bound[i].user # {}}

TypeOK ==
    /\ state \in [States -> {{}} \cup {{s} : s \in State}]
    /\ callback \in [Callbacks -> {Idle} \cup Fetching \cup Knowing]
    /\ local \subseteq casdoor /\ casdoor \subseteq Users
    /\ phone \subseteq local
    /\ bound \in [Identities -> {NoRow} \cup [user : {{u} : u \in local},
                                              place : Nat \ {0}]]
    /\ \A i, j \in Rows : bound[i].place = bound[j].place => i = j
    /\ loginCode \in [LoginCodes -> SUBSET local]
    /\ signedIn \subseteq local
    /\ faults \in 0 .. MaxFaults

Init ==
    /\ state = [s \in States |-> {}]
    /\ callback = [c \in Callbacks |-> Idle]
    /\ casdoor = Registered /\ local = Registered /\ phone = Registered
    /\ bound = [i \in Identities |-> NoRow]
    /\ loginCode = [l \in LoginCodes |-> {}]
    /\ signedIn = Registered
    /\ faults = 0

-----------------------------------------------------------------------------
Busy(c) == callback[c] # Idle
Holds(c, s) == Busy(c) /\ callback[c].state = s
At(c, pc) == Busy(c) /\ callback[c].pc = pc
Go(c, pc, found) == callback' = [callback EXCEPT ![c].pc = pc, ![c].found = found]
End(c) == callback' = [callback EXCEPT ![c] = Idle]

(* FindUserByWeChatIdentity: the row with the lowest id whose openid or    *)
(* unionid is that of the identity.                                        *)
LeadsTo(i) ==
    UNION {bound[j].user : j \in {k \in Rows :
        /\ Alike(k, i)
        /\ \A m \in Rows : Alike(m, i) => bound[k].place <= bound[m].place}}

(* INSERT INTO auth_identities ... ON DUPLICATE KEY UPDATE user_id.        *)
Bound(i, u) ==
    [bound EXCEPT ![i] =
        [user |-> {u},
         place |-> IF i \in Rows THEN bound[i].place ELSE Cardinality(Rows) + 1]]

(* DELETE FROM auth_identities WHERE user_id; the other rows keep their    *)
(* order.                                                                  *)
Unbound(u) ==
    LET kept == {i \in Rows : bound[i].user # {u}}
    IN  [i \in Identities |->
            IF i \in kept
            THEN [bound[i] EXCEPT !.place =
                     Cardinality({j \in kept : bound[j].place <= bound[i].place})]
            ELSE NoRow]

(* startWeChatAuth, wechatWidgetConfig: binding needs a session.           *)
CreateAuthState(s, action, u) ==
    /\ state[s] = {}
    /\ \A c \in Callbacks : ~ Holds(c, s)
    /\ action # "login" => u \in signedIn
    /\ state' = [state EXCEPT ![s] = {[action |-> action,
                                       user |-> IF action = "login" THEN {} ELSE {u}]}]
    /\ UNCHANGED <<callback, users, loginCode, signedIn, faults>>

(* Faulty variant: the state is read and stays open.                       *)
ReadAuthState(c, s) ==
    /\ ~ Busy(c)
    /\ \E row \in state[s] :
          callback' = [callback EXCEPT ![c] =
             [pc |-> "fetch", state |-> s, action |-> row.action, user |-> row.user]]
    /\ UNCHANGED <<state, users, loginCode, signedIn, faults>>

(* The callback takes the state; one that finds none only redirects.       *)
ConsumeAuthState(c, s) ==
    /\ ~ Busy(c)
    /\ \E row \in state[s] :
          callback' = [callback EXCEPT ![c] =
             [pc |-> "fetch", state |-> s, action |-> row.action, user |-> row.user]]
    /\ state' = [state EXCEPT ![s] = {}]
    /\ UNCHANGED <<users, loginCode, signedIn, faults>>

fetchWeChatIdentity(c, i) ==
    /\ At(c, "fetch")
    /\ callback' = [callback EXCEPT ![c] =
          [pc |-> "look", state |-> callback[c].state, action |-> callback[c].action,
           user |-> callback[c].user, identity |-> i, found |-> {}]]
    /\ UNCHANGED <<state, users, loginCode, signedIn, faults>>

(* Faulty variant: binding does not look whose the identity is.            *)
BindUnseen(c) ==
    /\ At(c, "look") /\ callback[c].action = "bind"
    /\ Go(c, "bind", LeadsTo(callback[c].identity))
    /\ UNCHANGED <<state, users, loginCode, signedIn, faults>>

LookToBind(c) ==
    LET found == LeadsTo(callback[c].identity)
    IN  /\ At(c, "look") /\ callback[c].action = "bind"
        /\ IF found \subseteq callback[c].user THEN Go(c, "bind", found) ELSE End(c)
        /\ UNCHANGED <<state, users, loginCode, signedIn, faults>>

(* wechatCallback binds also when the look-up fails.                       *)
FailToLook(c) ==
    /\ At(c, "look") /\ callback[c].action = "bind"
    /\ faults < MaxFaults
    /\ faults' = faults + 1
    /\ Go(c, "bind", {})
    /\ UNCHANGED <<state, users, loginCode, signedIn>>

BindWeChatIdentity(c) ==
    /\ At(c, "bind")
    /\ \E u \in callback[c].user : bound' = Bound(callback[c].identity, u)
    /\ End(c)
    /\ UNCHANGED <<state, casdoor, local, phone, loginCode, signedIn, faults>>

LookToLogin(c) ==
    LET found == LeadsTo(callback[c].identity)
    IN  /\ At(c, "look") /\ callback[c].action = "login"
        /\ Go(c, IF found = {} THEN "create" ELSE "code", found)
        /\ UNCHANGED <<state, users, loginCode, signedIn, faults>>

(* Faulty variant: a user that Casdoor already has is an error.            *)
AddNewUser(c) ==
    /\ At(c, "create")
    /\ IF WxName[callback[c].identity] \in casdoor THEN End(c) ELSE Go(c, "ensure", {})
    /\ casdoor' = casdoor \cup {WxName[callback[c].identity]}
    /\ UNCHANGED <<state, local, phone, bound, loginCode, signedIn, faults>>

(* createWeChatUser at Casdoor, which may have the user from an attempt    *)
(* before: "already exists".                                               *)
AddUser(c) ==
    /\ At(c, "create")
    /\ casdoor' = casdoor \cup {WxName[callback[c].identity]}
    /\ Go(c, "ensure", {})
    /\ UNCHANGED <<state, local, phone, bound, loginCode, signedIn, faults>>

(* Faulty variant: the identity is inserted without its user.              *)
EnsureIdentity(c) ==
    LET u == WxName[callback[c].identity]
    IN  /\ At(c, "ensure")
        /\ bound' = Bound(callback[c].identity, u)
        /\ Go(c, "code", {u})
        /\ UNCHANGED <<state, casdoor, local, phone, loginCode, signedIn, faults>>

(* And here, with the identity, in one transaction.                        *)
EnsureWeChatUser(c) ==
    LET u == WxName[callback[c].identity]
    IN  /\ At(c, "ensure")
        /\ local' = local \cup {u}
        /\ bound' = Bound(callback[c].identity, u)
        /\ Go(c, "code", {u})
        /\ UNCHANGED <<state, casdoor, phone, loginCode, signedIn, faults>>

(* withLoginExchangeCode, withLoginCode.                                   *)
CreateLoginCode(c, l) ==
    /\ At(c, "code")
    /\ loginCode[l] = {}
    /\ loginCode' = [loginCode EXCEPT ![l] = callback[c].found]
    /\ End(c)
    /\ UNCHANGED <<state, users, signedIn, faults>>

(* A call fails, or the server stops: what was done before stays done.     *)
Fail(c) ==
    /\ Busy(c)
    /\ faults < MaxFaults
    /\ faults' = faults + 1
    /\ End(c)
    /\ UNCHANGED <<state, users, loginCode, signedIn>>

Expire ==
    /\ faults < MaxFaults
    /\ faults' = faults + 1
    /\ \/ \E s \in States : state' = [state EXCEPT ![s] = {}] /\ UNCHANGED loginCode
       \/ \E l \in LoginCodes :
             loginCode' = [loginCode EXCEPT ![l] = {}] /\ UNCHANGED state
    /\ UNCHANGED <<callback, users, signedIn>>

-----------------------------------------------------------------------------
(* ConsumeLoginCode and a session for its user.                            *)
exchangeSession(l) ==
    /\ loginCode[l] # {}
    /\ signedIn' = signedIn \cup loginCode[l]
    /\ loginCode' = [loginCode EXCEPT ![l] = {}]
    /\ UNCHANGED <<state, callback, users, faults>>

(* Faulty variant: the phone is not asked for.                             *)
UnbindAtOnce(u) ==
    /\ u \in signedIn
    /\ \E i \in Identities : bound[i].user = {u}
    /\ bound' = Unbound(u)
    /\ UNCHANGED <<state, callback, casdoor, local, phone, loginCode, signedIn, faults>>

UnbindWeChatIdentity(u) ==
    /\ u \in signedIn
    /\ u \in phone
    /\ \E i \in Identities : bound[i].user = {u}
    /\ bound' = Unbound(u)
    /\ UNCHANGED <<state, callback, casdoor, local, phone, loginCode, signedIn, faults>>

(* UpdateUserPhone; how the user gets there is in Accounts.                *)
BindPhone(u) ==
    /\ u \in signedIn \ phone
    /\ phone' = phone \cup {u}
    /\ UNCHANGED <<state, callback, casdoor, local, bound, loginCode, signedIn, faults>>

Handle(c) ==
    \/ \E i \in Identities : fetchWeChatIdentity(c, i)
    \/ LookToBind(c) \/ BindWeChatIdentity(c)
    \/ LookToLogin(c) \/ AddUser(c) \/ EnsureWeChatUser(c)
    \/ \E l \in LoginCodes : CreateLoginCode(c, l)

Start(s, action) == \E u \in Users : CreateAuthState(s, action, u)
Return(s) == \E c \in Callbacks : ConsumeAuthState(c, s)

Next ==
    \/ \E s \in States : \/ \E action \in Actions : Start(s, action)
                         \/ Return(s)
    \/ \E c \in Callbacks : Handle(c) \/ FailToLook(c) \/ Fail(c)
    \/ Expire
    \/ \E l \in LoginCodes : exchangeSession(l)
    \/ \E u \in Users : UnbindWeChatIdentity(u) \/ BindPhone(u)

Spec == Init /\ [][Next]_vars

(* Go schedules callbacks until they end; a person who wants to sign in    *)
(* starts again, returns from WeChat and hands in the code.                *)
FairSpec ==
    /\ Spec
    /\ \A c \in Callbacks : WF_vars(Handle(c))
    /\ \A s \in States : SF_vars(Start(s, "login")) /\ SF_vars(Return(s))
    /\ \A l \in LoginCodes : WF_vars(exchangeSession(l))

-----------------------------------------------------------------------------
(* A state serves one callback: however often the browser returns with it, *)
(* it has one effect.                                                      *)
StateServesOnce ==
    \A s \in States :
        Cardinality({c \in Callbacks : Holds(c, s)}) + Cardinality(state[s]) <= 1

(* What a callback looked up is no longer so, or the look-up had failed.   *)
Outdated(c) ==
    /\ At(c, "bind") \/ At(c, "create") \/ At(c, "ensure")
    /\ callback[c].found # LeadsTo(callback[c].identity)

(* A WeChat identity that leads to one user is never bound to another,     *)
(* except by a callback that overlaps with the one that bound it first:    *)
(* the look-up and the write are transactions apart.                       *)
TakenOnlyByOverlap ==
    [][\A i \in Identities, u, v \in Users :
          /\ u # v
          /\ LeadsTo(i) = {u}
          /\ bound[i].user # {v} /\ bound[i].user' = {v}
          => \E c \in Callbacks : Outdated(c) /\ callback[c].identity = i]_vars

HasWayIn(u) == u \in phone \/ \E i \in Identities : bound[i].user = {u}

(* An overlap has left a unionid with two users.                           *)
Divided == \E i, j \in Rows : Alike(i, j) /\ bound[i].user # bound[j].user

(* Nobody is left with neither a phone nor a WeChat identity to sign in    *)
(* by, except through such an overlap, now or before.                      *)
WayInKept ==
    [][\A u \in local : HasWayIn(u) =>
          HasWayIn(u)' \/ Divided \/ \E c \in Callbacks : Outdated(c)]_vars

(* Whatever failed before, at Casdoor or here, who tries again signs in.   *)
SignInRecovers == []<><<\E l \in LoginCodes : exchangeSession(l)>>_vars
=============================================================================
