----------------------------- MODULE PhoneCodes -----------------------------
(***************************************************************************)
(* Verification codes sent to a phone.                                     *)
(* CreatePhoneVerificationCode and ConsumePhoneVerificationCode of         *)
(* internal/billing/registration_store.go, and the handlers around them in *)
(* auth_register_handlers.go and auth_account_handlers.go.                 *)
(*                                                                         *)
(* A handler that sends a code reads the clock, then the latest code, then *)
(* inserts a row; nothing is locked in between, so handlers interleave     *)
(* here.  A handler that takes a code reads the clock, then does the rest  *)
(* in one transaction that locks the row, which is one step.  What the     *)
(* handlers check before, and do with a code that is accepted, is in       *)
(* Accounts.  A database error ends a handler and leaves the rows alone,   *)
(* but for one: the error of the UPDATE that counts a wrong answer is      *)
(* ignored, so the answer is told wrong and not counted.                   *)
(***************************************************************************)
EXTENDS Naturals, Sequences, FiniteSetsExt

CONSTANTS
    Phones,
    Purposes,    \* phonePurposeRegister and its likes
    Codes,       \* what numericCode may draw
    Senders,     \* handlers that send codes
    Takers,      \* handlers that take them
    Throttle,    \* the minute between two codes
    Lifetime,    \* the ten minutes a code is good for
    MaxAttempts, \* wrong answers that lock a code
    MaxCodes,    \* bound on the rows
    MaxFaults,   \* bound on the wrong answers of a row that are not counted
    MaxTime      \* bound on the clock

ASSUME PhoneCodesAssumption ==
    /\ {Throttle, Lifetime, MaxAttempts} \subseteq Nat \ {0}
    /\ {MaxCodes, MaxFaults, MaxTime} \subseteq Nat
    /\ IsFiniteSet(Senders)

VARIABLES
    clock,
    rows,    \* phone_verification_codes, in the order of ids
    sender,  \* where each sending handler is
    taker    \* where each taking handler is

(* What the rows do not remember, for the properties.                      *)
VARIABLES
    wrong,   \* by row, how many answers were compared with it and told wrong
    missed   \* and how many of them were not counted, for an error

history == <<wrong, missed>>
vars == <<clock, rows, sender, taker, history>>

(* consumedAt is NULL, here empty, or the time.                            *)
Row == [phone : Phones, purpose : Purposes, code : Codes, created : Nat,
        expires : Nat, attempts : Nat, consumedAt : SUBSET Nat]

Resting == [pc |-> "idle"]

Sending == [pc : {"asked", "cleared"}, phone : Phones, purpose : Purposes, now : Nat]
Taking == [pc : {"asked"}, phone : Phones, purpose : Purposes, code : Codes, now : Nat]

TypeOK ==
    /\ clock \in 0 .. MaxTime
    /\ rows \in Seq(Row) /\ Len(rows) <= MaxCodes
    /\ sender \in [Senders -> Sending \cup {Resting}]
    /\ taker \in [Takers -> Taking \cup {Resting}]
    /\ wrong \in [1 .. MaxCodes -> 0 .. (MaxAttempts + MaxFaults)]
    /\ missed \in [1 .. MaxCodes -> 0 .. MaxFaults]

Init ==
    /\ clock = 0
    /\ rows = <<>>
    /\ sender = [s \in Senders |-> Resting]
    /\ taker = [t \in Takers |-> Resting]
    /\ wrong = [i \in 1 .. MaxCodes |-> 0]
    /\ missed = [i \in 1 .. MaxCodes |-> 0]

Tick ==
    /\ clock < MaxTime
    /\ clock' = clock + 1
    /\ UNCHANGED <<rows, sender, taker, history>>

(* The rows that ORDER BY id DESC LIMIT 1 chooses from.                    *)
Unconsumed(phone, purpose) ==
    {i \in DOMAIN rows : /\ rows[i].phone = phone /\ rows[i].purpose = purpose
                         /\ rows[i].consumedAt = {}}

Latest(phone, purpose) == {Max(S) : S \in {Unconsumed(phone, purpose)} \ {{}}}

(* A handler is called and reads the clock.                                *)
AskForCode(s, phone, purpose) ==
    /\ sender[s] = Resting
    /\ sender' = [sender EXCEPT ![s] =
                     [pc |-> "asked", phone |-> phone, purpose |-> purpose, now |-> clock]]
    /\ UNCHANGED <<clock, rows, taker, history>>

(* Faulty variant: the clocks are compared without the minute.             *)
TooSoonAtOnce(s) ==
    \E i \in Latest(sender[s].phone, sender[s].purpose) :
        sender[s].now < rows[i].created

TooSoon(s) ==
    \E i \in Latest(sender[s].phone, sender[s].purpose) :
        sender[s].now < rows[i].created + Throttle

(* It reads the latest code; ErrVerificationTooSoon ends it.                *)
CheckThrottle(s) ==
    /\ sender[s].pc = "asked"
    /\ sender' = [sender EXCEPT ![s] = IF TooSoon(s) THEN Resting ELSE [@ EXCEPT !.pc = "cleared"]]
    /\ UNCHANGED <<clock, rows, taker, history>>

(* It inserts a row, which the database dates, and texts the code; when    *)
(* that fails the row stays.                                               *)
InsertCode(s, code) ==
    /\ sender[s].pc = "cleared"
    /\ Len(rows) < MaxCodes
    /\ rows' = Append(rows, [phone |-> sender[s].phone, purpose |-> sender[s].purpose,
                             code |-> code, created |-> clock,
                             expires |-> sender[s].now + Lifetime,
                             attempts |-> 0, consumedAt |-> {}])
    /\ sender' = [sender EXCEPT ![s] = Resting]
    /\ UNCHANGED <<clock, taker, history>>

(* The query or the insert fails: no row.                                  *)
SendFails(s) ==
    /\ sender[s] # Resting
    /\ sender' = [sender EXCEPT ![s] = Resting]
    /\ UNCHANGED <<clock, rows, taker, history>>

AnswerCode(t, phone, purpose, code) ==
    /\ taker[t] = Resting
    /\ taker' = [taker EXCEPT ![t] = [pc |-> "asked", phone |-> phone, purpose |-> purpose,
                                      code |-> code, now |-> clock]]
    /\ UNCHANGED <<clock, rows, sender, history>>

(* Faulty variants: the expiry is not looked at; the failed attempt is     *)
(* rolled back with the transaction.                                       *)
TakeableForever(t, i) == rows[i].attempts < MaxAttempts

MarkNothing(i) == UNCHANGED <<rows, missed>>

Takeable(t, i) ==
    /\ taker[t].now <= rows[i].expires
    /\ rows[i].attempts < MaxAttempts

(* The UPDATE fails, or the Commit after it, and the answer is told wrong. *)
MissAttempt(i) ==
    /\ missed[i] < MaxFaults
    /\ missed' = [missed EXCEPT ![i] = @ + 1]
    /\ UNCHANGED rows

MarkAttempt(i) ==
    \/ rows' = [rows EXCEPT ![i].attempts = @ + 1] /\ UNCHANGED missed
    \/ MissAttempt(i)

Reject(t, i) ==
    /\ Takeable(t, i)
    /\ taker[t].code # rows[i].code
    /\ MarkAttempt(i)
    /\ wrong' = [wrong EXCEPT ![i] = @ + 1]

(* A Commit that reports an error may have used the code all the same; the *)
(* person is then told that it is wrong.                                   *)
Accept(t, i) ==
    /\ Takeable(t, i)
    /\ taker[t].code = rows[i].code
    /\ rows' = [rows EXCEPT ![i].consumedAt = {taker[t].now}]
    /\ UNCHANGED history

(* No row, an expired one or a locked one: the handler fails, rows stay.   *)
Refuse(t) ==
    /\ \A i \in Latest(taker[t].phone, taker[t].purpose) : ~ Takeable(t, i)
    /\ UNCHANGED <<rows, history>>

ConsumeCode(t) ==
    /\ taker[t].pc = "asked"
    /\ \/ Refuse(t)
       \/ \E i \in Latest(taker[t].phone, taker[t].purpose) : Reject(t, i) \/ Accept(t, i)
    /\ taker' = [taker EXCEPT ![t] = Resting]
    /\ UNCHANGED <<clock, sender>>

(* The transaction does not begin, or is rolled back before or after an    *)
(* answer that is right.                                                   *)
TakeFails(t) ==
    /\ taker[t].pc = "asked"
    /\ taker' = [taker EXCEPT ![t] = Resting]
    /\ UNCHANGED <<clock, rows, sender, history>>

Next ==
    \/ Tick
    \/ \E s \in Senders :
          \/ \E p \in Phones, q \in Purposes : AskForCode(s, p, q)
          \/ CheckThrottle(s)
          \/ \E c \in Codes : InsertCode(s, c)
          \/ SendFails(s)
    \/ \E t \in Takers :
          \/ \E p \in Phones, q \in Purposes, c \in Codes : AnswerCode(t, p, q, c)
          \/ ConsumeCode(t)
          \/ TakeFails(t)

Spec == Init /\ [][Next]_vars

-----------------------------------------------------------------------------
(* The throttle is read without a lock, so handlers that run at once all   *)
(* pass it.  But one handler is held up by its own last code: of the codes *)
(* of a phone and purpose that are still unused, those that came within    *)
(* one minute are no more than the handlers that run at once.              *)
BurstBounded ==
    \A p \in Phones, q \in Purposes, now \in 0 .. clock :
        Cardinality({i \in Unconsumed(p, q) : /\ rows[i].created <= now
                                              /\ now < rows[i].created + Throttle})
            <= Cardinality(Senders)

(* However long a handler waits between reading the clock and inserting or *)
(* locking the row: a code is accepted only from one who answered within   *)
(* its lifetime after it came to be.                                       *)
AcceptedInTime ==
    \A i \in DOMAIN rows :
        \A now \in rows[i].consumedAt : now <= rows[i].created + Lifetime

(* The rows are one-time codes: none is accepted twice, and none once      *)
(* MaxAttempts answers were told wrong beyond those whose counting failed: *)
(* every handler that tells an answer wrong counts it or meets that error, *)
(* and no counted answer is forgotten.                                     *)
Stage(i) == IF i \notin DOMAIN rows THEN "none"
            ELSE IF rows[i].consumedAt = {} THEN "issued" ELSE "used"

Pool == INSTANCE OneTimeCodes WITH
    Ids <- 1 .. MaxCodes,
    MaxMisses <- MaxAttempts,
    stage <- [i \in 1 .. MaxCodes |-> Stage(i)],
    misses <- wrong,
    excused <- missed

ImplementsOneTimeCodes == Pool!Spec
=============================================================================
