---------------------------- MODULE CodeRequests ----------------------------
(***************************************************************************)
(* The handlers that mint one-time codes and mail them, behind the rate    *)
(* limiter: handleOTPRequest and handlePasswordForgot, and handleOTPVerify, *)
(* which takes the guesses.                                                *)
(*                                                                         *)
(* A code belongs to a purpose, an address and, for a login code, a        *)
(* client.  The per-identifier buckets are those of RateLimit; a per-IP    *)
(* bucket may refuse any request, and whoever has enough addresses never   *)
(* meets it, so its refusal is a stuttering step.  So is one for bad       *)
(* input, an unknown client or account, and a code past its expiry.        *)
(* Concurrent use of one code is OneTimeCodes' subject: ConsumeCode is one *)
(* step here, and IssueCode is its snapshot and its commit.                *)
(***************************************************************************)
EXTENDS RateLimit, Sequences, FiniteSets, Functions

CONSTANTS
    Clients,
    Emails,
    MaxOTPAttempts,
    MaxCodes          \* bound on the codes issued

ASSUME RequestConstants ==
    /\ MaxOTPAttempts \in Nat \ {0}
    /\ MaxCodes \in Nat
    /\ Buckets = {"otp", "forgot"} \X Emails
    /\ None \notin Clients

VARIABLES
    codes,     \* otp_codes, in the order of their INSERTs
    mailed,    \* the codes (as indices) the mail provider has accepted
    step,      \* where each request is, past the limiter
    subject,   \* what it asks a code for
    snap,      \* outstanding codes its UPDATE saw
    made,      \* the code it has stored
    guesses    \* history: guesses compared with each code

store == <<codes, mailed, guesses>>
local == <<step, subject, snap, made>>
vars  == <<limiterVars, store, local>>

\* The client and address of an OTP; the address alone of a link.
Subjects == [purpose : {"login_otp"}, client : Clients, email : Emails]
       \cup [purpose : {"password_reset"}, client : {None}, email : Emails]

\* Faulty variant: requests are counted per client.
IdBucketPerClient(s) ==
    CASE s.purpose = "login_otp" /\ s.client = CHOOSE c \in Clients : TRUE -> <<"otp", s.email>>
      [] OTHER -> <<"forgot", s.email>>

\* "otp:id:" + email, "forgot:id:" + email.
IdBucket(s) == <<IF s.purpose = "login_otp" THEN "otp" ELSE "forgot", s.email>>

Outstanding(s) == {i \in DOMAIN codes : codes[i].subject = s /\ ~codes[i].consumed}

\* Every variable holds a value of its kind; only what is in the table is
\* mailed, and a request that has got as far as its code was let through by the
\* limiter.
TypeOK ==
    /\ LimiterTypeOK
    /\ codes \in Seq([subject : Subjects, window : Times, attempts : 0..MaxOTPAttempts,
                      consumed : BOOLEAN])
    /\ mailed \in SUBSET DOMAIN codes
    /\ step \in [Workers -> {"idle", "limit", "issue", "send"}]
    /\ made \in [Workers -> {0} \cup DOMAIN codes]
    /\ subject \in [Workers -> Subjects \cup {None}]
    /\ snap \in [Workers -> SUBSET DOMAIN codes]
    /\ guesses \in [1..MaxCodes -> Nat]
    /\ \A w \in Workers : step[w] \notin {"idle", "limit"} =>
        subject[w] \in Subjects /\ at[w] = "pass"

Init ==
    /\ LimiterInit
    /\ codes = <<>> /\ mailed = {}
    /\ step = [w \in Workers |-> "idle"]
    /\ subject = [w \in Workers |-> None]
    /\ snap = [w \in Workers |-> {}]
    /\ made = [w \in Workers |-> 0]
    /\ guesses = [i \in 1..MaxCodes |-> 0]

-----------------------------------------------------------------------------
GoTo(w, k) == step' = [step EXCEPT ![w] = k]

\* handleOTPRequest and handlePasswordForgot, up to limit.
Request(w, s) ==
    /\ step[w] = "idle"
    /\ AllowCall(w, IdBucket(s))
    /\ GoTo(w, "limit")
    /\ subject' = [subject EXCEPT ![w] = s]
    /\ UNCHANGED <<store, snap, made>>

\* Let through, and the client or account is there: IssueCode's UPDATE begins.
IssueCode(w) ==
    /\ step[w] = "limit"
    /\ at[w] = "pass"
    /\ GoTo(w, "issue")
    /\ snap' = [snap EXCEPT ![w] = Outstanding(subject[w])]
    /\ UNCHANGED <<limiterVars, store, subject, made>>

\* The older codes are consumed and the new one is there.
IssueCommit(w) ==
    /\ step[w] = "issue"
    /\ Len(codes) < MaxCodes
    /\ codes' = Append([i \in DOMAIN codes |->
                           IF i \in snap[w] THEN [codes[i] EXCEPT !.consumed = TRUE] ELSE codes[i]],
                       [subject |-> subject[w], window |-> Came(w), attempts |-> 0,
                        consumed |-> FALSE])
    /\ GoTo(w, "send")
    /\ made' = [made EXCEPT ![w] = Len(codes) + 1]
    /\ snap' = [snap EXCEPT ![w] = {}]
    /\ UNCHANGED <<limiterVars, mailed, subject, guesses>>

\* The request ends; the limiter forgets its locals.
End(w) ==
    /\ AllowDone(w)
    /\ GoTo(w, "idle")
    /\ subject' = [subject EXCEPT ![w] = None]
    /\ snap' = [snap EXCEPT ![w] = {}]
    /\ made' = [made EXCEPT ![w] = 0]
    /\ UNCHANGED <<codes, guesses>>

\* Faulty variant: the code is mailed when it is minted, before it is stored.
SendCodeFirst(w) ==
    /\ step[w] = "issue"
    /\ mailed' = mailed \cup {Len(codes) + 1}
    /\ End(w)

\* SendCode went through.
SendCode(w) ==
    /\ step[w] = "send"
    /\ mailed' = mailed \cup {made[w]}
    /\ End(w)

\* Refused by the limiter or by a check behind it, or a database call or the
\* mail provider failed.  What IssueCode has committed stays.
Stop(w) ==
    /\ step[w] # "idle"
    /\ UNCHANGED mailed
    /\ End(w)

\* Faulty variant: the guess that reaches the limit does not burn the code.
WrongGuessKept(i) ==
    codes' = [codes EXCEPT ![i].attempts = IF @ < MaxOTPAttempts - 1 THEN @ + 1 ELSE @]

\* attempts + 1, and the guess that reaches the limit burns the code.
WrongGuess(i) ==
    codes' = [codes EXCEPT ![i].attempts = @ + 1,
                           ![i].consumed = codes[i].attempts + 1 >= MaxOTPAttempts]

\* handleOTPVerify with a wrong or a right code, against the newest
\* outstanding one.
OTPVerify(s) ==
    LET i == CHOOSE k \in Outstanding(s) : \A j \in Outstanding(s) : j <= k IN
    /\ s.purpose = "login_otp"
    /\ Outstanding(s) # {}
    /\ guesses' = [guesses EXCEPT ![i] = @ + 1]
    /\ \/ WrongGuess(i)
       \/ codes' = [codes EXCEPT ![i].consumed = TRUE]
    /\ UNCHANGED <<limiterVars, mailed, local>>

Next ==
    \/ \E w \in Workers, s \in Subjects : Request(w, s)
    \/ \E w \in Workers :
        \/ (AllowUpsert(w) \/ AllowError(w)) /\ UNCHANGED <<store, local>>
        \/ IssueCode(w) \/ IssueCommit(w) \/ SendCode(w) \/ Stop(w)
    \/ \E s \in Subjects : OTPVerify(s)
    \/ (PruneRateLimits \/ Tick) /\ UNCHANGED <<store, local>>

Spec == Init /\ [][Next]_vars

-----------------------------------------------------------------------------
(***************************************************************************)
(* Properties.                                                             *)
(***************************************************************************)

CodesOf(purpose, e, t) ==
    {i \in DOMAIN codes : /\ codes[i].subject.purpose = purpose
                          /\ codes[i].subject.email = e
                          /\ codes[i].window = t}

\* Whatever clients are named, an inbox gets no more than Limit login codes, and
\* no more than Limit reset links, for the requests of one window
\* (handleOTPRequest and handlePasswordForgot count by address).
MailPerWindow ==
    \A e \in Emails, t \in Times, p \in {"login_otp", "password_reset"} :
        Cardinality(CodesOf(p, e, t) \cap mailed) <= Limit

\* All guesses that are ever compared with the login codes requested for an
\* address in one window, at any client: Limit * MaxOTPAttempts
\* (handleOTPVerify behind ConsumeCode, whose own limit is only per IP).
GuessesPerWindow ==
    \A e \in Emails, t \in Times :
        SumFunctionOnSet(guesses, CodesOf("login_otp", e, t)) <= Limit * MaxOTPAttempts
=============================================================================
