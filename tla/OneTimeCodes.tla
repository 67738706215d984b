---------------------------- MODULE OneTimeCodes ----------------------------
(***************************************************************************)
(* The one-time codes of internal/store/otp.go: login OTPs, which a user   *)
(* types after saying who they are (ConsumeCode), and emailed tokens,      *)
(* which identify their own row (ConsumeToken).                            *)
(*                                                                         *)
(* Rows are found by (identifier, purpose); such a pair is a subject here, *)
(* and pairs never interact.  A code stands for the row it was issued      *)
(* with: equal codes of two rows are left out.  Transactions are split as  *)
(* in SessionStore: a statement fixes the rows it sees when it begins,     *)
(* waits for row locks, and checks its WHERE clause again on each row it   *)
(* gets.                                                                   *)
(***************************************************************************)
EXTENDS Naturals

CONSTANTS
    Workers,          \* requests that run at the same time
    Ids,              \* the rows a behaviour may insert
    Subjects,         \* (identifier, purpose) pairs
    Emailed,          \* those of email_verify and password_reset
    None,             \* no argument, no row
    MaxOTPAttempts,   \* wrong guesses that burn a code
    TTL,              \* lifetime of a code
    Grace,            \* how long past its expiry PruneCodes keeps a row
    MaxTime           \* bound on the clock

ASSUME CodeConstants ==
    /\ None \notin Ids \cup Subjects
    /\ Emailed \subseteq Subjects
    /\ MaxOTPAttempts \in Nat \ {0}
    /\ TTL \in Nat
    /\ Grace \in Nat
    /\ MaxTime \in Nat

VARIABLES
    now,        \* db.now()
    minted,     \* rows inserted, committed or not
    issued,     \* rows whose INSERT has committed, pruned since or not
    codes,      \* the committed rows of otp_codes
    subject,    \* columns identifier and purpose
    created,    \* column created_at
    attempts,   \* column attempts
    consumed,   \* rows with consumed_at set
    pc,         \* where each worker is in its call
    key,        \* the subject or the row it asks for
    guess,      \* the code it presents, as the row that code belongs to
    snap,       \* rows its statement saw and has not visited yet
    locks,      \* rows its transaction has locked
    row,        \* the row it has inserted or is about to redeem
    tries,      \* the attempts it read from that row
    scope,      \* history: rows an IssueCode call has to invalidate
    wrong,      \* history: wrong guesses answered, per row
    redeemed    \* history: successful redemptions, per row

table   == <<issued, codes, attempts, consumed>>
columns == <<subject, created>>
history == <<wrong, redeemed>>
local   == <<pc, key, guess, snap, locks, row, tries, scope>>
vars    == <<now, minted, table, columns, local, history>>

Outcomes == {"issued", "ok", "invalid", "attempts", "failed"}
Running  == {"issue", "pick", "redeem", "guess"}
PCs      == {"idle"} \cup Running \cup Outcomes

\* Every column and local holds a value of its kind, and a call that has no
\* transaction open holds no row (the deferred Rollback of IssueCode,
\* ConsumeCode and ConsumeToken).
TypeOK ==
    /\ now \in 0..MaxTime
    /\ minted \in SUBSET Ids
    /\ issued \in SUBSET minted
    /\ codes \in SUBSET issued
    /\ consumed \in SUBSET issued
    /\ subject \in [Ids -> Subjects \cup {None}]
    /\ created \in [Ids -> 0..MaxTime]
    /\ attempts \in [Ids -> 0..MaxOTPAttempts]
    /\ pc \in [Workers -> PCs]
    /\ key \in [Workers -> Ids \cup Subjects \cup {None}]
    /\ guess \in [Workers -> Ids \cup {None}]
    /\ snap \in [Workers -> SUBSET issued]
    /\ locks \in [Workers -> SUBSET issued]
    /\ row \in [Workers -> Ids \cup {None}]
    /\ tries \in [Workers -> 0..MaxOTPAttempts]
    /\ scope \in [Workers -> SUBSET issued]
    /\ wrong \in [Ids -> Nat]
    /\ redeemed \in [Ids -> Nat]
    /\ \A w \in Workers : pc[w] \notin Running => locks[w] = {} /\ snap[w] = {}
    /\ \A w \in Workers : pc[w] = "issue" => row[w] \in minted
    /\ \A w \in Workers : pc[w] \in {"redeem", "guess"} => row[w] \in issued

Init ==
    /\ now = 0
    /\ minted = {} /\ issued = {} /\ codes = {} /\ consumed = {}
    /\ subject = [i \in Ids |-> None]
    /\ created = [i \in Ids |-> 0]
    /\ attempts = [i \in Ids |-> 0]
    /\ pc = [w \in Workers |-> "idle"]
    /\ key = [w \in Workers |-> None]
    /\ guess = [w \in Workers |-> None]
    /\ snap = [w \in Workers |-> {}]
    /\ locks = [w \in Workers |-> {}]
    /\ row = [w \in Workers |-> None]
    /\ tries = [w \in Workers |-> 0]
    /\ scope = [w \in Workers |-> {}]
    /\ wrong = [i \in Ids |-> 0]
    /\ redeemed = [i \in Ids |-> 0]

-----------------------------------------------------------------------------
Outstanding(s) == {i \in codes : subject[i] = s /\ i \notin consumed}
Free(w, i)     == \A v \in Workers \ {w} : i \notin locks[v]
Expired(i)     == now > created[i] + TTL

Call(w, label, k, g, rows, seen) ==
    /\ pc[w] = "idle"
    /\ pc' = [pc EXCEPT ![w] = label]
    /\ key' = [key EXCEPT ![w] = k]
    /\ guess' = [guess EXCEPT ![w] = g]
    /\ scope' = [scope EXCEPT ![w] = rows]
    /\ snap' = [snap EXCEPT ![w] = seen]

\* Faulty variant: the deferred Rollback is missing, the locks stay behind.
FinishWithoutRollback(w, outcome) ==
    /\ pc' = [pc EXCEPT ![w] = outcome]
    /\ locks' = locks
    /\ snap' = [snap EXCEPT ![w] = {}]
    /\ row' = [row EXCEPT ![w] = None]
    /\ tries' = [tries EXCEPT ![w] = 0]

\* The transaction of w ends, committed or rolled back, and the call returns.
Finish(w, outcome) ==
    /\ pc' = [pc EXCEPT ![w] = outcome]
    /\ locks' = [locks EXCEPT ![w] = {}]
    /\ snap' = [snap EXCEPT ![w] = {}]
    /\ row' = [row EXCEPT ![w] = None]
    /\ tries' = [tries EXCEPT ![w] = 0]

Skip(w, i) == snap' = [snap EXCEPT ![w] = @ \ {i}]

-----------------------------------------------------------------------------
(***************************************************************************)
(* IssueCode: UPDATE the outstanding rows of the subject, INSERT the new   *)
(* one with the time read before the UPDATE, commit.                       *)
(***************************************************************************)
IssueCode(w, s, i) ==
    /\ Call(w, "issue", s, None, Outstanding(s), Outstanding(s))
    /\ i \in Ids \ minted
    /\ minted' = minted \cup {i}
    /\ row' = [row EXCEPT ![w] = i]
    /\ subject' = [subject EXCEPT ![i] = s]
    /\ created' = [created EXCEPT ![i] = now]
    /\ UNCHANGED <<now, table, locks, tries, history>>

IssueVisit(w, i) ==
    /\ pc[w] = "issue"
    /\ i \in snap[w]
    /\ Free(w, i)
    /\ Skip(w, i)
    /\ locks' = [locks EXCEPT ![w] = IF i \in codes \ consumed THEN @ \cup {i} ELSE @]
    /\ UNCHANGED <<now, minted, table, columns, pc, key, guess, row, tries, scope, history>>

\* Faulty variant: the INSERT is committed without the UPDATE before it.
IssueCommitKeepsOld(w) ==
    /\ pc[w] = "issue"
    /\ snap[w] = {}
    /\ issued' = issued \cup {row[w]}
    /\ codes' = codes \cup {row[w]}
    /\ Finish(w, "issued")
    /\ UNCHANGED <<now, minted, columns, attempts, consumed, key, guess, scope, history>>

IssueCommit(w) ==
    /\ pc[w] = "issue"
    /\ snap[w] = {}
    /\ consumed' = consumed \cup locks[w]
    /\ issued' = issued \cup {row[w]}
    /\ codes' = codes \cup {row[w]}
    /\ Finish(w, "issued")
    /\ UNCHANGED <<now, minted, columns, attempts, key, guess, scope, history>>

(***************************************************************************)
(* ConsumeCode and ConsumeToken.  The SELECT ... FOR UPDATE of the first   *)
(* goes through the outstanding rows it saw, newest first, and takes the   *)
(* first that is still outstanding once it is locked; that of the second   *)
(* has one candidate, the row the token belongs to.                        *)
(***************************************************************************)
ConsumeCode(w, s, g) ==
    /\ s \in Subjects \ Emailed
    /\ Call(w, "pick", s, g, {}, Outstanding(s))
    /\ UNCHANGED <<now, minted, table, columns, locks, row, tries, history>>

ConsumeToken(w, i) ==
    /\ i \in issued
    /\ subject[i] \in Emailed
    /\ Call(w, "pick", subject[i], i, {}, {i} \cap Outstanding(subject[i]))
    /\ UNCHANGED <<now, minted, table, columns, locks, row, tries, history>>

Newest(w) == {i \in snap[w] : \A j \in snap[w] : created[j] <= created[i]}

\* Worker w gets the lock on row i, the next its SELECT comes to.
Gets(w, i) ==
    /\ pc[w] = "pick"
    /\ i \in Newest(w)
    /\ Free(w, i)

PickNoRow(w) ==
    /\ pc[w] = "pick"
    /\ snap[w] = {}
    /\ Finish(w, "invalid")
    /\ UNCHANGED <<now, minted, table, columns, key, guess, scope, history>>

\* The row was consumed while the SELECT waited for it: on to the next one.
PickSkip(w, i) ==
    /\ Gets(w, i)
    /\ i \notin codes \ consumed
    /\ Skip(w, i)
    /\ UNCHANGED <<now, minted, table, columns, pc, key, guess, locks, row, tries, scope, history>>

\* Expired, or (ConsumeCode) at the limit of attempts: nothing is written.
PickReject(w, i) ==
    /\ Gets(w, i)
    /\ i \in codes \ consumed
    /\ Expired(i) \/ attempts[i] >= MaxOTPAttempts
    /\ Finish(w, IF Expired(i) THEN "invalid" ELSE "attempts")
    /\ UNCHANGED <<now, minted, table, columns, key, guess, scope, history>>

\* Faulty variant: the WHERE clause leaves consumed_at out when it is checked
\* again after the wait.
PickTakeStale(w, i) ==
    /\ Gets(w, i)
    /\ i \in codes
    /\ ~Expired(i)
    /\ attempts[i] < MaxOTPAttempts
    /\ pc' = [pc EXCEPT ![w] = IF guess[w] = i THEN "redeem" ELSE "guess"]
    /\ row' = [row EXCEPT ![w] = i]
    /\ locks' = [locks EXCEPT ![w] = {i}]
    /\ tries' = [tries EXCEPT ![w] = attempts[i]]
    /\ snap' = [snap EXCEPT ![w] = {}]
    /\ UNCHANGED <<now, minted, table, columns, key, guess, scope, history>>

\* Faulty variant: SELECT without FOR UPDATE.
PickTakeUnlocked(w, i) ==
    /\ pc[w] = "pick"
    /\ i \in Newest(w)
    /\ i \in codes \ consumed
    /\ ~Expired(i)
    /\ attempts[i] < MaxOTPAttempts
    /\ pc' = [pc EXCEPT ![w] = IF guess[w] = i THEN "redeem" ELSE "guess"]
    /\ row' = [row EXCEPT ![w] = i]
    /\ tries' = [tries EXCEPT ![w] = attempts[i]]
    /\ snap' = [snap EXCEPT ![w] = {}]
    /\ UNCHANGED <<now, minted, table, columns, key, guess, locks, scope, history>>

\* The row is locked and open; the comparison decides what will be written.
PickTake(w, i) ==
    /\ Gets(w, i)
    /\ i \in codes \ consumed
    /\ ~Expired(i)
    /\ attempts[i] < MaxOTPAttempts
    /\ pc' = [pc EXCEPT ![w] = IF guess[w] = i THEN "redeem" ELSE "guess"]
    /\ row' = [row EXCEPT ![w] = i]
    /\ locks' = [locks EXCEPT ![w] = {i}]
    /\ tries' = [tries EXCEPT ![w] = attempts[i]]
    /\ snap' = [snap EXCEPT ![w] = {}]
    /\ UNCHANGED <<now, minted, table, columns, key, guess, scope, history>>

\* A wrong guess: attempts + 1, and the guess that reaches the limit burns
\* the row.
WrongGuess(w) ==
    /\ pc[w] = "guess"
    /\ LET n == tries[w] + 1
       IN  /\ attempts' = [attempts EXCEPT ![row[w]] = n]
           /\ consumed' = IF n >= MaxOTPAttempts THEN consumed \cup {row[w]} ELSE consumed
           /\ Finish(w, IF n >= MaxOTPAttempts THEN "attempts" ELSE "invalid")
    /\ wrong' = [wrong EXCEPT ![row[w]] = @ + 1]
    /\ UNCHANGED <<now, minted, issued, codes, columns, key, guess, scope, redeemed>>

Redeem(w) ==
    /\ pc[w] = "redeem"
    /\ consumed' = consumed \cup {row[w]}
    /\ redeemed' = [redeemed EXCEPT ![row[w]] = @ + 1]
    /\ Finish(w, "ok")
    /\ UNCHANGED <<now, minted, issued, codes, columns, attempts, key, guess, scope, wrong>>

-----------------------------------------------------------------------------
\* PruneCodes: one DELETE, which waits for the locks on the rows it deletes.
Prunable == {i \in codes : created[i] + TTL + Grace < now}

PruneCodes ==
    /\ Prunable # {}
    /\ \A i \in Prunable, w \in Workers : i \notin locks[w]
    /\ codes' = codes \ Prunable
    /\ UNCHANGED <<now, minted, issued, columns, attempts, consumed, local, history>>

\* The request's context is cancelled, the connection or the process dies, or
\* PostgreSQL resolves a deadlock: the transaction is rolled back.  Whatever
\* goes wrong in the SELECT is answered as an invalid code.
Abort(w) ==
    /\ pc[w] \in Running
    /\ Finish(w, IF pc[w] = "pick" THEN "invalid" ELSE "failed")
    /\ UNCHANGED <<now, minted, table, columns, key, guess, scope, history>>

Return(w) ==
    /\ pc[w] \in Outcomes
    /\ pc' = [pc EXCEPT ![w] = "idle"]
    /\ key' = [key EXCEPT ![w] = None]
    /\ guess' = [guess EXCEPT ![w] = None]
    /\ scope' = [scope EXCEPT ![w] = {}]
    /\ UNCHANGED <<now, minted, table, columns, snap, locks, row, tries, history>>

Tick ==
    /\ now < MaxTime
    /\ now' = now + 1
    /\ UNCHANGED <<minted, table, columns, local, history>>

Next ==
    \/ \E w \in Workers :
        \/ \E s \in Subjects, i \in Ids : IssueCode(w, s, i)
        \/ \E i \in Ids : IssueVisit(w, i)
        \/ IssueCommit(w)
        \/ \E s \in Subjects, g \in issued \cup {None} : ConsumeCode(w, s, g)
        \/ \E i \in Ids : ConsumeToken(w, i)
        \/ PickNoRow(w)
        \/ \E i \in Ids : PickSkip(w, i)
        \/ \E i \in Ids : PickReject(w, i)
        \/ \E i \in Ids : PickTake(w, i)
        \/ WrongGuess(w)
        \/ Redeem(w)
        \/ Abort(w)
        \/ Return(w)
    \/ PruneCodes
    \/ Tick

Spec == Init /\ [][Next]_vars

-----------------------------------------------------------------------------
(***************************************************************************)
(* The inductive invariant: what a transaction that holds a row relies on. *)
(***************************************************************************)
LockInv ==
    \A w, v \in Workers : w # v => \A i \in locks[w] : i \notin locks[v]

\* A row about to be redeemed or charged with a guess is still outstanding.
Holds(w) ==
    /\ locks[w] = {row[w]}
    /\ row[w] \in codes \ consumed
    /\ tries[w] = attempts[row[w]]
    /\ tries[w] < MaxOTPAttempts

HeldInv == \A w \in Workers : pc[w] \in {"redeem", "guess"} => Holds(w)

\* A row being issued is nobody else's, and carries no history.
IssueInv ==
    \A w \in Workers : pc[w] = "issue" =>
        /\ row[w] \in minted \ issued
        /\ \A v \in Workers : pc[v] = "issue" /\ row[v] = row[w] => v = w
        /\ scope[w] \subseteq consumed \cup (issued \ codes) \cup locks[w] \cup snap[w]

\* The columns agree with what happened to the row.
LedgerInv ==
    /\ \A i \in Ids : wrong[i] = attempts[i]
    /\ \A i \in Ids \ issued : redeemed[i] = 0 /\ attempts[i] = 0
    /\ \A i \in Ids \ consumed : redeemed[i] = 0
    /\ \A i \in codes \ consumed : attempts[i] < MaxOTPAttempts

-----------------------------------------------------------------------------
(***************************************************************************)
(* Properties.                                                             *)
(***************************************************************************)

\* A code opens the door once, however many requests present it at the same
\* time and whatever IssueCode does meanwhile; and a code that has taken the
\* last wrong guess never opens it (ConsumeCode, ConsumeToken).
RedeemedOnce ==
    \A i \in Ids : /\ redeemed[i] <= 1
                   /\ wrong[i] >= MaxOTPAttempts => redeemed[i] = 0

\* No more than MaxOTPAttempts guesses are answered against one row: parallel
\* guesses are all counted (ConsumeCode's read-modify-write of attempts).
GuessBudget ==
    \A i \in Ids : wrong[i] <= MaxOTPAttempts

\* When IssueCode has returned, every code whose INSERT had committed when it was
\* called is consumed or pruned, also one that a redemption or a guess had locked
\* meanwhile.  A code that an overlapping IssueCode commits later is not among
\* them: OnlyNewestRedeemable is about that one (IssueCode).
IssueSupersedes ==
    \A w \in Workers : pc[w] = "issued" => scope[w] \subseteq consumed \cup (issued \ codes)

\* otp.go:61-62, "so only the newest one can be redeemed": a code that can still
\* be redeemed has no younger one of its subject beside it (IssueCode).  Two calls
\* of IssueCode that overlap break it.
OnlyNewestRedeemable ==
    \A s \in Subjects : \A i \in Outstanding(s), j \in issued :
        ~Expired(i) /\ subject[j] = s => created[j] <= created[i]

\* An outstanding row is always below the limit of attempts, so the answer
\* too_many_attempts comes with the guess that burns the row and a later
\* guess finds no row (ConsumeCode).
BurnedAtLimit ==
    \A i \in codes \ consumed : attempts[i] < MaxOTPAttempts
=============================================================================
