------------------------- MODULE EmailVerification -------------------------
(***************************************************************************)
(* How cybercrowd-auth verifies an email (auth/src/router.ts, verify.ts,   *)
(* email.ts), over a key-value namespace, VERIFY_KV, and a table of users: *)
(*                                                                         *)
(*   human-verify       stores a human pass for whoever is seen to be one  *)
(*   send-verification  takes the pass away, stores a token and mails it   *)
(*   verify             records what the token proves and deletes it       *)
(*                                                                         *)
(* and create-user of the site, which adds the rows that verify updates.   *)
(* Every await is a step; a worker may be cut off between two, and the     *)
(* mail may be refused.                                                    *)
(***************************************************************************)
EXTENDS Integers, FiniteSets

CONSTANTS
  Requests,   \* the requests that may be in progress at one time
  Passes,     \* the random values of human passes
  Tokens,     \* and of verification tokens
  Ids,        \* and the identifiers of rows
  Emails,
  OneByOne,   \* whether a request may have to wait for the one before it
  MaxLosses,  \* bound: requests cut off and mails refused
  None

(* What a request that is in progress is about to do.                      *)
Jobs ==
  [at : {"spend", "create"}, pass : Passes, email : Emails] \union
  [at : {"mail", "record", "delete"}, token : Tokens] \union
  [at : {"insert"}, email : Emails]

ASSUME VerificationAssumption ==
  /\ OneByOne \subseteq BOOLEAN
  /\ MaxLosses \in Nat
  /\ IsFiniteSet(Requests)
  /\ None \notin Passes \union Tokens \union Ids \union Emails \union Jobs

VARIABLES
  pass,      \* human:<pass>: "none", "verified", "spent" or "expired"
  token,     \* verify:<token>: what it proves, or None; and what became of it
  rows,      \* the table users of env.DB, as far as emails go
  work,      \* for each request, what it is about to do, or None
  successes, \* history: the answers "Email verified!" to each token
  losses,    \* requests cut off and mails refused
  oneByOne   \* never changes: which of OneByOne this behaviour is

vars == <<pass, token, rows, work, successes, losses, oneByOne>>

Idle(r) == work[r] = None
Quiet == \A r \in Requests : Idle(r)
Arrives(r) == Idle(r) /\ (oneByOne => Quiet)

Does(r, step) == work' = [work EXCEPT ![r] = step]

NoToken == [email |-> None, pass |-> None, state |-> "none"]

Init ==
  /\ pass = [p \in Passes |-> "none"]
  /\ token = [t \in Tokens |-> NoToken]
  /\ rows = {}
  /\ work = [r \in Requests |-> None]
  /\ successes = [t \in Tokens |-> 0]
  /\ losses = 0
  /\ oneByOne \in OneByOne

(* Turnstile, which is external, found a person.                           *)
HumanVerify(p) ==
  /\ oneByOne => Quiet
  /\ pass[p] = "none"
  /\ pass' = [pass EXCEPT ![p] = "verified"]
  /\ UNCHANGED <<token, rows, work, successes, losses, oneByOne>>

(* send-verification gets the pass in the cookie,                          *)
GetPass(r) ==
  /\ Arrives(r)
  /\ \E p \in Passes, e \in Emails :
       /\ pass[p] = "verified"
       /\ Does(r, [at |-> "spend", pass |-> p, email |-> e])
  /\ UNCHANGED <<pass, token, rows, successes, losses, oneByOne>>

(* deletes it,                                                             *)
SpendPass(r) ==
  /\ ~Idle(r) /\ work[r].at = "spend"
  /\ pass' = [pass EXCEPT ![work[r].pass] = "spent"]
  /\ Does(r, [work[r] EXCEPT !.at = "create"])
  /\ UNCHANGED <<token, rows, successes, losses, oneByOne>>

(* stores a token for the email,  (slips: under the pass; gives up when the
   email has one)                                                          *)
CreateToken_UnderPass(r) ==
  /\ ~Idle(r) /\ work[r].at = "create"
  /\ \E t \in Tokens :
       /\ token[t].state = "none"
       /\ token' = [token EXCEPT ![t] = [email |-> work[r].pass,
                      pass |-> work[r].pass, state |-> "live"]]
       /\ Does(r, [at |-> "mail", token |-> t])
  /\ UNCHANGED <<pass, rows, successes, losses, oneByOne>>

CreateToken_GivesUp(r) ==
  /\ ~Idle(r) /\ work[r].at = "create"
  /\ \E t \in Tokens :
       /\ token[t].state = "none"
       /\ IF \E u \in Tokens : token[u].state = "live" /\ token[u].email = work[r].email
          THEN Does(r, None) /\ UNCHANGED token
          ELSE /\ token' = [token EXCEPT ![t] = [email |-> work[r].email,
                              pass |-> work[r].pass, state |-> "live"]]
               /\ Does(r, [at |-> "mail", token |-> t])
  /\ UNCHANGED <<pass, rows, successes, losses, oneByOne>>

CreateToken(r) ==
  /\ ~Idle(r) /\ work[r].at = "create"
  /\ \E t \in Tokens :
       /\ token[t].state = "none"
       /\ token' = [token EXCEPT ![t] = [email |-> work[r].email,
                      pass |-> work[r].pass, state |-> "live"]]
       /\ Does(r, [at |-> "mail", token |-> t])
  /\ UNCHANGED <<pass, rows, successes, losses, oneByOne>>

(* and mails it.  When Postmark refuses, the token stays, known to no one. *)
Mail(r) ==
  /\ ~Idle(r) /\ work[r].at = "mail"
  /\ token' = [token EXCEPT ![work[r].token].state = "mailed"]
  /\ Does(r, None)
  /\ UNCHANGED <<pass, rows, successes, losses, oneByOne>>

MailRefused(r) ==
  /\ ~Idle(r) /\ work[r].at = "mail"
  /\ losses < MaxLosses
  /\ losses' = losses + 1
  /\ Does(r, None)
  /\ UNCHANGED <<pass, token, rows, successes, oneByOne>>

(* consumeVerificationToken gets the token of a link that arrived,         *)
GetToken(r) ==
  /\ Arrives(r)
  /\ \E t \in Tokens :
       /\ token[t].state = "mailed"
       /\ Does(r, [at |-> "record", token |-> t])
  /\ UNCHANGED <<pass, token, rows, successes, losses, oneByOne>>

(* updates every row of its email,  (a slip: every row)                    *)
Record_Everyone(r) ==
  /\ ~Idle(r) /\ work[r].at = "record"
  /\ rows' = {[row EXCEPT !.verified = TRUE] : row \in rows}
  /\ Does(r, [work[r] EXCEPT !.at = "delete"])
  /\ UNCHANGED <<pass, token, successes, losses, oneByOne>>

Record(r) ==
  /\ ~Idle(r) /\ work[r].at = "record"
  /\ LET e == token[work[r].token].email
     IN  rows' = {IF row.email = e THEN [row EXCEPT !.verified = TRUE] ELSE row :
                    row \in rows}
  /\ Does(r, [work[r] EXCEPT !.at = "delete"])
  /\ UNCHANGED <<pass, token, successes, losses, oneByOne>>

(* deletes it and answers.  (A slip: it is kept.)                          *)
DeleteToken_Keeps(r) ==
  /\ ~Idle(r) /\ work[r].at = "delete"
  /\ successes' = [successes EXCEPT ![work[r].token] = @ + 1]
  /\ Does(r, None)
  /\ UNCHANGED <<pass, token, rows, losses, oneByOne>>

DeleteToken(r) ==
  /\ ~Idle(r) /\ work[r].at = "delete"
  /\ token' = [token EXCEPT ![work[r].token].state = "consumed"]
  /\ successes' = [successes EXCEPT ![work[r].token] = @ + 1]
  /\ Does(r, None)
  /\ UNCHANGED <<pass, rows, losses, oneByOne>>

(* create-user selects the rows of the email, and inserts one if there are
   none.                                                                   *)
SelectUser(r) ==
  /\ Arrives(r)
  /\ \E e \in Emails :
       /\ ~\E row \in rows : row.email = e
       /\ Does(r, [at |-> "insert", email |-> e])
  /\ UNCHANGED <<pass, token, rows, successes, losses, oneByOne>>

InsertUser(r) ==
  /\ ~Idle(r) /\ work[r].at = "insert"
  /\ \E i \in Ids :
       /\ ~\E row \in rows : row.id = i
       /\ rows' = rows \union {[id |-> i, email |-> work[r].email, verified |-> FALSE]}
  /\ Does(r, None)
  /\ UNCHANGED <<pass, token, successes, losses, oneByOne>>

(* The store drops a pass after five minutes, a token after fifteen.       *)
ExpirePass(p) ==
  /\ pass[p] = "verified"
  /\ pass' = [pass EXCEPT ![p] = "expired"]
  /\ UNCHANGED <<token, rows, work, successes, losses, oneByOne>>

ExpireToken(t) ==
  /\ token[t].state = "mailed"
  /\ token' = [token EXCEPT ![t].state = "expired"]
  /\ UNCHANGED <<pass, rows, work, successes, losses, oneByOne>>

CutOff(r) ==
  /\ ~Idle(r)
  /\ losses < MaxLosses
  /\ losses' = losses + 1
  /\ Does(r, None)
  /\ UNCHANGED <<pass, token, rows, successes, oneByOne>>

Next ==
  \/ \E p \in Passes : HumanVerify(p) \/ ExpirePass(p)
  \/ \E t \in Tokens : ExpireToken(t)
  \/ \E r \in Requests :
       \/ GetPass(r) \/ SpendPass(r) \/ CreateToken(r) \/ Mail(r) \/ MailRefused(r)
       \/ GetToken(r) \/ Record(r) \/ DeleteToken(r)
       \/ SelectUser(r) \/ InsertUser(r) \/ CutOff(r)

Spec == Init /\ [][Next]_vars
-----------------------------------------------------------------------------
TypeOK ==
  /\ pass \in [Passes -> {"none", "verified", "spent", "expired"}]
  /\ token \in [Tokens ->
       [email : Emails \union {None}, pass : Passes \union {None},
        state : {"none", "live", "mailed", "consumed", "expired"}]]
  /\ rows \subseteq [id : Ids, email : Emails, verified : BOOLEAN]
  /\ work \in [Requests -> Jobs \union {None}]
  /\ successes \in [Tokens -> Nat]
  /\ losses \in 0..MaxLosses

Made(p) == {t \in Tokens : token[t].pass = p}

(* A row says its email is verified only if a token for the email was mailed
   to it, made on a human pass that was spent.                             *)
VerifiedBacked ==
  \A row \in rows : row.verified =>
    \E t \in Tokens :
      /\ token[t].email = row.email
      /\ token[t].state \in {"mailed", "consumed", "expired"}
      /\ pass[token[t].pass] = "spent"

(* A human pass pays for one token, and for no more than there were requests
   that got it before the first of them deleted it.                        *)
PassPaysOnce ==
  \A p \in Passes :
    /\ oneByOne => Cardinality(Made(p)) <= 1
    /\ Cardinality(Made(p)) <= Cardinality(Requests)

(* Once all is quiet, every pass that was spent has its mail on the way, but
   for the requests that were cut off and the mails that were refused.     *)
SpentAccounted ==
  Quiet =>
    LET unpaid == {p \in Passes :
          /\ pass[p] = "spent"
          /\ \A t \in Made(p) : token[t].state \notin {"mailed", "consumed", "expired"}}
    IN  Cardinality(unpaid) <= losses

(* What a pass is worth: one mail on its way, no more and no less.         *)
PassWorthOne == PassPaysOnce /\ SpentAccounted

(* Requests that come one at a time have a token succeed once, and add one
   row for an email; those that overlap, no more than there are of them.   *)
OnceEach ==
  LET most == IF oneByOne THEN 1 ELSE Cardinality(Requests)
  IN  /\ \A t \in Tokens : successes[t] <= most
      /\ \A e \in Emails : Cardinality({row \in rows : row.email = e}) <= most
=============================================================================
