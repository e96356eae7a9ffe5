---------------------------- MODULE AccountEntry ----------------------------
(***************************************************************************)
(* How an email becomes an account that can be entered, over the namespace *)
(* env.IDENTITY that the site and the worker cybercrowd-auth share:        *)
(*                                                                         *)
(*   auth/send-verification  stores a setup token and mails it             *)
(*   auth/set-password       turns the token into a user and a session     *)
(*   auth/verify             deletes a token that has expired              *)
(*   auth/logout             deletes a session                             *)
(*   auth/src/router.ts      /api/auth/login, for a user who returns       *)
(*                                                                         *)
(* A token carries the identity-active-id its user will get, which is made *)
(* with the token, so the model gives both one name.  Each get and put is  *)
(* awaited on its own.  A request refused for what it lacks changes        *)
(* nothing and is left out; whether a mail arrives decides only if its     *)
(* token is ever used.                                                     *)
(***************************************************************************)
EXTENDS IdentityStore

CONSTANTS
  Passwords,  \* the passwords people choose
  Consumed,   \* a setup token that set-password deleted
  Expired     \* one that was deleted for its age

EntryKinds == {"setup", "user", "user-email", "session"}

ASSUME EntryAssumption ==
  /\ EntryKinds \subseteq DOMAIN Pool
  /\ Pool["user"] = Pool["setup"]
  /\ \A n \in DOMAIN Bounds : Bounds[n].pool["user"] = Bounds[n].pool["setup"]
  /\ Consumed # Expired
  /\ {Consumed, Expired} \intersect [email : Pool["user-email"]] = {}

Setup(t)     == <<"setup", t>>
User(i)      == <<"user", i>>
UserEmail(e) == <<"user-email", e>>
Session(s)   == <<"session", s>>

Emails == Pool["user-email"]

(* The store has forgotten a token it deleted.  The model tells why, and
   gives its random name to no other.                                      *)
Live(t) == Stored(Setup(t)) /\ kv[Setup(t)] \notin {Consumed, Expired}

(* PBKDF2, of which only this matters: it takes a password, the email as its
   salt and a number of rounds, and tells any two of them apart.           *)
Hash(email, password, rounds) == <<email, password, rounds>>

SetRounds   == 150000
LoginRounds == 100000

(* createSetupToken and storeSetupToken; whoever has an account gets a
   token with a new identity all the same.                                 *)
SendVerification(r) ==
  \E e \in Chosen("user-email"), t \in Minted("setup") :
    Goes(r, <<Writes(Setup(t), [email |-> e])>>)

(* Fifteen minutes have passed: the store drops the token, or verify does. *)
ExpireToken(t) ==
  /\ Live(t)
  /\ kv' = [kv EXCEPT ![Setup(t)] = Expired]
  /\ UNCHANGED <<reading, todo, crashes, scene>>

(* set-password gets the token and awaits the hash of the password.        *)
ReadSetup(r) ==
  \E t \in Chosen("setup"), w \in Passwords :
    /\ Live(t)
    /\ StartReading(r, [op |-> "set", id |-> t, password |-> w,
                        email |-> kv[Setup(t)].email])

(* The token is deleted last.  Slips: it is deleted first; the session comes
   first.                                                                  *)
EntryPuts_TokenFirst(t, s, email, password) ==
  <<Writes(Setup(t), Consumed),
    Writes(User(t), [email |-> email, hash |-> Hash(email, password, SetRounds)]),
    Writes(UserEmail(email), t),
    Writes(Session(s), [identity |-> t, email |-> email, by |-> "setup"])>>

EntryPuts_SessionFirst(t, s, email, password) ==
  <<Writes(Session(s), [identity |-> t, email |-> email, by |-> "setup"]),
    Writes(User(t), [email |-> email, hash |-> Hash(email, password, SetRounds)]),
    Writes(UserEmail(email), t),
    Writes(Setup(t), Consumed)>>

EntryPuts(t, s, email, password) ==
  <<Writes(User(t), [email |-> email, hash |-> Hash(email, password, SetRounds)]),
    Writes(UserEmail(email), t),
    Writes(Session(s), [identity |-> t, email |-> email, by |-> "setup"]),
    Writes(Setup(t), Consumed)>>

SetPassword(r) ==
  /\ HasRead(r, "set")
  /\ \E s \in Minted("session") :
       WillPut(r, EntryPuts(reading[r].id, s, reading[r].email, reading[r].password))

(* Login finds the identity of the email, and then its user.               *)
ReadLogin(r) ==
  \E e \in Chosen("user-email"), w \in Passwords :
    /\ Stored(UserEmail(e))
    /\ StartReading(r, [op |-> "login", id |-> kv[UserEmail(e)], email |-> e,
                        password |-> w])

(* No record says how many rounds its hash took, so login takes its own.   *)
Matches(user, email, password) ==
  user.hash = Hash(email, password, LoginRounds)

Login(r) ==
  /\ HasRead(r, "login")
  /\ LET ask == reading[r]
         user == kv[User(ask.id)]
     IN  /\ Stored(User(ask.id))
         /\ \E s \in Minted("session") :
              WillPut(r, IF Matches(user, ask.email, ask.password)
                         THEN <<Writes(Session(s), [identity |-> ask.id,
                                  email |-> ask.email, by |-> "login"])>>
                         ELSE <<>>)

(* logout deletes the session its cookie names.                            *)
Logout(r) ==
  \E s \in Chosen("session") :
    /\ Stored(Session(s))
    /\ Goes(r, <<Deletes(Session(s))>>)

EntryStep(r) ==
  \/ SendVerification(r) \/ ReadSetup(r) \/ SetPassword(r)
  \/ ReadLogin(r) \/ Login(r) \/ Logout(r)

-----------------------------------------------------------------------------
SessionRecord ==
  [identity : Pool["user"], email : Emails, by : {"setup", "login"}]

EntryTyped ==
  /\ \A t \in Chosen("setup") : Stored(Setup(t)) =>
       kv[Setup(t)] \in {Consumed, Expired} \union [email : Emails]
  /\ \A i \in Chosen("user") : Stored(User(i)) =>
       /\ kv[User(i)].email \in Emails
       /\ kv[User(i)].hash \in Emails \X Passwords \X {SetRounds}
  /\ \A e \in Emails : Stored(UserEmail(e)) => kv[UserEmail(e)] \in Chosen("user")
  /\ \A s \in Chosen("session") : Stored(Session(s)) => kv[Session(s)] \in SessionRecord

(* dashboard, and returning-member-continuity, get the user of a session
   under its identity; by the email only if the session had none.          *)
FoundFor(session) == Stored(User(session.identity))

(* Whatever overlaps or is cut off, a session that is on record enters the
   dashboard of the user who has its email, and the identity an email is
   looked up under is of a user with that email.                           *)
EntryBacked ==
  /\ \A s \in Chosen("session") : Stored(Session(s)) =>
       /\ FoundFor(kv[Session(s)])
       /\ kv[User(kv[Session(s)].identity)].email = kv[Session(s)].email
  /\ \A e \in Emails : Stored(UserEmail(e)) =>
       /\ Stored(User(kv[UserEmail(e)]))
       /\ kv[User(kv[UserEmail(e)])].email = e

(* Whatever is cut off, a setup token is used up only when the user it was
   for can be found by email: who was cut off before that may try again.   *)
ConsumedWhole ==
  \A t \in Chosen("setup") : Stored(Setup(t)) /\ kv[Setup(t)] = Consumed =>
    /\ Stored(User(t))
    /\ Stored(UserEmail(kv[User(t)].email))

(* Requests that come one at a time get one session out of a setup token,
   and one more for each that is cut off before it deletes the token.      *)
TokenOnce ==
  bounds.oneByOne => \A t \in Chosen("setup") :
    Cardinality({s \in Chosen("session") :
                   /\ Stored(Session(s))
                   /\ kv[Session(s)].by = "setup"
                   /\ kv[Session(s)].identity = t}) <= 1 + crashes

(* A setup token is good for one entry, and for no less.                   *)
TokenSpent == ConsumedWhole /\ TokenOnce

(* "RETURNING MEMBER TRACK: existing password -> verified identity +
   session" (auth/src/router.ts:19-21): a login with the password the user
   has set goes on to store a session.                                     *)
Rightly(r) ==
  /\ HasRead(r, "login")
  /\ Stored(User(reading[r].id))
  /\ \E n \in {SetRounds, LoginRounds} :
       kv[User(reading[r].id)].hash = Hash(reading[r].email, reading[r].password, n)

ReturningEnters ==
  [][\A r \in Requests : Rightly(r) /\ reading'[r] = None => todo'[r] # <<>>]_vars
=============================================================================
