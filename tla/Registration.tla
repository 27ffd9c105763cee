---------------------------- MODULE Registration ----------------------------
(***************************************************************************)
(* How an account comes to be: CreateAccount puts a registration in Redis, *)
(* RequestAccountVerificationToken sends a token for it over Kafka, and    *)
(* VerifyAccount moves the registration into Postgres and announces it on  *)
(* the account_created topic (internal/service/service.go over the         *)
(* registration repository, the accounts repository and internal/events).  *)
(* One step is one command to Redis, Postgres or Kafka.                    *)
(***************************************************************************)
EXTENDS Integers

CONSTANTS
  Email,       \* email addresses
  Profile,     \* what a registration holds: username and password hash
  AccountID,   \* the values uuid_generate_v4 can return
  Call,        \* goroutines serving a request (bound on concurrent requests)
  Ops,         \* the operations clients call
  Faults,      \* what may fail: the stores, the broker, the whole process
  TTL,         \* cfg.NonActivatedAccountTTL, in ticks
  Second,      \* ticks in a second
  MaxTime,     \* bound on the clock
  None         \* no value

AllOps == {"CreateAccount", "RequestAccountVerificationToken", "VerifyAccount"}

ASSUME OpsAssumption == Ops \subseteq AllOps
(* A failed SET of a registration, which SetAccount does not report, is a  *)
(* fault of its own ("set").                                               *)
ASSUME FaultsAssumption == Faults \subseteq {"redis", "set", "db", "kafka", "crash"}
ASSUME TimeAssumption == TTL \in Nat \ {0} /\ Second \in Nat \ {0} /\ MaxTime \in Nat
ASSUME NoneAssumption == None \notin Email \cup Profile \cup AccountID

VARIABLES
  pending,       \* Redis: email -> the registration waiting for it, or None
  pendingUntil,  \* when the key of a waiting registration expires
  rows,          \* Postgres: the committed rows of accounts
  tokens,        \* Kafka: the verification tokens handed over for delivery
  events,        \* Kafka: the account_created messages
  now,           \* the clock
  accepted,      \* history: until when the last registration that CreateAccount
                 \* answered with success for an email was to wait, or 0
  go             \* the goroutines

vars == <<pending, pendingUntil, rows, tokens, events, now, accepted, go>>

(* getAccountServiceConfig: a token is valid as long as a registration.    *)
(* Mutants: a TTL of its own, shorter or longer than the registration's.   *)
ShortTokenTTL == TTL - 1
LongTokenTTL == 2 * TTL
VerifyAccountTokenTTL == TTL

(* A jwt.NumericDate is encoded in whole seconds: the rest is cut off.     *)
NumericDate(t) == t - (t % Second)

Time == 0..(MaxTime + TTL)
Row == [id: AccountID, email: Email, profile: Profile]
Token == [email: Email, exp: Time]

-----------------------------------------------------------------------------
(* Goroutines. until is history: when the registration that                *)
(* RequestAccountVerificationToken found will expire; exp is the end of    *)
(* the token it generated for it.                                          *)

PC == {"idle", "checkdb", "checkcache", "register", "deliver", "lookup",
       "insert", "rollback", "commit", "publish", "forget", "done"}

Result == {"none", "ok", "error", "panic"}

Local == [pc: PC, op: AllOps \cup {"none"}, email: Email \cup {None},
          profile: Profile \cup {None}, id: AccountID \cup {None},
          until: Time, exp: Time, res: Result]

Idle == [pc |-> "idle", op |-> "none", email |-> None, profile |-> None,
         id |-> None, until |-> 0, exp |-> 0, res |-> "none"]

Goto(c, p) == go' = [go EXCEPT ![c].pc = p]

Finish(c, res) == go' = [go EXCEPT ![c].pc = "done", ![c].res = res]

Can(fault) == fault \in Faults

Emails(R) == {r.email : r \in R}

-----------------------------------------------------------------------------
(* The clock. A registration expires when its deadline is reached.         *)
Tick ==
  /\ now < MaxTime
  /\ now' = now + 1
  /\ LET gone == {e \in Email : pending[e] # None /\ pendingUntil[e] <= now + 1}
     IN /\ pending' = [e \in Email |-> IF e \in gone THEN None ELSE pending[e]]
        /\ pendingUntil' = [e \in Email |->
                              IF e \in gone THEN 0 ELSE pendingUntil[e]]
  /\ UNCHANGED <<rows, tokens, events, accepted, go>>

(* The process dies and starts again: requests are gone and the server of  *)
(* the database rolls the open transactions back.                          *)
Crash == /\ Can("crash")
         /\ \E c \in Call : go[c].pc # "idle"
         /\ go' = [c \in Call |-> Idle]
         /\ UNCHANGED <<pending, pendingUntil, rows, tokens, events, now, accepted>>

-----------------------------------------------------------------------------
(* Requests.                                                               *)

Request(c, op) ==
  /\ go[c].pc = "idle" /\ op \in Ops \ {"VerifyAccount"}
  /\ \E e \in Email, p \in (IF op = "CreateAccount" THEN Profile ELSE {None}) :
       go' = [go EXCEPT ![c] = [Idle EXCEPT !.pc = "checkdb", !.op = op,
                                            !.email = e, !.profile = p]]
  /\ UNCHANGED <<pending, pendingUntil, rows, tokens, events, now, accepted>>

(* VerifyAccount: jwt.ParseToken refuses an expired token. A token is not  *)
(* used up: the same link may be followed again and at the same time.      *)
VerifyAccount(c) ==
  /\ go[c].pc = "idle" /\ "VerifyAccount" \in Ops
  /\ \E t \in tokens :
       /\ now < t.exp
       /\ go' = [go EXCEPT ![c] = [Idle EXCEPT !.pc = "lookup", !.email = t.email,
                                               !.op = "VerifyAccount"]]
  /\ UNCHANGED <<pending, pendingUntil, rows, tokens, events, now, accepted>>

(* IsAccountWithEmailExist sees committed rows only.                       *)
IsAccountWithEmailExist(c) ==
  /\ go[c].pc = "checkdb"
  /\ \/ go[c].email \notin Emails(rows) /\ Goto(c, "checkcache")
     \/ (go[c].email \in Emails(rows) \/ Can("db")) /\ Finish(c, "error")
  /\ UNCHANGED <<pending, pendingUntil, rows, tokens, events, now, accepted>>

(* RegistrationRepository.IsAccountExist: CreateAccount goes on when there *)
(* is no registration, RequestAccountVerificationToken when there is one.  *)
IsAccountExist(c) ==
  /\ go[c].pc = "checkcache"
  /\ LET e == go[c].email
         inCache == pending[e] # None
     IN \/ go[c].op = "CreateAccount" /\ ~inCache /\ Goto(c, "register")
        \/ /\ go[c].op = "RequestAccountVerificationToken" /\ inCache
           /\ go' = [go EXCEPT ![c].pc = "deliver", ![c].until = pendingUntil[e]]
        \/ (inCache <=> go[c].op = "CreateAccount") /\ Finish(c, "error")
        \/ Can("redis") /\ Finish(c, "error")
  /\ UNCHANGED <<pending, pendingUntil, rows, tokens, events, now, accepted>>

-----------------------------------------------------------------------------
(* CreateAccount hashes the password and stores the registration.          *)

SetAccount(c) ==
  LET e == go[c].email
      Store == /\ pending' = [pending EXCEPT ![e] = go[c].profile]
               /\ pendingUntil' = [pendingUntil EXCEPT ![e] = now + TTL]
      Lose == UNCHANGED <<pending, pendingUntil>>
  IN /\ go[c].pc = "register"
     /\ \/ /\ Store \/ (Can("set") /\ Lose)   \* SetAccount drops the error of SET
           /\ accepted' = [accepted EXCEPT ![e] = now + TTL]
           /\ Finish(c, "ok")
        \/ /\ Can("redis")                    \* the request's context is over
           /\ Store \/ Lose
           /\ Finish(c, "error")
           /\ UNCHANGED accepted
     /\ UNCHANGED <<rows, tokens, events, now>>

(* What Kafka has after a message is written that may fail or be lost. The *)
(* writers set no RequiredAcks, so they wait for no acknowledgement: a     *)
(* message the broker never stores is reported as sent.                    *)
Stored(topic, m) == IF Can("kafka") THEN {topic, topic \cup {m}} ELSE {topic \cup {m}}

(* GenerateToken, then RequestEmailVerificationTokenDelivery. A publish    *)
(* that fails may have reached the broker.                                 *)
DeliverToken(c) ==
  LET exp == NumericDate(now + VerifyAccountTokenTTL)
  IN /\ go[c].pc = "deliver"
     /\ tokens' \in Stored(tokens, [email |-> go[c].email, exp |-> exp])
     /\ \E res \in {"ok"} \cup (IF Can("kafka") THEN {"error"} ELSE {}) :
          go' = [go EXCEPT ![c].pc = "done", ![c].exp = exp, ![c].res = res]
     /\ UNCHANGED <<pending, pendingUntil, rows, events, now, accepted>>

-----------------------------------------------------------------------------
(* accountsService.createAccount.                                          *)

(* Mutant: the registration is taken out of Redis as it is read.           *)
GetAndDeleteAccount(c) ==
  /\ go[c].pc = "lookup"
  /\ LET p == pending[go[c].email]
     IN \/ /\ p # None
           /\ go' = [go EXCEPT ![c].pc = "insert", ![c].profile = p]
        \/ p = None /\ Finish(c, "error")
  /\ pending' = [pending EXCEPT ![go[c].email] = None]
  /\ UNCHANGED <<pendingUntil, rows, tokens, events, now, accepted>>

GetAccount(c) ==
  /\ go[c].pc = "lookup"
  /\ LET p == pending[go[c].email]
     IN \/ /\ p # None
           /\ go' = [go EXCEPT ![c].pc = "insert", ![c].profile = p]
        \/ (p = None \/ Can("redis")) /\ Finish(c, "error")
  /\ UNCHANGED <<pending, pendingUntil, rows, tokens, events, now, accepted>>

Inserted(r) == [id |-> r.id, email |-> r.email, profile |-> r.profile]

(* UNIQUE (email): an INSERT waits while another transaction has the same  *)
(* email inserted and not ended, and fails on a committed row.             *)
(* Mutant: a request holds the email from before it waits for it.          *)
LockedEarly(c) == \E d \in Call \ {c} : go[d].pc \in {"insert", "commit"}
                                       /\ go[d].email = go[c].email

Locked(c) == \E d \in Call \ {c} : go[d].pc = "commit" /\ go[d].email = go[c].email

(* Mutant: no unique index.                                                *)
NeverTaken(c) == FALSE
Taken(c) == go[c].email \in Emails(rows)

FreshID == AccountID \ ({r.id : r \in rows} \cup {go[c].id : c \in Call})

(* BeginTx and INSERT ... RETURNING id. No timeout is set for the          *)
(* statement: it waits as long as the other transaction is open.           *)
Insert(c) ==
  /\ go[c].pc = "insert" /\ ~Locked(c)
  /\ \/ /\ ~Taken(c)
        /\ \E id \in FreshID :
             go' = [go EXCEPT ![c].pc = "commit", ![c].id = id]
     \/ Taken(c) /\ Goto(c, "rollback")
  /\ UNCHANGED <<pending, pendingUntil, rows, tokens, events, now, accepted>>

(* The database fails, waiting or not, or it refuses the transaction.      *)
InsertFails(c) ==
  /\ go[c].pc = "insert" /\ Can("db")
  /\ Goto(c, "rollback") \/ Finish(c, "error")
  /\ UNCHANGED <<pending, pendingUntil, rows, tokens, events, now, accepted>>

(* Mutant: an email that has its account counts as verified.               *)
RollbackForgiven(c) ==
  /\ go[c].pc = "rollback"
  /\ Finish(c, IF Taken(c) THEN "ok" ELSE "error")
  /\ UNCHANGED <<pending, pendingUntil, rows, tokens, events, now, accepted>>

(* `err = tx.Rollback()` replaces the error of INSERT. When it succeeds the *)
(* repository returns no transaction and no error, and createAccount calls *)
(* Commit on nil.                                                          *)
Rollback(c) == /\ go[c].pc = "rollback"
               /\ Finish(c, "panic") \/ (Can("db") /\ Finish(c, "error"))
               /\ UNCHANGED <<pending, pendingUntil, rows, tokens, events, now, accepted>>

(* Mutant: the error of Commit is not looked at.                           *)
CommitUnchecked(c) ==
  /\ go[c].pc = "commit"
  /\ rows' = rows \cup {Inserted(go[c])} \/ (Can("db") /\ rows' = rows)
  /\ Goto(c, "publish")
  /\ UNCHANGED <<pending, pendingUntil, tokens, events, now, accepted>>

(* A Commit that fails may have reached the database.                      *)
Commit(c) ==
  /\ go[c].pc = "commit"
  /\ \/ rows' = rows \cup {Inserted(go[c])} /\ Goto(c, "publish")
     \/ Can("db") /\ rows' \in {rows, rows \cup {Inserted(go[c])}} /\ Finish(c, "error")
  /\ UNCHANGED <<pending, pendingUntil, tokens, events, now, accepted>>

AccountCreated(c) ==
  /\ go[c].pc = "publish"
  /\ events' \in Stored(events, Inserted(go[c]))
  /\ Goto(c, "forget") \/ (Can("kafka") /\ Finish(c, "error"))
  /\ UNCHANGED <<pending, pendingUntil, rows, tokens, now, accepted>>

(* RegistrationRepository.DeleteAccount; its error is only logged.         *)
DeleteRegistration(c) ==
  /\ go[c].pc = "forget"
  /\ \/ /\ pending' = [pending EXCEPT ![go[c].email] = None]
        /\ pendingUntil' = [pendingUntil EXCEPT ![go[c].email] = 0]
     \/ Can("redis") /\ UNCHANGED <<pending, pendingUntil>>
  /\ Finish(c, "ok")
  /\ UNCHANGED <<rows, tokens, events, now, accepted>>

-----------------------------------------------------------------------------
Reply(c) == /\ go[c].pc = "done"
            /\ go' = [go EXCEPT ![c] = Idle]
            /\ UNCHANGED <<pending, pendingUntil, rows, tokens, events, now, accepted>>

Init ==
  /\ pending = [e \in Email |-> None]
  /\ pendingUntil = [e \in Email |-> 0]
  /\ accepted = [e \in Email |-> 0]
  /\ rows = {} /\ tokens = {} /\ events = {}
  /\ now = 0
  /\ go = [c \in Call |-> Idle]

Serve(c) ==
  \/ IsAccountWithEmailExist(c) \/ IsAccountExist(c)
  \/ SetAccount(c) \/ DeliverToken(c)
  \/ GetAccount(c) \/ Insert(c) \/ Rollback(c) \/ Commit(c)
  \/ AccountCreated(c) \/ DeleteRegistration(c)
  \/ Reply(c)

Next ==
  \/ Tick \/ Crash
  \/ \E c \in Call : \/ \E op \in Ops : Request(c, op)
                     \/ VerifyAccount(c)
                     \/ Serve(c) \/ InsertFails(c)

Spec == Init /\ [][Next]_vars

(* A goroutine that can run does, and a command that can be answered is.   *)
(* Postgres serves those that wait for a lock in turn, so an INSERT is not *)
(* passed by for ever (SF). Nothing has to fail, no client has to call     *)
(* anything and the clock may stand still.                                 *)
FairSpec == Spec /\ \A c \in Call : WF_vars(Serve(c)) /\ SF_vars(Insert(c))

-----------------------------------------------------------------------------
(* Properties.                                                             *)

(* Every variable has its type.                                            *)
TypeOK ==
  /\ pending \in [Email -> Profile \cup {None}]
  /\ pendingUntil \in [Email -> Time]
  /\ rows \in SUBSET Row
  /\ tokens \in SUBSET Token
  /\ events \in SUBSET Row
  /\ now \in 0..MaxTime
  /\ accepted \in [Email -> Time]
  /\ go \in [Call -> Local]

(* Every account_created message announces a row that is committed, with   *)
(* the username of the very registration whose password the row holds,     *)
(* even if that registration was replaced or expired in the meantime.      *)
EventsMatchRows == events \subseteq rows

(* However often and concurrently a link is followed, an email gets one    *)
(* account.                                                                *)
EmailUnique == \A r \in rows : \A q \in rows : r.email = q.email => r = q

(* A VerifyAccount answered with success has committed a row of its own,   *)
(* with the registration it read, however many follow the link at once.    *)
Verified(c) == go[c].op = "VerifyAccount" /\ go[c].res = "ok"

VerifiedMeansDone == \A c \in Call : Verified(c) => Inserted(go[c]) \in rows

(* repository.go, "caches the account ... with a specified time-to-live":  *)
(* a registration accepted for an email waits until it expires or the      *)
(* email has an account. No failure of Postgres, Kafka or Redis and no     *)
(* crash within VerifyAccount loses it; only its own failed SET does.      *)
AcceptedEmailKept ==
  \A e \in Email : \/ now >= accepted[e]
                   \/ pending[e] # None
                   \/ e \in Emails(rows)

(* A token sent for a registration is good until that registration         *)
(* expires, or to less than a second before.                               *)
TokenOutlivesRegistration ==
  \A c \in Call :
    go[c].pc = "done" /\ go[c].op = "RequestAccountVerificationToken"
      => go[c].exp > go[c].until - Second

(* What holds of the local variables of every goroutine.                   *)
Sound(r) ==
  /\ r.pc \notin {"idle", "done"} => r.email # None /\ r.res = "none"
  /\ r.pc \in {"checkdb", "checkcache"}
       => r.op # "VerifyAccount" /\ (r.op = "CreateAccount" => r.profile # None)
  /\ r.pc = "register" => r.op = "CreateAccount" /\ r.profile # None
  /\ r.pc = "deliver" => r.op # "VerifyAccount" /\ r.until <= now + TTL
  /\ r.pc \in {"insert", "commit", "publish", "forget"} => r.profile # None
  /\ r.pc \in {"commit", "publish"} => r.id # None
  /\ r.pc = "commit" => r.email \notin Emails(rows)
  /\ (r.pc \in {"publish", "forget"} \/ (r.op = "VerifyAccount" /\ r.res = "ok"))
       => Inserted(r) \in rows

(* A goroutine knows of a registration's deadline from when it has found   *)
(* it, and of its token's from when it has generated it.                   *)
Timely(r) == /\ r.pc \notin {"deliver", "done"} => r.until = 0 /\ r.exp = 0
             /\ r.pc = "done" => r.exp > r.until - Second

(* One open transaction at most holds an email that is not committed.      *)
OneHolder == \A c \in Call : \A d \in Call :
  (go[c].pc = "commit" /\ go[d].pc = "commit" /\ go[c].email = go[d].email) => c = d

(* The inductive invariant.                                                *)
IInv == /\ TypeOK
        /\ EventsMatchRows /\ EmailUnique
        /\ \A c \in Call : Sound(go[c]) /\ Timely(go[c])
        /\ OneHolder
        /\ \A e \in Email : pendingUntil[e] <= now + TTL

(* AcceptedEmailKept, made inductive: the registration that waits expires  *)
(* no earlier than the one that was accepted.                              *)
Kept == \A e \in Email :
          /\ accepted[e] <= now + TTL
          /\ \/ now >= accepted[e]
             \/ pending[e] # None /\ pendingUntil[e] >= accepted[e]
             \/ e \in Emails(rows)

(* Every request is answered, those that wait for another transaction on   *)
(* the same email too.                                                     *)
Answered == \A c \in Call : go[c].pc # "idle" ~> go[c].pc = "idle"

(* accountsRepository.go, "CreateAccount creates a new account in the      *)
(* database": when it reports no error there is a transaction to commit.   *)
NoNilTransaction == \A c \in Call : go[c].res # "panic"
=============================================================================
