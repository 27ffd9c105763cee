------------------------------ MODULE Accounts ------------------------------
(***************************************************************************)
(* What happens to an account once it is registered: its password is       *)
(* changed with a token sent to its email, it is signed in to, and it is   *)
(* deleted over Postgres, Kafka and Redis, with the goroutine that         *)
(* terminates its sessions afterwards (internal/service/service.go over    *)
(* the accounts repository, the sessions repository and internal/events).  *)
(* One step is one command to Redis, Postgres or Kafka.                    *)
(*                                                                         *)
(* Sessions are cut down to what deletion sees of them: their keys, the    *)
(* list of each account and the goroutines that write both. Their expiry,  *)
(* their machine ids and how they are ended one by one are in Sessions.    *)
(***************************************************************************)
EXTENDS Integers

CONSTANTS
  Email,       \* email addresses
  Password,    \* passwords, each with its bcrypt hash
  AccountID,   \* the values uuid_generate_v4 can return
  SessionID,   \* the values uuid.NewString can return
  Call,        \* goroutines serving a request (bound on concurrent requests)
  Task,        \* goroutines a request leaves behind (bound on pending ones)
  NumRetries,  \* cfg.NumRetriesForTerminateSessions
  Faults,      \* what may fail: the stores, the broker, a context, the process
  None         \* no value

ASSUME FaultsAssumption ==
  Faults \subseteq {"redis", "db", "kafka", "ctx", "crash"}
ASSUME GoroutineAssumption == Call \cap Task = {}
ASSUME NoneAssumption ==
  None \notin Email \cup Password \cup AccountID \cup SessionID

(* GetConfig: zero retries, or none configured, become one.                *)
ASSUME RetriesAssumption == NumRetries \in Nat \ {0}

VARIABLES
  rows,        \* Postgres: the committed rows of accounts
  keys,        \* Redis: the ids whose session key is present
  list,        \* Redis sets account_<id>: ids of the account's sessions
  tokens,      \* Kafka: password tokens for delivery that have not expired
  events,      \* Kafka: the account_deleted messages
  born,        \* history: the email an account id was inserted with, or None
  owner,       \* history: the account a session id was issued for, or None
  known,       \* history: session ids that some reply gave to a client
  sent,        \* history: the account_deleted messages handed to the writer
  stray,       \* history: sessions a deletion cannot find (see StrayWrite)
  unfinished,  \* history: deleted accounts whose clean-up was cut short
  go           \* the goroutines

stores == <<rows, keys, list, tokens, events>>
history == <<born, owner, known, sent, stray, unfinished>>
vars == <<rows, keys, list, tokens, events,
          born, owner, known, sent, stray, unfinished, go>>

Goroutine == Call \cup Task
Row == [id: AccountID, email: Email, password: Password]

(* account is history: the account that had the email when the token was   *)
(* requested. The token itself names the email only.                       *)
Token == [email: Email, account: AccountID]
Event == [id: AccountID, email: Email]

IDs(R) == {r.id : r \in R}
Emails(R) == {r.email : r \in R}
Gone == {a \in AccountID : born[a] # None /\ a \notin IDs(rows)}

-----------------------------------------------------------------------------
(* Goroutines: program counter, arguments and local variables.             *)

Ops == {"SignIn", "RequestChangePasswordToken", "ChangePassword",
        "DeleteAccount"}

PC == {"idle", "set", "sadd", "deliver", "update",
       "email", "delete", "rollback", "publish", "commit",
       "smembers", "delkeys", "dellist", "done", "abandoned"}

Result == {"none", "ok", "error", "panic"}

(* The transaction of DeleteAccount: not there, open, or rolled back when  *)
(* the context it was begun with was over.                                 *)
Tx == {"nil", "open", "over"}

(* id is the account worked on; for ChangePassword it is history, the      *)
(* account its token was requested for.                                    *)
Local == [pc: PC, op: Ops \cup {"none"}, email: Email \cup {None},
          password: Password \cup {None}, id: AccountID \cup {None},
          sid: SessionID \cup {None}, ids: SUBSET SessionID,
          tx: Tx, tries: 0..(NumRetries - 1), res: Result]

Idle == [pc |-> "idle", op |-> "none", email |-> None, password |-> None,
         id |-> None, sid |-> None, ids |-> {}, tx |-> "nil", tries |-> 0,
         res |-> "none"]

Goto(g, p) == go' = [go EXCEPT ![g].pc = p]

(* updateSession only logs its error.                                      *)
Finish(g, res) ==
  go' = [go EXCEPT ![g] = IF g \in Task THEN Idle
                          ELSE [@ EXCEPT !.pc = "done", !.res = res]]

Can(fault) == fault \in Faults

-----------------------------------------------------------------------------
(* VerifyAccount inserts and commits a row: see Registration. UNIQUE       *)
(* (email) also refuses a row whose deletion is not committed yet.         *)
Register ==
  /\ \E a \in AccountID, e \in Email, p \in Password :
       /\ born[a] = None /\ e \notin Emails(rows)
       /\ rows' = rows \cup {[id |-> a, email |-> e, password |-> p]}
       /\ born' = [born EXCEPT ![a] = e]
  /\ UNCHANGED <<keys, list, tokens, events, owner, known, sent, stray, unfinished, go>>

(* The process dies and starts again: the server of the database rolls     *)
(* open transactions back, and the goroutines are not started again.       *)
Crash ==
  /\ Can("crash")
  /\ \E g \in Goroutine : go[g].pc # "idle"
  /\ go' = [g \in Goroutine |-> Idle]
  /\ stray' = stray \cup {go[g].sid : g \in {h \in Goroutine : go[h].pc = "sadd"}}
  /\ unfinished' = unfinished \cup
       {go[t].id : t \in {u \in Task : go[u].pc \in {"smembers", "delkeys", "dellist"}}}
  /\ UNCHANGED <<stores, born, owner, known, sent>>

-----------------------------------------------------------------------------
(* Sessions: SetSession, run by SignIn and by updateSession.               *)

(* A clean-up of the sessions of account a has still to read their list,   *)
(* and none that has read it is about to delete it.                        *)
Searched(a) ==
  /\ \E t \in Task : go[t].pc = "smembers" /\ go[t].id = a
  /\ ~\E t \in Task : go[t].pc \in {"delkeys", "dellist"} /\ go[t].id = a

(* TerminateAllSessions misses a session that is listed after it has read  *)
(* the list, and one whose SADD failed.                                    *)
StrayWrite(g) == stray' = IF go[g].id \in Gone /\ ~Searched(go[g].id)
                          THEN stray \cup {go[g].sid} ELSE stray

SetKey(g) ==
  /\ go[g].pc = "set"
  /\ \/ /\ keys' = keys \cup {go[g].sid}
        /\ Goto(g, "sadd")
     \/ Can("redis") /\ Finish(g, "error") /\ UNCHANGED keys
  /\ UNCHANGED <<rows, list, tokens, events, history>>

AddToList(g) ==
  /\ go[g].pc = "sadd"
  /\ \/ /\ list' = [list EXCEPT ![go[g].id] = @ \cup {go[g].sid}]
        /\ StrayWrite(g)
        /\ Finish(g, "ok") \/ (Can("redis") /\ Finish(g, "error"))
     \/ /\ Can("redis")
        /\ stray' = stray \cup {go[g].sid}
        /\ Finish(g, "error")
        /\ UNCHANGED list
  /\ UNCHANGED <<rows, keys, tokens, events, born, owner, known, sent, unfinished>>

(* SignIn: GetAccountByEmail and the comparison with the hash it returned. *)
SignIn(c) ==
  /\ go[c].pc = "idle"
  /\ \E e \in Email, p \in Password :
       \/ \E r \in rows, s \in SessionID :
            /\ r.email = e /\ r.password = p /\ owner[s] = None
            /\ owner' = [owner EXCEPT ![s] = r.id]
            /\ go' = [go EXCEPT ![c] = [Idle EXCEPT !.pc = "set", !.op = "SignIn",
                                          !.email = e, !.id = r.id, !.sid = s]]
       \/ /\ Can("db") \/ ~\E r \in rows : r.email = e /\ r.password = p
          /\ go' = [go EXCEPT ![c] = [Idle EXCEPT !.pc = "done", !.op = "SignIn",
                                                  !.res = "error"]]
          /\ UNCHANGED owner
  /\ UNCHANGED <<stores, born, known, sent, stray, unfinished>>

(* A request that passes checkAndUpdateSession leaves an updateSession.    *)
CheckAndUpdateSession(t) ==
  /\ go[t].pc = "idle"
  /\ \E s \in keys \cap known : go' = [go EXCEPT ![t] = [Idle EXCEPT !.pc = "set", !.sid = s,
                                                !.id = owner[s]]]
  /\ UNCHANGED <<stores, history>>

-----------------------------------------------------------------------------
(* Passwords.                                                              *)

(* Mutant: the token is sent to any address.                               *)
HasAccountUnchecked(e, a) == born[a] = e \/ born[a] = None
HasAccount(e, a) == \E r \in rows : r.email = e /\ r.id = a

RequestChangePasswordToken(c) ==
  /\ go[c].pc = "idle"
  /\ \E e \in Email :
       \/ \E a \in AccountID :
            /\ HasAccount(e, a)
            /\ go' = [go EXCEPT ![c] = [Idle EXCEPT !.pc = "deliver", !.email = e, !.id = a,
                                          !.op = "RequestChangePasswordToken"]]
       \/ /\ Can("db") \/ e \notin Emails(rows)
          /\ go' = [go EXCEPT ![c] = [Idle EXCEPT !.pc = "done", !.res = "error",
                                        !.op = "RequestChangePasswordToken"]]
  /\ UNCHANGED <<stores, history>>

(* What Kafka has after a message is written that may fail or be lost. The *)
(* writers set no RequiredAcks, so they wait for no acknowledgement: a     *)
(* message the broker never stores is reported as sent.                    *)
Stored(topic, m) == IF Can("kafka") THEN {topic, topic \cup {m}} ELSE {topic \cup {m}}

(* A publish that fails may have reached the broker.                       *)
DeliverToken(c) ==
  LET t == [email |-> go[c].email, account |-> go[c].id]
  IN /\ go[c].pc = "deliver"
     /\ tokens' \in Stored(tokens, t)
     /\ Finish(c, "ok") \/ (Can("kafka") /\ Finish(c, "error"))
     /\ UNCHANGED <<rows, keys, list, events, history>>

(* ChangePasswordTokenTTL passes; nothing else ends a token.               *)
ExpireToken == /\ \E t \in tokens : tokens' = tokens \ {t}
               /\ UNCHANGED <<rows, keys, list, events, history, go>>

(* ParseToken and IsAccountWithEmailExist.                                 *)
ChangePassword(c) ==
  /\ go[c].pc = "idle"
  /\ \E t \in tokens, p \in Password :
       \/ /\ t.email \in Emails(rows)
          /\ go' = [go EXCEPT ![c] = [Idle EXCEPT !.pc = "update", !.op = "ChangePassword",
                                        !.email = t.email, !.password = p, !.id = t.account]]
       \/ /\ Can("db") \/ t.email \notin Emails(rows)
          /\ go' = [go EXCEPT ![c] = [Idle EXCEPT !.pc = "done", !.op = "ChangePassword",
                                                  !.res = "error"]]
  /\ UNCHANGED <<stores, history>>

(* A statement on a row waits for a transaction that has deleted the row.  *)
RowLocked(c, a) == /\ a \in IDs(rows)
                   /\ \E d \in Call \ {c} : go[d].tx = "open" /\ go[d].id = a

Rehashed(r, p) == [r EXCEPT !.password = p]

(* Mutant: the number of rows is not looked at.                            *)
UpdatePasswordUncounted(c) ==
  LET mine == {r \in rows : r.email = go[c].email}
  IN /\ go[c].pc = "update"
     /\ \A a \in IDs(mine) : ~RowLocked(c, a)
     /\ rows' = (rows \ mine) \cup {Rehashed(r, go[c].password) : r \in mine}
     /\ Finish(c, "ok")
     /\ UNCHANGED <<keys, list, tokens, events, history>>

(* No timeout is set for the statement: it waits as long as the lock is    *)
(* held. A context that is over replaces success by an error.              *)
UpdatePassword(c) ==
  LET mine == {r \in rows : r.email = go[c].email}
  IN /\ go[c].pc = "update"
     /\ \A a \in IDs(mine) : ~RowLocked(c, a)
     /\ rows' = (rows \ mine) \cup {Rehashed(r, go[c].password) : r \in mine}
     /\ IF mine = {} THEN Finish(c, "error")
        ELSE \/ Finish(c, "ok")
             \/ (Can("ctx") \/ Can("db")) /\ Finish(c, "error")
     /\ UNCHANGED <<keys, list, tokens, events, history>>

(* The database fails or the context ends, waiting for the lock or not.    *)
UpdatePasswordFails(c) ==
  /\ go[c].pc = "update"
  /\ Can("ctx") \/ Can("db")
  /\ Finish(c, "error")
  /\ UNCHANGED <<stores, history>>

-----------------------------------------------------------------------------
(* DeleteAccount.                                                          *)

(* checkSession.                                                           *)
DeleteAccount(c) ==
  /\ go[c].pc = "idle"
  /\ \E s \in known :
       \/ /\ s \in keys
          /\ go' = [go EXCEPT ![c] = [Idle EXCEPT !.pc = "email", !.op = "DeleteAccount",
                                                  !.sid = s, !.id = owner[s]]]
       \/ /\ s \notin keys \/ Can("redis")
          /\ go' = [go EXCEPT ![c] = [Idle EXCEPT !.pc = "done", !.op = "DeleteAccount",
                                                  !.res = "error"]]
  /\ UNCHANGED <<stores, history>>

GetAccountEmail(c) ==
  /\ go[c].pc = "email"
  /\ \/ \E r \in rows : /\ r.id = go[c].id
                        /\ go' = [go EXCEPT ![c].pc = "delete", ![c].email = r.email]
     \/ (go[c].id \notin IDs(rows) \/ Can("db")) /\ Finish(c, "error")
  /\ UNCHANGED <<stores, history>>

(* Mutant: the event is sent once the transaction is committed.            *)
DeleteRowCommitFirst(c) ==
  /\ go[c].pc = "delete" /\ ~RowLocked(c, go[c].id)
  /\ rows' = {r \in rows : r.id # go[c].id}
  /\ Goto(c, "publish")
  /\ UNCHANGED <<keys, list, tokens, events, history>>

(* BeginTx and DELETE, which waits like UPDATE; that no row was there is    *)
(* not an error. A context that is over replaces success by an error and   *)
(* leaves the transaction to it.                                           *)
DeleteRow(c) ==
  /\ go[c].pc = "delete" /\ ~RowLocked(c, go[c].id)
  /\ \/ go' = [go EXCEPT ![c].pc = "publish", ![c].tx = "open"]
     \/ /\ Can("ctx")
        /\ go' = [go EXCEPT ![c].pc = "done", ![c].tx = "open", ![c].res = "error"]
  /\ UNCHANGED <<stores, history>>

(* DELETE fails, waiting or not, and `err = tx.Rollback()` replaces its    *)
(* error; or BeginTx does, or the context ends while DELETE waits.         *)
DeleteRowFails(c) ==
  /\ go[c].pc = "delete"
  /\ \/ Can("db") /\ Goto(c, "rollback")
     \/ (Can("db") \/ Can("ctx")) /\ Finish(c, "error")
  /\ UNCHANGED <<stores, history>>

(* After a Rollback that succeeds there is no transaction and no error:    *)
(* the deletion is announced, and Commit is called on nil.                 *)
Rollback(c) == /\ go[c].pc = "rollback"
               /\ Goto(c, "publish") \/ Finish(c, "error")
               /\ UNCHANGED <<stores, history>>

(* BeginTx(ctx): the transaction is rolled back as soon as ctx is over.    *)
ContextEnds(c) == /\ Can("ctx")
                  /\ go[c].tx = "open" /\ go[c].pc \in {"publish", "commit"}
                  /\ go' = [go EXCEPT ![c].tx = "over"]
                  /\ UNCHANGED <<stores, history>>

Announced(r) == [id |-> r.id, email |-> r.email]

(* WriteMessages. When it fails, the broker may have the message all the   *)
(* same and the open transaction is not rolled back; when it succeeds, the *)
(* broker may not have it (Stored). A context that is over makes an error  *)
(* of it.                                                                  *)
AccountDeleted(c) ==
  /\ go[c].pc = "publish"
  /\ sent' = sent \cup {Announced(go[c])}
  /\ \/ /\ go[c].tx # "over"
        /\ events' \in Stored(events, Announced(go[c]))
        /\ Goto(c, "commit")
     \/ /\ Can("kafka") \/ Can("ctx")
        /\ events' \in {events, events \cup {Announced(go[c])}}
        /\ Finish(c, "error")
  /\ UNCHANGED <<rows, keys, list, tokens, born, owner, known, stray, unfinished>>

Deleted(a) == {r \in rows : r.id # a}

(* Mutant: the error of Commit is not looked at.                           *)
CommitUnchecked(c) ==
  /\ go[c].pc = "commit"
  /\ rows' = IF go[c].tx = "open" THEN Deleted(go[c].id) ELSE rows
  /\ Finish(c, "ok")
  /\ UNCHANGED <<keys, list, tokens, events, history>>

(* A Commit that fails may have reached the database; only one that        *)
(* succeeds starts the goroutine that terminates the sessions.             *)
Commit(c) ==
  LET a == go[c].id
  IN /\ go[c].pc = "commit"
     /\ \/ /\ go[c].tx = "open"
           /\ rows' = Deleted(a)
           /\ \E t \in {u \in Task : go[u].pc = "idle"} :
                go' = [go EXCEPT ![c] = [@ EXCEPT !.pc = "done", !.res = "ok", !.tx = "nil"],
                                 ![t] = [Idle EXCEPT !.pc = "smembers", !.id = a]]
           /\ UNCHANGED unfinished
        \/ /\ go[c].tx = "open" /\ Can("db")
           /\ rows' \in {rows, Deleted(a)}
           /\ unfinished' = unfinished \cup {a}
           /\ go' = [go EXCEPT ![c] = [@ EXCEPT !.pc = "done", !.res = "error", !.tx = "nil"]]
        \/ go[c].tx = "nil" /\ Finish(c, "panic") /\ UNCHANGED <<rows, unfinished>>
        \/ go[c].tx = "over" /\ Finish(c, "error") /\ UNCHANGED <<rows, unfinished>>
     /\ UNCHANGED <<keys, list, tokens, events, born, owner, known, sent, stray>>

-----------------------------------------------------------------------------
(* The goroutine of DeleteAccount and SessionsRepository.                  *)
(* TerminateAllSessions: SMEMBERS, then DEL of the keys and of the list in *)
(* a pipeline.                                                             *)

(* Mutant: one attempt too many.                                           *)
RetryOnceMore(t) ==
  IF go[t].tries < NumRetries
  THEN /\ go' = [go EXCEPT ![t] = [Idle EXCEPT !.pc = "smembers", !.id = go[t].id,
                                               !.tries = go[t].tries + 1]]
       /\ UNCHANGED unfinished
  ELSE /\ go' = [go EXCEPT ![t] = Idle]
       /\ unfinished' = unfinished \cup {go[t].id}

(* Mutant: the attempts are not counted.                                   *)
RetryForever(t) ==
  /\ go' = [go EXCEPT ![t] = [Idle EXCEPT !.pc = "smembers", !.id = go[t].id]]
  /\ UNCHANGED unfinished

(* Another attempt after a sleep, or none is left.                         *)
Retry(t) ==
  IF go[t].tries + 1 < NumRetries
  THEN /\ go' = [go EXCEPT ![t] = [Idle EXCEPT !.pc = "smembers", !.id = go[t].id,
                                               !.tries = go[t].tries + 1]]
       /\ UNCHANGED unfinished
  ELSE /\ go' = [go EXCEPT ![t] = Idle]
       /\ unfinished' = unfinished \cup {go[t].id}

(* An error of SMEMBERS leaves an empty list, which is no error: nothing   *)
(* is tried again.                                                         *)
SMembers(t) ==
  /\ go[t].pc = "smembers"
  /\ \/ /\ list[go[t].id] # {}
        /\ go' = [go EXCEPT ![t].pc = "delkeys", ![t].ids = list[go[t].id]]
        /\ UNCHANGED unfinished
     \/ list[go[t].id] = {} /\ Finish(t, "ok") /\ UNCHANGED unfinished
     \/ /\ Can("redis")
        /\ unfinished' = unfinished \cup {go[t].id}
        /\ Finish(t, "ok")
  /\ UNCHANGED <<stores, born, owner, known, sent, stray>>

(* Mutant: the list goes and the keys stay.                                *)
DelKeysSkipped(t) == /\ go[t].pc = "delkeys"
                     /\ Goto(t, "dellist")
                     /\ UNCHANGED <<stores, history>>

DelKeys(t) ==
  /\ go[t].pc = "delkeys"
  /\ \/ /\ keys' = keys \ go[t].ids
        /\ Goto(t, "dellist")
        /\ UNCHANGED unfinished
     \/ Can("redis") /\ Retry(t) /\ UNCHANGED keys
  /\ UNCHANGED <<rows, list, tokens, events, born, owner, known, sent, stray>>

DelList(t) ==
  /\ go[t].pc = "dellist"
  /\ \/ /\ list' = [list EXCEPT ![go[t].id] = {}]
        /\ Finish(t, "ok")
        /\ UNCHANGED unfinished
     \/ /\ Can("redis")
        /\ list' \in {list, [list EXCEPT ![go[t].id] = {}]}
        /\ Retry(t)
  /\ UNCHANGED <<rows, keys, tokens, events, born, owner, known, sent, stray>>

-----------------------------------------------------------------------------
(* Mutant: a transaction left open is never rolled back.                   *)
ReplyLeaked(c) ==
  /\ go[c].pc = "done"
  /\ known' = IF go[c].op = "SignIn" /\ go[c].res = "ok"
              THEN known \cup {go[c].sid} ELSE known
  /\ go' = [go EXCEPT ![c] = [Idle EXCEPT !.tx = go[c].tx, !.id = go[c].id]]
  /\ UNCHANGED <<stores, born, owner, sent, stray, unfinished>>

(* The reply is sent and the context of the request is cancelled, which in *)
(* time rolls back a transaction that was left open.                       *)
Reply(c) ==
  /\ go[c].pc = "done"
  /\ known' = IF go[c].op = "SignIn" /\ go[c].res = "ok"
              THEN known \cup {go[c].sid} ELSE known
  /\ IF go[c].tx = "open" THEN Goto(c, "abandoned") ELSE go' = [go EXCEPT ![c] = Idle]
  /\ UNCHANGED <<stores, born, owner, sent, stray, unfinished>>

RollbackAbandoned(c) == /\ go[c].pc = "abandoned"
                        /\ go' = [go EXCEPT ![c] = Idle]
                        /\ UNCHANGED <<stores, history>>

Init ==
  /\ rows = {} /\ keys = {} /\ tokens = {} /\ events = {}
  /\ list = [a \in AccountID |-> {}]
  /\ born = [a \in AccountID |-> None]
  /\ owner = [s \in SessionID |-> None]
  /\ known = {} /\ sent = {} /\ stray = {} /\ unfinished = {}
  /\ go = [g \in Goroutine |-> Idle]

Start(c) == \/ SignIn(c) \/ RequestChangePasswordToken(c)
            \/ ChangePassword(c) \/ DeleteAccount(c)

ServeCall(c) ==
  \/ DeliverToken(c) \/ UpdatePassword(c)
  \/ GetAccountEmail(c) \/ DeleteRow(c) \/ Rollback(c)
  \/ AccountDeleted(c) \/ Commit(c)
  \/ Reply(c) \/ RollbackAbandoned(c)

ServeTask(t) == SMembers(t) \/ DelKeys(t) \/ DelList(t)

Write(g) == SetKey(g) \/ AddToList(g)

Next ==
  \/ Register \/ Crash \/ ExpireToken
  \/ \E g \in Goroutine : Write(g)
  \/ \E c \in Call : \/ Start(c) \/ ServeCall(c)
                     \/ ContextEnds(c) \/ UpdatePasswordFails(c) \/ DeleteRowFails(c)
  \/ \E t \in Task : CheckAndUpdateSession(t) \/ ServeTask(t)

Spec == Init /\ [][Next]_vars

(* A goroutine that can run does, and a command that can be answered is.   *)
(* Postgres serves those that wait for a lock in turn, so a statement is   *)
(* not passed by for ever (SF); nor is a Commit by the other goroutines    *)
(* that would use the last of Task, since a `go` statement does not wait.  *)
(* No client has to call anything, and nothing has to fail or expire.      *)
FairSpec == /\ Spec
            /\ \A c \in Call : /\ WF_vars(Write(c) \/ ServeCall(c))
                              /\ SF_vars(UpdatePassword(c)) /\ SF_vars(DeleteRow(c))
                              /\ SF_vars(Commit(c))
            /\ \A t \in Task : WF_vars(Write(t) \/ ServeTask(t))

-----------------------------------------------------------------------------
(* Properties.                                                             *)

(* Every variable has its type.                                            *)
TypeOK ==
  /\ rows \in SUBSET Row
  /\ keys \in SUBSET SessionID
  /\ list \in [AccountID -> SUBSET SessionID]
  /\ tokens \in SUBSET Token
  /\ events \in SUBSET Event
  /\ born \in [AccountID -> Email \cup {None}]
  /\ owner \in [SessionID -> AccountID \cup {None}]
  /\ known \in SUBSET SessionID
  /\ sent \in SUBSET Event
  /\ stray \in SUBSET SessionID
  /\ unfinished \in SUBSET AccountID
  /\ go \in [Goroutine -> Local]

(* The life of an account id as the abstract specification sees it.        *)
PhaseOf(a) == IF born[a] = None THEN "unborn"
              ELSE IF a \notin IDs(rows) THEN "deleted"
              ELSE IF a \in IDs(sent) THEN "announced" ELSE "active"

Lifecycle == INSTANCE AccountLifecycle WITH
               phase <- [a \in AccountID |-> PhaseOf(a)]

(* Whatever fails between DELETE, publish and Commit, and however many     *)
(* deletions of one account run at once, no account disappears before its  *)
(* account_deleted message is handed to the writer, and none comes back    *)
(* under its id.                                                           *)
LifecycleSpec == Lifecycle!Spec

(* A DeleteAccount answered with success removed the row and handed over   *)
(* the message with the account's own email, though the email was read     *)
(* before the row was locked.                                              *)
DeletedMeansDone ==
  \A c \in Call : (go[c].op = "DeleteAccount" /\ go[c].res = "ok")
                   => /\ go[c].id \in Gone
                      /\ [id |-> go[c].id, email |-> born[go[c].id]] \in sent

(* A token changes the password of the account it was requested for, or of *)
(* one that registered its email after that account was deleted.           *)
PasswordOnlyByToken ==
  [][\A r \in rows, q \in rows' : (r.id = q.id /\ r.password # q.password)
       => \E c \in Call : /\ go[c].pc = "update"
                           /\ born[go[c].id] = r.email
                           /\ go[c].id \in {r.id} \cup Gone]_vars

(* ChangePassword answers success only when it has just written the new    *)
(* password: an account deleted after the check is not taken for changed.  *)
ChangedMeansWritten ==
  [][\A c \in Call :
       (go[c].pc = "update" /\ go'[c].res = "ok")
         => \E r \in rows' : r.email = go[c].email /\ r.password = go[c].password]_vars

(* A goroutine is about to end session s.                                  *)
BeingEnded(s) == \E t \in Task : /\ go[t].id = owner[s]
                                  /\ \/ go[t].pc = "smembers"
                                     \/ go[t].pc = "delkeys" /\ s \in go[t].ids

(* SetSession has written the key of s and not yet the list.               *)
HalfWritten(s) == \E g \in Goroutine : go[g].pc = "sadd" /\ go[g].sid = s

(* The sessions of a deleted account are gone, or a goroutine is about to  *)
(* end them. All that may survive are sessions that a request or an update *)
(* put on the list after a clean-up had read it, or whose SADD failed, and *)
(* those of an account whose clean-up was cut short: Commit reported an    *)
(* error for a deletion that took place, the process died, or Redis        *)
(* failed. A session written before a clean-up reads the list is ended,    *)
(* also when two clean-ups and an update of it run at once.                *)
SessionsEnd ==
  \A s \in keys : \/ owner[s] \notin Gone
                  \/ s \in stray
                  \/ owner[s] \in unfinished
                  \/ HalfWritten(s)
                  \/ BeingEnded(s)

(* Every request is answered and every goroutine it leaves comes to its    *)
(* end: those that wait for a deletion someone began and abandoned too.    *)
Answered == \A g \in Goroutine : go[g].pc # "idle" ~> go[g].pc = "idle"
=============================================================================
