# The accounts service in TLA+

These modules specify the accounts service of this repository
(`internal/service/service.go` and the packages under it), model-check it with
TLC on small instances, and prove what matters most about it with TLAPS.
Paths below are relative to the repository.

## The system

The service is one Go process that answers gRPC (and REST) calls. It keeps no
state between calls: everything lives in two Redis databases, one Postgres
table and two Kafka writers. All that makes it hard comes from calls that run
at the same time, from goroutines that outlive their call, and from commands to
four stores that may fail one by one.

| Part | Source | State | Operations |
|-|-|-|-|
| sessions | `internal/service/service.go` (`SignIn`, `GetAccountID`, `Logout`, `GetAllSessions`, `TerminateSessions`, `checkSession`, `updateSession`), `redisrepository/sessionsRepository.go` | Redis: a string per session id, a set `account_<id>` per account, both with a TTL; goroutines `go s.updateSession(...)` | issue, check, refresh, list and end sessions |
| registration | `service.go` (`CreateAccount`, `RequestAccountVerificationToken`, `VerifyAccount`, `createAccount`), `redisrepository/registrationRepository.go` | Redis: a registration per email, with a TTL | accept a registration, send a token, turn it into an account |
| account deletion | `service.go` (`DeleteAccount`), `TerminateAllSessions` | a transaction, a goroutine of retries | delete the row, announce it, end the sessions |
| passwords | `service.go` (`RequestChangePasswordToken`, `ChangePassword`) | the row's hash | send a token, set a password |
| accounts | `postgresrepository/accountsRepository.go`, `accounts_db/db/up.sql` | the table `accounts`, `email` unique; open transactions | insert, look up, change password, delete |
| events | `internal/events` | Kafka topics | `account_created`, `account_deleted`, token delivery requests |
| tokens | `pkg/jwt` | none (signed, expiring) | issue, check |
| handlers | `internal/handler`, `internal/models/errors.go` | none | validate, read headers, translate errors |
| generated code | `pkg/accounts_service/v1/protos` | none | decode gRPC and REST requests, call the handlers |
| process | `cmd/server/app.go`, `internal/config` | connections, three goroutines, two channels, the variable `err` they share | start, serve, shut down |
| metrics, tracing, logs | `pkg/metrics`, `pkg/jaeger`, `pkg/logging` | counters, a tracer | count, report |

How they meet: sign-in reads an account and writes a session; the check at the
head of every authenticated call reads a session and leaves a goroutine that
writes it back; account deletion spans all stores; verification moves a
registration from Redis to Postgres and then to Kafka.

What makes each correct:

* sessions: a record never changes account or machine; a session ends by expiry
  or by a request entitled to end it, and then stays ended; the list of an
  account holds its own sessions, all of them, for as long as they live;
* registration: an accepted registration is neither lost nor accepted twice; an
  email has one account; what is announced exists and what exists is announced;
  a token works as long as its registration (to a second);
* account deletion: what was deleted is announced, what is announced was
  deleted, and no session outlives its account;
* passwords: a token changes the password of the account it was sent to, and a
  change that is confirmed was made;
* handlers and errors: success means done, a refusal means nothing was changed,
  and an error keeps its meaning on its way to the client;
* process: no request without its stores, an orderly stop on every signal and
  every failed endpoint, and what was opened is closed.

Not all of this is true of the code. What is not has a run that ends in a
violation, or is named under "Runs". The full list of hazards, each at its line, is in `PROJECT.json`.

## Modules

| Module | Models |
|-|-|
| `SessionLifecycle` | abstract: the life of one session id (unissued, pending, live, ended), with "ended" final |
| `Sessions` | the session operations, one step per Redis command, and the update goroutines; refines `SessionLifecycle` |
| `SessionsProofs` | theorems about `Sessions`: its invariant, the bindings, the refinement |
| `SessionsIndexProofs` | theorem about the expiry of its lists |
| `SessionsEndingProofs` | theorem about what a `Logout` or `TerminateSessions` answered with success has done |
| `Registration` | registration, verification, the `accounts` table as far as they use it, the tokens and `account_created` |
| `RegistrationProofs` | theorems about `Registration` |
| `AccountLifecycle` | abstract: the life of one account id as the listeners of `account_deleted` are promised it (unborn, active, announced, deleted) |
| `Accounts` | deletion over Postgres, Kafka and Redis with its clean-up goroutine, passwords, and what both need of sign-in and updates; refines `AccountLifecycle` |
| `AccountsProofs` | theorems about `Accounts` |
| `Outcomes` | one request from its arrival to its reply: the calls of each of the eleven operations, the goroutines it starts, and three translations of its errors |
| `Process` | `main` from start to end, its goroutines, channels, signals and deferred calls |
| `OutcomesProofs`, `ProcessProofs` | theorems about these two |
| `MCSessions`, `MCRegistration`, `MCAccounts`, `MCProcess`, `MCOutcomes` | symmetry sets for TLC |

`Accounts` is where the components meet: it composes the accounts repository,
the events and as much of the session store as deletion can see. The sessions of
one id, their expiry and their machines are left to `Sessions`; how a row comes
to be, to `Registration` (here the single step `Register`). `Outcomes` cuts the
system the other way: it forgets what the stores hold and keeps what each level
makes of an error. `Process` takes from all of them only that a request ends.

### Conventions

A request is a goroutine `c \in Call` with a record `go[c]`: a program counter,
its arguments and its local variables. Each command to a store is one action,
whose guard is `go[c].pc = ...`; what follows in the code until the next command
(conditions, early returns) is part of it. A finished request waits in `"done"`
and `Reply` delivers the answer, so what a client knows and what is true of the
stores can come apart as they can in reality. Times are ticks of a clock `now`;
the expiry of Redis keys is part of `Tick`.

A failure of a command is a choice between "it took effect" and "it did not",
followed by the error path of the code. A request whose context is cancelled or
out of time is the same to the code: `handleError` in every repository replaces
the result, whatever it was, by the context's error. Values nobody branches on
(hashes, names, addresses, messages, error codes) are left out or are model
values.

Both Kafka writers are `kafka.Writer` literals without `RequiredAcks`
(`accountsEvents.go:21`, `tokensDeliveryMQ.go:20`), and the zero value of that field
waits for no acknowledgement. A publish therefore has four outcomes under the fault
`"kafka"`: reported as done or as failed, and stored or not (`Stored`). What a
reported success is worth is that the message was handed to the writer, and no
property or theorem about a success answer claims more. A writer may also deliver
twice, which a set does not tell apart.

A statement that waits for a lock has no timeout in the code. It is enabled when the
lock is free; its failures (`InsertFails`, `UpdatePasswordFails`, `DeleteRowFails`)
may come at any time, waiting or not, and are actions of their own that no fairness
asks for.

### `Sessions`

| Model | Code |
|-|-|
| `store`, `deadline` | the string keys and their TTL |
| `index`, `indexDeadline` | the sets `account_<id>` and their TTL; an emptied set is gone |
| `issued`, `known` | history: for which account and machine an id was issued, and which ids a reply has given to a client |
| `go[c].missed` | history: the request has passed a session by that it was to end |
| `SignIn`, `SetKey`, `AddToIndex`, `ExpireIndex` | `SignIn` and `SetSession`, whose pipeline SET, SADD, EXPIRE is no transaction |
| `Request`, `CheckRejected`, `CheckedLogout`, `CheckedAndUpdated` | the headers, `checkSession`, and `checkAndUpdateSession` with the goroutine it starts (two for `TerminateSessions` that does not name the caller's session, `service.go:328`) |
| `MGetKeys`, `PruneIndex`, `DelKeys`, `RemoveFromIndex` | `TerminateSessions` of the repository with `removeNonexistantKeys` |
| `SMembers`, `ListSessions` | `GetSessionsForAccount` |

`removeNonexistantKeys` deserves a word. It collects the *values* MGET returns
and then looks the *keys* up among them. Values are JSON records that contain
the session id, so they are distinct and never equal to a key. Hence: if every
id named is live and none is named twice, the counts agree and the ids are
handed back; otherwise every id is taken for nonexistent and removed from the
account's list, and the DEL and SREM that follow are given JSON records and do
nothing. That is `NothingToRemove` and `PruneIndex`. Its error is dropped by the
caller (`sessionsRepository.go:149-152`), so under `Faults` `MGetKeys`
(`MGetDropped`) and `PruneIndex` may finish with either answer.

The data race on `session.LastActivity` between the goroutine and its caller
(the goroutine gets a pointer to the caller's variable) touches a field no one
in the caller reads and is not modelled. The rows of `accounts` are not part of
this module: `SignInRejected` stands for every way the lookup can refuse.

Environment: clients use session ids and machine ids. An id is one some reply gave
to a client, whose ever: `TerminateSessions` may name any set of such ids, of the
caller's account or of others (`Named`), since no code compares their accounts. Any
machine id may be sent.

A tick of the clock is a second or longer and `SessionTTL` whole seconds: go-redis
sends EXPIRE in whole seconds but SET in milliseconds if it must, so with a TTL of,
say, 1.5 s every list would expire before its keys.

### `Registration`

| Model | Code |
|-|-|
| `pending`, `pendingUntil` | the registration keys and their TTL |
| `rows` | committed rows; `profile` is the password hash together with the username that was registered with it (the column holds the hash, the event the name) |
| `tokens`, `events` | the messages Kafka has |
| `accepted` | history: until when the registration that `CreateAccount` last accepted for an email was to wait |
| `go[c].until`, `go[c].exp` | history: when the registration a token is sent for expires, and when the token does |
| `IsAccountWithEmailExist`, `IsAccountExist`, `SetAccount` | `CreateAccount`, and the two checks of `RequestAccountVerificationToken` |
| `DeliverToken`, `NumericDate` | `GenerateToken`, whose expiry is encoded in whole seconds (`Second` ticks), and the Kafka message |
| `VerifyAccount`, `GetAccount`, `Insert`, `InsertFails`, `Rollback`, `Commit`, `AccountCreated`, `DeleteRegistration` | `VerifyAccount` and `createAccount` |
| `Crash` | the process dies; Postgres rolls the open transactions back |

A failed SET of a registration, whose error `SetAccount` drops
(`registrationRepository.go:79`), is a fault `"set"` apart from the other failures of
Redis, so that what holds without it can be said with all the rest.

`VerifyAccountTokenTTL` is `NonActivatedAccountTTL`, by `getAccountServiceConfig`
(`app.go:179-191`). `README.md:114` documents a setting `ttl` of
`verify_account_token`; the configuration has no such key (`config.go:60-62`), so
what an operator writes there is ignored.

`Locked` and `Taken` are the unique index: an INSERT waits for an open
transaction that holds the email and fails on a committed row. When it fails,
`err = tx.Rollback()` (`accountsRepository.go:66`) replaces the error, and a
successful rollback makes the repository return a nil transaction with no
error; the result `"panic"` is the call of `Commit` on it. The panic ends the
request and not the process: the server library recovers and counts panics
(`pkg/metrics/metrics.go:74-86`).

### `Accounts`

| Model | Code |
|-|-|
| `rows`, `keys`, `list` | committed rows; the session keys and the sets `account_<id>` |
| `tokens`, `events` | password tokens Kafka has and not expired; the `account_deleted` messages it has |
| `born`, `owner`, `known` | history: the email of every account id, the account of every session id, the ids clients know |
| `sent` | history: the `account_deleted` messages handed to the writer, which `events` need not have |
| `stray`, `unfinished` | history: sessions listed after the clean-up of their deleted account had read the list or whose SADD failed (`StrayWrite`), and deleted accounts whose clean-up was cut short |
| `SignIn`, `SetKey`, `AddToList`, `CheckAndUpdateSession` | `SignIn`, `updateSession` and `SetSession` |
| `RequestChangePasswordToken`, `DeliverToken`, `ChangePassword`, `UpdatePassword`, `UpdatePasswordFails` | the password operations |
| `DeleteAccount`, `GetAccountEmail`, `DeleteRow`, `DeleteRowFails`, `Rollback`, `AccountDeleted`, `Commit` | `DeleteAccount`: check, email, DELETE in a transaction, publish, commit |
| `SMembers`, `DelKeys`, `DelList`, `Retry` | the goroutine of `TerminateAllSessions` retries |
| `ContextEnds`, `RollbackAbandoned` | `BeginTx(ctx)`: a transaction ends with the context it was begun with |

The DELETE locks the row (`RowLocked`): an UPDATE or another DELETE of it waits
until the transaction is over, one way or the other, or until its own context or
connection fails. `DeleteAccount` of the
service never rolls back. When the publish fails it returns with the
transaction open, and what ends it is that the server cancels the context of an
answered request. That is the state `"abandoned"`, and `Answered` depends on it.
Two deletions of one account may both report success to their callers and both
announce it: a DELETE that finds no row is no error.

The password row counts in `ChangePassword` (`num == 0`) matter because the
account is looked up first and may be gone by the time of the UPDATE.

### `Outcomes`

An operation is the sequence of calls it makes when nothing stops it
(`CreateAccount`, ..., `Program`). `Do` makes the next call, whose store answers
anything it can (`Raws`): `"nil"`, `"absent"` (`redis.Nil`, `sql.ErrNoRows`),
`"broken"`, or `"swallowed"` for a failed statement whose error a Rollback
replaced. Then come the three translations: `RepositoryCode` (`handleError` of
each repository, which lets the context's error win over every result, success
included), `ServiceCode` and `Refusals`, and `ReplyCode` (`handleError` and
`convertServiceErrCodeToGrpc` of the handler). What `return nil`, an
overwritten `err` or a discarded result drops is dropped here too (`Dropped`,
`GoesOn`). `Count` is `updateMetrics`: that of the registration repository is
deferred with the error by value and always counts a hit
(`registrationRepository.go:54`), that of the sessions repository takes a
pointer.

Nothing ties the answer of one call to that of another; a combination that the
stores could not produce only adds behaviour, and all properties are safety
properties.

`background` holds the goroutines the request has started and that have not ended,
named for the functions with their `go` statement: `checkAndUpdateSession`
(`service.go:413`), `TerminateSessions` (`service.go:329`) and `DeleteAccount`
(`service.go:365`). They start when the service goes on from the call before them
(`Started`) and do their own call at any later time, before or after the reply
(`Background`), in a context that does not end with the request. So a
`TerminateSessions` with an empty list writes its own session, and only then, or
meanwhile, is refused by the repository (`sessionsRepository.go:144`):
`RefusalMeansUntouched` names that exception, and it asks of every other refusal
that no goroutine is still at work.

`accounts_service_v1.proto` gives 404 for a session id that is not found; the code
answers Unauthenticated (401) everywhere. `UnknownSessionIsUnauthenticated` says
what the code does, and the run `MCOutcomesNotFound` shows the disagreement.

### `Process`

`main` is a program counter over the constructors; `deferred` is its stack of
deferred calls. `app.go:59` assigns the `err` declared at line 34, so the
goroutine of the metrics server and `main` race for it: `Connect` and `TestErr`
are two steps, `RunMetricServer` and `TestMetricsErr` too, and a test sees either
what was just assigned or what the variable holds now. The deferred call for the
writer of tokens closes the writer of events a second time (line 117), so
`"tokens"` stays in `held`.

## Runs

| Run | Shows |
|-|-|
| `MCSessions` | `BindingIntact`, `IndexOnlyOwn`, `EndedByRequest`, `EndingsLast` and the refinement of `SessionLifecycle`, with all operations, two accounts, two machines, one update and failures |
| `MCSessionsExpiry` | `IndexOutlivesKeys` and the refinement while keys expire and both updates of `TerminateSessions` run |
| `MCRegistration` | `EventsMatchRows`, `EmailUnique`, `VerifiedMeansDone`, `AcceptedEmailKept`, `TokenOutlivesRegistration` and, under fairness, `Answered`, with expiry and with Redis, Postgres, Kafka and the process failing |
| `MCAccounts` | the refinement of `AccountLifecycle`, `DeletedMeansDone`, `SessionsEnd`, `PasswordOnlyByToken`, `ChangedMeansWritten`, with two goroutines left behind (two clean-ups, or one beside an update), an email registered again after a deletion, two passwords, and every failure |
| `MCAccountsFair` | `Answered`: no request waits forever for a row lock and every clean-up goroutine ends |
| `MCProcess` | `RequestsHaveStores`, `OpenedAreClosed`, `CutOnlyBeforeNotify` and, under fairness, `Stops` |
| `MCOutcomes` | `OkMeansDone`, `RefusalMeansUntouched`, `UnknownSessionIsUnauthenticated`, `Classified`, `CacheMetricsTrue` for all operations, both transports and every combination of answers |

Five runs end in a violation, each a disagreement between the code and what a
document or comment says of it (`findings` in `PROJECT.json` quotes them):

| Run | What happens |
|-|-|
| `MCSessionsLogoutRace` | an update that read the session before `Logout` writes it back after: the user is logged in again |
| `MCSessionsTerminate` | one repeated or stale id, and `TerminateSessions` ends nothing but empties the list, answering success |
| `MCSessionsForeign` | `TerminateSessions` deletes the key of a session of another account, whose list keeps the id |
| `MCRegistrationPanic` | the nil transaction above |
| `MCOutcomesNotFound` | 401 where the published interface says 404 |

More of the same kind is in the models without a run of its own, named in a
property as an exception or in a comment at its action:

* two `CreateAccount` calls for one email are both accepted, and the later
  password replaces the earlier;
* a registration whose SET failed is accepted and is nowhere: the fault `"set"`;
* a verification and a deletion may lose their messages, which nobody acknowledges,
  and answer success (`Stored`); `AccountLifecycle` and `DeletedMeansDone` therefore
  speak of messages handed to the writer (`sent`);
* a deletion is announced before its Commit, and when that fails the announced
  account stays: the abstract phase "announced" has no step it must take;
* the list of an account may expire between the SADD and the EXPIRE of an update and
  take the renewed session with it, which then lives and is on no list until its
  next update: `Renewing` in `IndexOutlivesKeys`;
* without any failure a session of a deleted account survives when an update or a
  sign-in lists it after the clean-up has read the list: `stray` in `SessionsEnd`;
* such sessions also survive an error of SMEMBERS, which `README.md:109`
  would have retried, a Commit wrongly reported as failed, a process that dies, and
  attempts that all fail: `unfinished` in `SessionsEnd`;
* a password token works any number of times until it expires, and for whoever
  registers its email next;
* a `Logout` whose MGET fails answers success (`missed` in `EndingsLast`), and two
  overlapping updates of a session may move its last activity back;
* a `TerminateSessions` that is refused has renewed its session (above);
* the client is told Unknown when a verification token cannot be signed
  (`service.go:129`), and only then;
* the writer of tokens stays open at every end of the process (line 117 of `app.go`).

The properties that hold only under a condition say so. `IndexOutlivesKeys` needs
Redis not to fail, and exempts a session whose own SetSession is between SET and
EXPIRE, because the list may well expire under it there. `EndingsLast` is what is left
of `LogoutEnds` with updates and failures, and says just which session a
request may pass by: one whose MGET failed or did not find each id once, or one an
update was about to write at the DEL. `SessionLifecycle` is the same from the view
of one id: a session may come back only while some goroutine still has its SET to do.
`AcceptedEmailKept` needs that no SET of a registration fails.

### Bounds

* Two requests and one or two updates. A race of this code needs a reader that
  goes on with what it read and one writer in between.
* Two session ids and two accounts or machines: enough for a wrong binding, a
  wrong list, an id that is stale beside one that is live. Ids are not reused,
  so a run has at most as many sign-ins as ids.
* `MaxTime` bounds the clock. 0 means that nothing expires in the run; the runs
  about expiry let the clock pass the TTL.
* `TTL` is small because only the order of deadlines matters.
* `MCRegistration` has one email, because requests for different emails meet in
  nothing but the ids of their rows, and two profiles, so that a registration is
  replaced by another while it is verified. Its clock goes up to the TTL, so that a
  registration expires in the middle of a request. `Second` is 2, so that a token
  requested between two seconds loses a tick.
* `MCAccounts` has one email, so that a deletion and a new registration of it meet
  the requests that still work for the old account, two ids, two passwords, one
  session, two retries and two goroutines left behind, so that an update runs beside a
  clean-up and two clean-ups beside each other. That a message carries its own
  account's email, and that a password changes only by a token for the account's
  email, is easy with one email and rests on the theorems. `MCAccountsFair` needs one
  account only: what waits is a second request on the same row. Postgres does not fail
  there, so that no statement gets away from a lock by failing.
* The violation runs are as small as their traces allow, and have just the faults
  the disagreement needs.
* `Outcomes` has no constants: it is finite as it stands. `Process` has two
  requests; its endpoints and stores are those of the code.

Symmetry is used in the runs of `MCSessions` and `MCAccounts` that check safety and
refinement, and in `MCRegistrationPanic`, never where liveness is checked
(`MCRegistration`, `MCAccountsFair`, `MCProcess`). Deadlock is checked in
every run but `MCProcess`, where the process ends.

### Fairness

`FairSpec` asks weak fairness of each goroutine of a request: Go's scheduler
runs runnable goroutines, and a store answers the commands it is sent. Nothing has
to fail: the failures of statements that may wait are no part of what fairness
drives, so a request that waits for a lock has to get it. For these statements
(`Insert`, `UpdatePassword`, `DeleteRow`) fairness is strong, because the lock may be
taken and given back again and again: Postgres serves those that wait for a lock in
turn, so none is passed by for ever. It is strong for `Commit` of a deletion too: the
code starts the clean-up with a `go` statement, which does not wait, and only the
bound `Task` makes it wait for a goroutine of an earlier request to end. That the lock is given back is not assumed but
shown: the holder goes on to commit, fails or dies. Nothing is assumed of clients, of
the clock or of crashes.

In `Accounts` the same fairness covers `RollbackAbandoned`: the server cancels the
context of every request it has answered and database/sql then rolls back. A
request that waits for a row lock therefore waits for a request that ends. In
`Process` it is asked of `main`, of the goroutines that report a failure and of
the requests in service (which `Answered` of the other modules gives), and
neither of a signal nor of a failure.

## Proofs

The theorems hold for every value of the constants that satisfies the assumptions
of the modules: any number of ids, accounts, emails and concurrent requests, any
TTL and time bound. Every safety and action property of the passing runs is stated by
one of them; where it needs a hypothesis, the hypothesis is part of the theorem and
the constants of the run satisfy it.

`Sessions`. The invariant `IInv` adds to the type invariant what a goroutine may
rely on (`Sound`): the session it works for was issued, a record it holds is
bound as the id was issued, past the check the machine ids agree, and a listing
names the account's ids only. `BindingIntact` and `IndexOnlyOwn` follow. They
are not inductive alone: SET writes what a goroutine read at any time before, so
the claim about Redis needs the claim about local variables. `EndedByRequest`
follows from `IInv` and the guard of each step; it says that the caller gave id and
machine of one session, and not that this session is of the same account as those
that end, which is false. `Refinement` shows that each step
moves each id along the arrows of `SessionLifecycle`; the hard case is an "ended"
id, for which one shows that no step but the issue of the id or the start of an
update of a live session makes a goroutine with a SET still to do.

`EndingsHold` (`EndingsLast`, whatever fails, runs or expires) uses that last fact
again: once every named session has ended it stays so, by `EndedStep`. `EInv` says it
of the requests past their DEL, and the case to look at is the DEL itself, after which
an id is either ended or was about to be written, which sets `missed`.

`ListsOutlive` assumes `~Faults`: a pipeline that breaks between SET and EXPIRE
leaves a key that outlives its list. `IndexOutlivesKeys` is not inductive, as
EXPIRE has to come out past the deadlines of all keys in the list: `OInv` adds that
no key lives longer than `TTL` from now. Its step lemmas separate the commands that
take something away (`OInvFewer`) from the three of SetSession; SET is the one that
puts a deadline past the list's, and from then on its goroutine is renewing it.

`Registration`. `IInv` adds `OneHolder` (of the open transactions one at most
holds an email) and, for every program counter, what was established on the way
to it: at `"commit"` the email has no row, at `"publish"` and `"forget"`, and in a
success answer, the row is committed. `EmailUnique`, `EventsMatchRows`,
`VerifiedMeansDone` and `TokenOutlivesRegistration` follow, whatever fails; the last
needs `Timely`, which says when a goroutine knows of the two deadlines, that cutting
to whole seconds takes less than one (`NumericDateBounds`)
and that a registration expires at most a TTL from now.
`RegistrationsAreKept` assumes `"set" \notin Faults` and uses a second invariant,
`Kept`: a waiting registration expires no earlier than the one last accepted for its
email.

`Accounts`. `IInv` says that rows carry the email their id was born with and that
neither an id nor an email has two rows, that a session key has an owner, that a
token names the email its account had, that a message handed to the writer carries
its account's email, and for every program counter what was
established on the way to it (`Sound`): from `"delete"` to `"commit"` the goroutine
holds the account's own email, at `"commit"` the message was handed over, the
goroutine that ends sessions works for a deleted account. The proof that a step keeps
`Sound` is cut in two: no step takes back a birth, an owner, a deletion or a message
(`Grows`), and a goroutine stands still or comes to a place where it is sound
(`Advance`); `SoundKept` and `AdvanceSound` put them together, so each action has
one lemma about itself only. `DeletedMeansDone` follows. For
the refinement of `AccountLifecycle` the case that matters is the row that goes: only
Commit takes one, and `Sound` has its message. `PasswordOnlyByToken` needs the
uniqueness of rows: the row that has the email of a token is the token's account,
or that account is gone. `SessionsEnd` needs the stronger `SInv`: a session that is
not loose (stray, or between SET and SADD) is in its account's list, is among the
ids a goroutine at `"delkeys"` has read, and no goroutine at `"dellist"` works for its
account. It is this last claim that a SADD between SMEMBERS and the
deletion of the list would break, were such sessions not stray; a SADD before every
clean-up's SMEMBERS keeps it.

`Process`. `PInv` says for every place of `main` what is open and what the deferred
calls will close (`GoingInv`: all of it but the writer of tokens), that `err` can
differ from what the last constructor returned only by the hand of the metrics
server's goroutine (`ErrInv`), and for a main that returns that what no deferred
call will close is the writer of tokens or, after a failure of the metrics server,
one store (`ReturnInv`). A deferred call takes from `held` what it takes from the
pending closes, so `Left`, their difference, stands still while main unwinds.
`RequestsHaveStores` is the reading of `GoingInv` at the places where requests are
served: to see nil where the constructor failed, main would need the metrics server
to write nil into `err`, and it never does.

`Outcomes` has no constants, so `MCOutcomes` already decides its properties; the
proof says why they hold and what an edit of the code has to respect. One lemma for
each translation (`RepositoryTranslates`, `ServiceTranslates`, `HandlerTranslates`)
says which codes it can make of which answers of which calls. `ProgramOrdered` says
what the properties need of the order of the calls: no call that refuses follows
one that writes, a transaction is followed by its Commit, only DelKeys follows
`removeNonexistantKeys`. `OInv` ties them together: while calls are made, those
before the next one are made and no others but those of goroutines that have begun
(`Begun`), and one that failed is among the three the code forgives, or began a
transaction that is not open and will not pass Commit. `BackInv` says which
goroutines there can be, and that a refusal leaves nothing written and none at work
(`Clean`), with the one exception: since a goroutine goes on after the reply, the
claim has to be kept by steps that come after it.

Only model-checked: `Answered` and `Stops`, as liveness is out of the prover's
reach. The violations are, of course, TLC's.

## Not modelled

The client stubs, the message types and the half of the gateway that talks to a
remote server, all generated and none used by `main`; log lines, spans and the
hit counters, which nothing reads; `GetSessionsIds`, which nothing calls;
JSON, bcrypt and the signature of tokens (`json.Marshal` of these types cannot
fail; a token a client shows is one the service made); the lengths and forms
`validation.go` checks, of which only valid and invalid are told apart; the HTTP
status the gateway's library makes of a gRPC code; retries inside the drivers,
which are part of "the command took effect or not"; evictions by Redis under
memory pressure; replication; the server library's own limits and interceptors.

## Plan

1. Done: `SessionLifecycle`, `Sessions`, `Registration`, their runs and proofs.
2. Done: `AccountLifecycle`, `Accounts`, `Outcomes`, `Process` and their runs.
3. Done: `AccountsProofs`.
4. Done: `SessionsIndexProofs`, `SessionsEndingProofs`, `ProcessProofs`,
   `OutcomesProofs`.
5. Weaker hypotheses: how much of `IndexOutlivesKeys` is left when Redis fails, and of
   `SessionsEnd` when something fails.
