------------------------------ MODULE Sessions ------------------------------
(***************************************************************************)
(* The sessions of the accounts service: the handlers SignIn, GetAccountID,*)
(* Logout, GetAllSessions and TerminateSessions of                         *)
(* internal/service/service.go over                                        *)
(* internal/repository/redisrepository/sessionsRepository.go, with the     *)
(* goroutines `go s.updateSession(...)` they leave behind.                 *)
(*                                                                         *)
(* One step is one Redis command: a pipeline of go-redis is not a          *)
(* transaction, so other clients' commands come between its commands and   *)
(* it may break between them.                                              *)
(***************************************************************************)
EXTENDS Integers, FiniteSets

CONSTANTS
  SessionID,   \* the values uuid.NewString can return
  AccountID,   \* accounts of the database (rows are not modelled here)
  MachineID,   \* values of the X-Machine-Id header
  Call,        \* goroutines serving a request (bound on concurrent requests)
  Task,        \* goroutines running updateSession (bound on pending updates)
  Ops,         \* the operations clients call
  Faults,      \* whether a Redis command may fail
  TTL,         \* AccountsServiceConfig.SessionTTL, in ticks
  MaxTime,     \* bound on the clock
  None         \* no value: a nil reply, an unset field

AllOps == {"SignIn", "GetAccountID", "Logout", "GetAllSessions",
           "TerminateSessions"}

ASSUME OpsAssumption == Ops \subseteq AllOps
ASSUME FaultsAssumption == Faults \in BOOLEAN
ASSUME TimeAssumption == TTL \in Nat \ {0} /\ MaxTime \in Nat
ASSUME GoroutineAssumption == Call \cap Task = {}
ASSUME NoneAssumption == /\ None \notin SessionID
                         /\ None \notin MachineID
                         /\ None \notin [account: AccountID, machine: MachineID]
                         /\ None \notin [account: AccountID,
                                         machine: MachineID, last: 0..MaxTime]

VARIABLES
  store,          \* Redis strings: session id -> session, or None
  deadline,       \* when the key of a present session expires
  index,          \* Redis sets account_<id>: ids of the account's sessions
  indexDeadline,  \* when that set expires, NoTTL when it never does
  now,            \* the clock
  issued,         \* history: the account and machine an id was issued for
  known,          \* history: ids that some reply has given to a client
  go              \* the goroutines

redis == <<store, deadline, index, indexDeadline>>
vars == <<store, deadline, index, indexDeadline, now, issued, known, go>>

Goroutine == Call \cup Task
Binding == [account: AccountID, machine: MachineID]
Session == [account: AccountID, machine: MachineID, last: 0..MaxTime]
NoTTL == 0

-----------------------------------------------------------------------------
(* Goroutines: program counter, arguments and local variables.             *)

PC == {"idle", "get", "set", "sadd", "expire", "mget", "prune", "del", "srem",
       "smembers", "list", "done"}

(* dup stands for a list of ids that names one of them twice; nothing else *)
(* in the order or number of the ids matters to the code. missed is        *)
(* history: the request has passed a session by that it was to end.        *)
Local == [pc: PC, op: AllOps \cup {"Update", "none"},
          sid: SessionID \cup {None}, machine: MachineID \cup {None},
          ids: SUBSET SessionID, dup: BOOLEAN,
          rec: Session \cup {None}, ok: BOOLEAN, missed: BOOLEAN]

Idle == [pc |-> "idle", op |-> "none", sid |-> None, machine |-> None,
         ids |-> {}, dup |-> FALSE, rec |-> None, ok |-> FALSE,
         missed |-> FALSE]

Goto(g, p) == go' = [go EXCEPT ![g].pc = p]

GotoMissing(g, p, S) == go' = [go EXCEPT ![g].pc = p, ![g].missed = S # {}]

(* Mutant: updateSession starts over when SetSession reports an error.      *)
FinishRetrying(g, ok) ==
  go' = [go EXCEPT ![g] = IF g \in Task THEN (IF ok THEN Idle ELSE [@ EXCEPT !.pc = "set"])
                          ELSE IF ok THEN [@ EXCEPT !.pc = "done", !.ok = TRUE]
                          ELSE [Idle EXCEPT !.pc = "done"]]

(* A request waits in "done" until its reply is delivered; an error reply  *)
(* carries nothing. updateSession only logs its error.                     *)
Finish(g, ok) ==
  go' = [go EXCEPT ![g] = IF g \in Task THEN Idle
                          ELSE IF ok THEN [@ EXCEPT !.pc = "done", !.ok = TRUE]
                          ELSE [Idle EXCEPT !.pc = "done"]]

(* Whether a command that took effect also reports success: under Faults   *)
(* the reply may be lost or the request's context be over.                 *)
Outcome == IF Faults THEN BOOLEAN ELSE {TRUE}

-----------------------------------------------------------------------------
(* Redis commands.                                                         *)

Live(S) == {s \in S : store[s] # None}

Set(s, session) == /\ store' = [store EXCEPT ![s] = session]
                   /\ deadline' = [deadline EXCEPT ![s] = now + TTL]

Del(S) == /\ store' = [s \in SessionID |-> IF s \in S THEN None ELSE store[s]]
          /\ deadline' = [s \in SessionID |-> IF s \in S THEN 0 ELSE deadline[s]]

(* An emptied set is no key any more, so its TTL is gone with it.          *)
SetIndex(a, S) ==
  /\ index' = [index EXCEPT ![a] = S]
  /\ indexDeadline' = [indexDeadline EXCEPT ![a] = IF S = {} THEN NoTTL ELSE @]

(* Mutant: one list for all accounts.                                      *)
SAddShared(a, s) == /\ index' = [b \in AccountID |-> index[b] \cup {s}]
                    /\ UNCHANGED indexDeadline

SAdd(a, s) == SetIndex(a, index[a] \cup {s})

SRem(a, S) == SetIndex(a, index[a] \ S)

(* Mutants: a TTL of its own, longer than the keys'; EXPIRE NX, which      *)
(* leaves an earlier deadline alone.                                       *)
ExpireLate(a) == indexDeadline' = [indexDeadline EXCEPT
                                     ![a] = IF index[a] = {} THEN NoTTL ELSE now + 2 * TTL]

ExpireNX(a) == indexDeadline' = [indexDeadline EXCEPT
                 ![a] = IF index[a] = {} THEN NoTTL
                        ELSE IF @ # NoTTL THEN @ ELSE now + TTL]

Expire(a) == indexDeadline' = [indexDeadline EXCEPT
                                 ![a] = IF index[a] = {} THEN NoTTL ELSE now + TTL]

Tick ==
  /\ now < MaxTime
  /\ now' = now + 1
  /\ LET gone  == {s \in SessionID : store[s] # None /\ deadline[s] <= now + 1}
         empty == {a \in AccountID : /\ indexDeadline[a] # NoTTL
                                     /\ indexDeadline[a] <= now + 1}
     IN /\ Del(gone)
        /\ index' = [a \in AccountID |-> IF a \in empty THEN {} ELSE index[a]]
        /\ indexDeadline' = [a \in AccountID |->
                               IF a \in empty THEN NoTTL ELSE indexDeadline[a]]
  /\ UNCHANGED <<issued, known, go>>

-----------------------------------------------------------------------------
(* SessionsRepository.SetSession: the pipeline SET, SADD, EXPIRE, run by   *)
(* SignIn and, through UpdateLastActivityForSession, by updateSession.     *)

SetKey(g) == /\ go[g].pc = "set"
             /\ Set(go[g].sid, go[g].rec)
             /\ Goto(g, "sadd")
             /\ UNCHANGED <<index, indexDeadline, now, issued, known>>

AddToIndex(g) == /\ go[g].pc = "sadd"
                 /\ SAdd(go[g].rec.account, go[g].sid)
                 /\ Goto(g, "expire")
                 /\ UNCHANGED <<store, deadline, now, issued, known>>

ExpireIndex(g) == /\ go[g].pc = "expire"
                  /\ Expire(go[g].rec.account)
                  /\ \E ok \in Outcome : Finish(g, ok)
                  /\ UNCHANGED <<store, deadline, index, now, issued, known>>

SetSessionFails(g) == /\ Faults
                      /\ go[g].pc \in {"set", "sadd", "expire"}
                      /\ Finish(g, FALSE)
                      /\ UNCHANGED <<redis, now, issued, known>>

-----------------------------------------------------------------------------
(* SignIn. The account was found and the password compared before.         *)

(* Mutant: an id counts as free as soon as its key is gone.                *)
Reusable == {s \in SessionID : store[s] = None}

Fresh == {s \in SessionID : issued[s] = None}

SignIn(c) ==
  /\ go[c].pc = "idle" /\ "SignIn" \in Ops
  /\ \E s \in Fresh, a \in AccountID, m \in MachineID :
       /\ issued' = [issued EXCEPT ![s] = [account |-> a, machine |-> m]]
       /\ go' = [go EXCEPT ![c] =
                   [Idle EXCEPT !.pc = "set", !.op = "SignIn", !.sid = s,
                                !.machine = m,
                                !.rec = [account |-> a, machine |-> m, last |-> now]]]
  /\ UNCHANGED <<redis, now, known>>

(* No such account, a wrong password, or the database failed.              *)
SignInRejected(c) == /\ go[c].pc = "idle" /\ "SignIn" \in Ops
                     /\ Finish(c, FALSE)
                     /\ UNCHANGED <<redis, now, issued, known>>

-----------------------------------------------------------------------------
(* Requests that carry a session id. A client presents an id that a reply  *)
(* gave to some client and, to end them, names any such ids: nothing       *)
(* compares their accounts with its own.                                   *)

Named(op, s) == CASE op = "TerminateSessions" -> SUBSET known
                  [] op = "Logout" -> {{s}}
                  [] OTHER -> {{}}

Request(c, op) ==
  /\ go[c].pc = "idle" /\ op \in Ops \ {"SignIn"}
  /\ \E s \in known, m \in MachineID, dup \in BOOLEAN :
       \E ids \in Named(op, s) :
         /\ dup => op = "TerminateSessions" /\ ids # {}
         /\ go' = [go EXCEPT ![c] =
                     [Idle EXCEPT !.pc = "get", !.op = op, !.sid = s,
                                  !.machine = m, !.ids = ids, !.dup = dup]]
  /\ UNCHANGED <<redis, now, issued, known>>

(* Mutant: the machine id of the request is not looked at.                 *)
ValidAnyMachine(c) == store[go[c].sid] # None

(* checkSession: GET, then the machine id is compared.                     *)
Valid(c) == LET session == store[go[c].sid]
            IN session # None /\ session.machine = go[c].machine

CheckRejected(c) == /\ go[c].pc = "get"
                    /\ Faults \/ ~Valid(c)
                    /\ Finish(c, FALSE)
                    /\ UNCHANGED <<redis, now, issued, known>>

CheckedLogout(c) ==
  /\ go[c].pc = "get" /\ go[c].op = "Logout" /\ Valid(c)
  /\ go' = [go EXCEPT ![c].pc = "mget", ![c].rec = store[go[c].sid]]
  /\ UNCHANGED <<redis, now, issued, known>>

(* checkAndUpdateSession starts one updateSession, and TerminateSessions a *)
(* second one unless the caller's own session is among those it names.     *)
Updates(c) == IF go[c].op = "TerminateSessions" /\ go[c].sid \notin go[c].ids
              THEN 2 ELSE 1

UpdateTask(s, session) ==
  [Idle EXCEPT !.pc = "set", !.op = "Update", !.sid = s,
               !.rec = [session EXCEPT !.last = now]]

AfterCheck(op) == CASE op = "TerminateSessions" -> "mget"
                    [] op = "GetAllSessions" -> "smembers"
                    [] OTHER -> "done"

CheckedAndUpdated(c) ==
  /\ go[c].pc = "get" /\ go[c].op # "Logout" /\ Valid(c)
  /\ \E T \in SUBSET {t \in Task : go[t].pc = "idle"} :
       /\ Cardinality(T) = Updates(c)
       /\ go' = [g \in Goroutine |->
                   IF g = c
                   THEN [go[c] EXCEPT !.pc = AfterCheck(go[c].op),
                                      !.rec = store[go[c].sid],
                                      !.ok = AfterCheck(go[c].op) = "done"]
                   ELSE IF g \in T THEN UpdateTask(go[c].sid, store[go[c].sid])
                   ELSE go[g]]
  /\ UNCHANGED <<redis, now, issued, known>>

-----------------------------------------------------------------------------
(* The life of an id: some goroutine is about to SET it, it is live, or    *)
(* it has ended.                                                           *)

Pending(s) == \E g \in Goroutine : go[g].pc = "set" /\ go[g].sid = s

PhaseOf(s) == IF issued[s] = None THEN "unissued"
              ELSE IF store[s] # None THEN "live"
              ELSE IF Pending(s) THEN "pending" ELSE "ended"

-----------------------------------------------------------------------------
(* SessionsRepository.TerminateSessions, for Logout and TerminateSessions. *)

(* removeNonexistantKeys counts the distinct values MGET returned, one per *)
(* existing session, against the length of the list.                       *)
NothingToRemove(c) == ~go[c].dup /\ Live(go[c].ids) = go[c].ids

(* An error of MGET is dropped with the rest of the work, unless the       *)
(* request's context is over.                                              *)
MGetDropped(c) == go' = [go EXCEPT ![c].pc = "done", ![c].ok = TRUE, ![c].missed = TRUE]

MGetKeys(c) ==
  /\ go[c].pc = "mget"
  /\ \/ go[c].ids = {} /\ Finish(c, FALSE)
     \/ go[c].ids # {} /\ NothingToRemove(c) /\ Goto(c, "del")
     \/ /\ go[c].ids # {} /\ ~NothingToRemove(c)
        /\ GotoMissing(c, "prune", {s \in go[c].ids : PhaseOf(s) # "ended"})
     \/ go[c].ids # {} /\ Faults /\ (MGetDropped(c) \/ Finish(c, FALSE))
  /\ UNCHANGED <<redis, now, issued, known>>

(* The ids are looked up among the values MGET returned, so none is found: *)
(* every id is taken for nonexistent and leaves the index. The list handed *)
(* back holds those values, and DEL and SREM of them do nothing. An error  *)
(* on the way is dropped unless the request's context is over.             *)
PruneIndex(c) ==
  /\ go[c].pc = "prune"
  /\ \/ SRem(go[c].rec.account, go[c].ids) /\ \E ok \in Outcome : Finish(c, ok)
     \/ Faults /\ UNCHANGED <<index, indexDeadline>>
               /\ \E ok \in BOOLEAN : Finish(c, ok)
  /\ UNCHANGED <<store, deadline, now, issued, known>>

DelKeys(c) ==
  /\ go[c].pc = "del"
  /\ \/ Del(go[c].ids) /\ GotoMissing(c, "srem", {s \in go[c].ids : Pending(s)})
     \/ Faults /\ UNCHANGED <<store, deadline>> /\ Finish(c, FALSE)
  /\ UNCHANGED <<index, indexDeadline, now, issued, known>>

RemoveFromIndex(c) ==
  /\ go[c].pc = "srem"
  /\ \/ SRem(go[c].rec.account, go[c].ids) /\ \E ok \in Outcome : Finish(c, ok)
     \/ Faults /\ UNCHANGED <<index, indexDeadline>> /\ Finish(c, FALSE)
  /\ UNCHANGED <<store, deadline, now, issued, known>>

-----------------------------------------------------------------------------
(* SessionsRepository.GetSessionsForAccount.                               *)

SMembers(c) ==
  /\ go[c].pc = "smembers"
  /\ \/ go' = [go EXCEPT ![c].pc = "list", ![c].ids = index[go[c].rec.account]]
     \/ Faults /\ Finish(c, FALSE)
  /\ UNCHANGED <<redis, now, issued, known>>

(* MGET without a key is an error.                                         *)
ListSessions(c) ==
  /\ go[c].pc = "list"
  /\ \/ /\ go[c].ids # {}
        /\ go' = [go EXCEPT ![c].pc = "done", ![c].ok = TRUE,
                            ![c].ids = Live(go[c].ids)]
     \/ (go[c].ids = {} \/ Faults) /\ Finish(c, FALSE)
  /\ UNCHANGED <<redis, now, issued, known>>

-----------------------------------------------------------------------------
(* The reply reaches the client, which now knows the ids in it.            *)
Reply(c) ==
  /\ go[c].pc = "done"
  /\ known' = IF go[c].ok THEN known \cup {go[c].sid} \cup go[c].ids ELSE known
  /\ go' = [go EXCEPT ![c] = Idle]
  /\ UNCHANGED <<redis, now, issued>>

Init ==
  /\ store = [s \in SessionID |-> None]
  /\ deadline = [s \in SessionID |-> 0]
  /\ index = [a \in AccountID |-> {}]
  /\ indexDeadline = [a \in AccountID |-> NoTTL]
  /\ now = 0
  /\ issued = [s \in SessionID |-> None]
  /\ known = {}
  /\ go = [g \in Goroutine |-> Idle]

SetSession(g) ==
  SetKey(g) \/ AddToIndex(g) \/ ExpireIndex(g) \/ SetSessionFails(g)

Serve(c) ==
  \/ CheckRejected(c) \/ CheckedLogout(c) \/ CheckedAndUpdated(c)
  \/ MGetKeys(c) \/ PruneIndex(c) \/ DelKeys(c) \/ RemoveFromIndex(c)
  \/ SMembers(c) \/ ListSessions(c) \/ Reply(c)

Next ==
  \/ Tick
  \/ \E g \in Goroutine : SetSession(g)
  \/ \E c \in Call : \/ SignIn(c) \/ SignInRejected(c)
                     \/ \E op \in Ops : Request(c, op)
                     \/ Serve(c)

Spec == Init /\ [][Next]_vars

-----------------------------------------------------------------------------
(* Properties.                                                             *)

(* Every variable has its type, and no deadline lies past MaxTime + TTL.   *)
TypeOK ==
  /\ store \in [SessionID -> Session \cup {None}]
  /\ deadline \in [SessionID -> 0..(MaxTime + TTL)]
  /\ index \in [AccountID -> SUBSET SessionID]
  /\ indexDeadline \in [AccountID -> 0..(MaxTime + TTL)]
  /\ now \in 0..MaxTime
  /\ issued \in [SessionID -> Binding \cup {None}]
  /\ known \in SUBSET SessionID
  /\ go \in [Goroutine -> Local]

BoundTo(s, session) ==
  /\ issued[s] # None
  /\ session.account = issued[s].account /\ session.machine = issued[s].machine

(* Every copy of a session, in Redis or in the hands of a goroutine that    *)
(* may write it back long after others changed or ended the session, names *)
(* the account and the machine its id was issued for.                      *)
BindingIntact ==
  /\ \A s \in SessionID : store[s] # None => BoundTo(s, store[s])
  /\ \A g \in Goroutine : go[g].rec # None => BoundTo(go[g].sid, go[g].rec)

(* The list of an account holds ids issued to that account only, and so    *)
(* does a GetAllSessions under way or answered.                            *)
OfAccount(a) == {s \in SessionID : issued[s] # None /\ issued[s].account = a}

IndexOnlyOwn ==
  /\ \A a \in AccountID : index[a] \subseteq OfAccount(a)
  /\ \A c \in Call : (go[c].op = "GetAllSessions" /\ go[c].rec # None)
                       => go[c].ids \subseteq OfAccount(go[c].rec.account)

(* A key disappears by expiry, by a Logout that presented this very id, or *)
(* by a TerminateSessions that names it; the caller gave both the id and   *)
(* the machine id of one session. Which account that session is of, the    *)
(* code does not ask: see DeletesOwnOnly.                                  *)
Entitled(c, s) ==
  /\ go[c].op \in {"Logout", "TerminateSessions"} /\ s \in go[c].ids
  /\ go[c].op = "Logout" => go[c].sid = s
  /\ issued[go[c].sid].machine = go[c].machine

EndedByRequest ==
  [][\A s \in SessionID : (store[s] # None /\ store'[s] = None)
       => deadline[s] <= now' \/ \E c \in Call : Entitled(c, s)]_vars

(* repository.go, "terminates the specified sessions for the given account *)
(* id": what TerminateSessions deletes are sessions of that account.       *)
DeletesOwnOnly ==
  \A c \in Call : go[c].pc = "del" => go[c].ids \subseteq OfAccount(go[c].rec.account)

(* What holds of the local variables of every goroutine: the session it    *)
(* works for was issued, a record it holds is that session's, and past     *)
(* checkSession the caller's machine id is the session's.                  *)
Sound(r) ==
  /\ r.sid # None => issued[r.sid] # None
  /\ \A s \in r.ids : issued[s] # None
  /\ r.ok => r.sid # None
  /\ r.rec # None => r.sid # None /\ BoundTo(r.sid, r.rec)
  /\ r.pc \in {"set", "sadd", "expire"} => r.rec # None
  /\ r.pc = "get" => r.sid # None /\ (r.op = "GetAllSessions" => r.ids = {})
  /\ r.pc \in {"mget", "prune", "del", "srem", "smembers", "list"}
       => r.rec # None /\ r.rec.machine = r.machine
  /\ r.pc \in {"mget", "prune", "del", "srem"} => r.op \in {"Logout", "TerminateSessions"}
  /\ r.pc \in {"smembers", "list"} => r.op = "GetAllSessions"
  /\ r.op = "Logout" => r.ids \subseteq {r.sid}
  /\ (r.op = "GetAllSessions" /\ r.rec # None)
       => r.ids \subseteq OfAccount(r.rec.account)

(* The inductive invariant: BindingIntact and IndexOnlyOwn follow from it. *)
IInv == /\ TypeOK
        /\ \A s \in SessionID : store[s] # None => BoundTo(s, store[s])
        /\ \A a \in AccountID : index[a] \subseteq OfAccount(a)
        /\ \A g \in Goroutine : Sound(go[g])
        /\ \A s \in known : issued[s] # None

Lifecycle == INSTANCE SessionLifecycle WITH
               phase <- [s \in SessionID |-> PhaseOf(s)]

(* Requests and updates, in any interleaving and with any failure, run     *)
(* every id through the life SessionLifecycle promises: a session that     *)
(* ended, with no write of it under way, never comes back.                 *)
LifecycleSpec == Lifecycle!Spec

(* A list outlives the key of each session in it, but for a session whose  *)
(* own SetSession has done its SET and not its EXPIRE.                     *)
Renewing(s) == \E g \in Goroutine : /\ go[g].pc \in {"sadd", "expire"}
                                    /\ go[g].sid = s

IndexOutlivesKeys ==
  \A a \in AccountID : \A s \in index[a] :
     store[s] # None => indexDeadline[a] >= deadline[s] \/ Renewing(s)

(* A Logout or a TerminateSessions that answered with success has ended    *)
(* the sessions it named, and no update brings one back; it can only have  *)
(* passed one by, because MGET failed or did not find every id once, or    *)
(* because an update was about to SET it when DEL came.                    *)
EndingsLast ==
  \A c \in Call :
     (/\ go[c].op \in {"Logout", "TerminateSessions"}
      /\ go[c].pc = "done" /\ go[c].ok /\ ~go[c].missed)
        => \A s \in go[c].ids : PhaseOf(s) = "ended"

(* README.md, "Users remaster logged in until they manually log out": once *)
(* Logout has answered with success the session's key is gone.             *)
LogoutEnds == \A c \in Call : (go[c].op = "Logout" /\ go[c].pc = "done")
                              => store[go[c].sid] = None

Writing(s) == \E g \in Goroutine : /\ go[g].pc \in {"set", "sadd", "expire"}
                                   /\ go[g].sid = s

(* repository.go, "TerminateSessions terminates the specified sessions":   *)
(* no named session is live, with no update of it around, once the request *)
(* has answered with success.                                              *)
NamedSessionsEnd ==
  \A c \in Call : (go[c].op = "TerminateSessions" /\ go[c].pc = "done")
     => \A s \in go[c].ids : store[s] = None \/ Writing(s)
=============================================================================
