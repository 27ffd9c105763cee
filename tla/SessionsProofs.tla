--------------------------- MODULE SessionsProofs ---------------------------
(* Theorems about Sessions, for any number of goroutines, ids, accounts    *)
(* and machines, with or without failures of Redis.                        *)
EXTENDS Sessions, TLAPS

USE TimeAssumption

-----------------------------------------------------------------------------
(* Type correctness.                                                       *)

LEMMA IdleType == Idle \in Local
BY DEF Idle, Local, PC, AllOps

LEMMA GotoType ==
  ASSUME go \in [Goroutine -> Local], NEW g \in Goroutine, NEW p \in PC, Goto(g, p)
  PROVE  go' \in [Goroutine -> Local]
BY DEF Goto, Local

LEMMA MissingType ==
  ASSUME go \in [Goroutine -> Local], NEW c \in Goroutine,
         \/ \E p \in PC, S \in SUBSET SessionID : GotoMissing(c, p, S)
         \/ MGetDropped(c)
  PROVE  go' \in [Goroutine -> Local]
<1>1. \E p \in PC, ok, missed \in BOOLEAN :
        go' = [go EXCEPT ![c] = [@ EXCEPT !.pc = p, !.ok = ok, !.missed = missed]]
  <2>1. CASE MGetDropped(c)
    BY <2>1 DEF MGetDropped, PC
  <2>2. ASSUME NEW p \in PC, NEW S \in SUBSET SessionID, GotoMissing(c, p, S)
        PROVE  go' = [go EXCEPT ![c] = [@ EXCEPT !.pc = p, !.ok = go[c].ok,
                                                 !.missed = S # {}]]
    BY <2>2 DEF GotoMissing, Local
  <2>3. go[c].ok \in BOOLEAN
    BY DEF Local
  <2>4. QED
    BY <2>1, <2>2, <2>3
<1>2. PICK p \in PC, ok \in BOOLEAN, missed \in BOOLEAN :
        go' = [go EXCEPT ![c] = [@ EXCEPT !.pc = p, !.ok = ok, !.missed = missed]]
  BY <1>1
<1>3. [go[c] EXCEPT !.pc = p, !.ok = ok, !.missed = missed] \in Local
  BY DEF Local
<1>4. QED
  BY <1>2, <1>3

LEMMA FinishType ==
  ASSUME go \in [Goroutine -> Local], NEW g \in Goroutine, NEW ok \in BOOLEAN,
         Finish(g, ok)
  PROVE  go' \in [Goroutine -> Local]
<1>1. [go[g] EXCEPT !.pc = "done", !.ok = TRUE] \in Local
  BY DEF Local, PC
<1>2. [Idle EXCEPT !.pc = "done"] \in Local
  BY DEF Local, PC, Idle, AllOps
<1>3. QED
  BY <1>1, <1>2, IdleType DEF Finish

LEMMA SetType ==
  ASSUME TypeOK, NEW s \in SessionID, NEW session \in Session, Set(s, session)
  PROVE  /\ store' \in [SessionID -> Session \cup {None}]
         /\ deadline' \in [SessionID -> 0..(MaxTime + TTL)]
BY DEF Set, TypeOK

LEMMA DelType ==
  ASSUME TypeOK, NEW S, Del(S)
  PROVE  /\ store' \in [SessionID -> Session \cup {None}]
         /\ deadline' \in [SessionID -> 0..(MaxTime + TTL)]
BY DEF Del, TypeOK

LEMMA SetIndexType ==
  ASSUME TypeOK, NEW a \in AccountID, NEW S \in SUBSET SessionID, SetIndex(a, S)
  PROVE  /\ index' \in [AccountID -> SUBSET SessionID]
         /\ indexDeadline' \in [AccountID -> 0..(MaxTime + TTL)]
BY DEF SetIndex, TypeOK, NoTTL

LEMMA TypeInit == Init => TypeOK
BY IdleType DEF Init, TypeOK, NoTTL, Goroutine

LEMMA TypeTick == ASSUME TypeOK, Tick PROVE TypeOK'
<1> DEFINE Gone == {s \in SessionID : store[s] # None /\ deadline[s] <= now + 1}
<1>1. Del(Gone)
  BY DEF Tick
<1>2. /\ store' \in [SessionID -> Session \cup {None}]
      /\ deadline' \in [SessionID -> 0..(MaxTime + TTL)]
  BY <1>1, DelType
<1>3. /\ index' \in [AccountID -> SUBSET SessionID]
      /\ indexDeadline' \in [AccountID -> 0..(MaxTime + TTL)]
  BY DEF Tick, TypeOK, NoTTL
<1>4. now' \in 0..MaxTime
  BY DEF Tick, TypeOK
<1>5. QED
  BY <1>2, <1>3, <1>4 DEF Tick, TypeOK

LEMMA TypeSetSession ==
  ASSUME TypeOK, NEW g \in Goroutine, Sound(go[g]), SetSession(g)
  PROVE  TypeOK'
<1> go[g] \in Local
  BY DEF TypeOK
<1> USE DEF redis
<1>1. CASE SetKey(g)
  <2>1. go[g].sid \in SessionID /\ go[g].rec \in Session
    BY <1>1 DEF SetKey, Sound, Local
  <2>2. go' \in [Goroutine -> Local]
    BY <1>1, GotoType DEF SetKey, TypeOK, PC
  <2>3. /\ store' \in [SessionID -> Session \cup {None}]
        /\ deadline' \in [SessionID -> 0..(MaxTime + TTL)]
    BY <1>1, <2>1, SetType DEF SetKey
  <2>4. QED
    BY <1>1, <2>2, <2>3 DEF SetKey, TypeOK
<1>2. CASE AddToIndex(g)
  <2>1. go[g].sid \in SessionID /\ go[g].rec.account \in AccountID
    BY <1>2 DEF AddToIndex, Sound, Local, Session
  <2>2. go' \in [Goroutine -> Local]
    BY <1>2, GotoType DEF AddToIndex, TypeOK, PC
  <2>3. index[go[g].rec.account] \cup {go[g].sid} \in SUBSET SessionID
    BY <2>1 DEF TypeOK
  <2>4. /\ index' \in [AccountID -> SUBSET SessionID]
        /\ indexDeadline' \in [AccountID -> 0..(MaxTime + TTL)]
    BY <1>2, <2>1, <2>3, SetIndexType DEF AddToIndex, SAdd
  <2>5. QED
    BY <1>2, <2>2, <2>4 DEF AddToIndex, TypeOK
<1>3. CASE ExpireIndex(g)
  <2>1. go' \in [Goroutine -> Local]
    BY <1>3, FinishType DEF ExpireIndex, TypeOK, Outcome
  <2>2. indexDeadline' \in [AccountID -> 0..(MaxTime + TTL)]
    <3>1. now + TTL \in 0..(MaxTime + TTL) /\ NoTTL \in 0..(MaxTime + TTL)
      BY DEF TypeOK, NoTTL
    <3>2. QED
      BY <1>3, <3>1 DEF ExpireIndex, Expire, TypeOK
  <2>3. QED
    BY <1>3, <2>1, <2>2 DEF ExpireIndex, TypeOK
<1>4. CASE SetSessionFails(g)
  <2>1. go' \in [Goroutine -> Local]
    BY <1>4, FinishType DEF SetSessionFails, TypeOK
  <2>2. QED
    BY <1>4, <2>1 DEF SetSessionFails, TypeOK
<1>5. QED
  BY <1>1, <1>2, <1>3, <1>4 DEF SetSession

LEMMA TypeSignIn ==
  ASSUME TypeOK, NEW c \in Call, SignIn(c)
  PROVE  TypeOK'
<1>1. PICK s \in Fresh, a \in AccountID, m \in MachineID :
        /\ issued' = [issued EXCEPT ![s] = [account |-> a, machine |-> m]]
        /\ go' = [go EXCEPT ![c] =
                    [Idle EXCEPT !.pc = "set", !.op = "SignIn", !.sid = s,
                                 !.machine = m,
                                 !.rec = [account |-> a, machine |-> m, last |-> now]]]
  BY DEF SignIn
<1>2. s \in SessionID
  BY DEF Fresh
<1>3. [account |-> a, machine |-> m] \in Binding
  BY DEF Binding
<1>4. [account |-> a, machine |-> m, last |-> now] \in Session
  BY DEF Session, TypeOK
<1>5. [Idle EXCEPT !.pc = "set", !.op = "SignIn", !.sid = s, !.machine = m,
                   !.rec = [account |-> a, machine |-> m, last |-> now]] \in Local
  BY <1>2, <1>4 DEF Idle, Local, PC, AllOps
<1>6. go' \in [Goroutine -> Local] /\ issued' \in [SessionID -> Binding \cup {None}]
  BY <1>1, <1>3, <1>5 DEF TypeOK
<1>7. QED
  BY <1>6 DEF SignIn, TypeOK, redis

LEMMA TypeRequest ==
  ASSUME TypeOK, NEW c \in Call, NEW op \in Ops, Request(c, op)
  PROVE  TypeOK'
<1>1. PICK s \in known, m \in MachineID, dup \in BOOLEAN, ids \in SUBSET SessionID :
        go' = [go EXCEPT ![c] =
                 [Idle EXCEPT !.pc = "get", !.op = op, !.sid = s,
                              !.machine = m, !.ids = ids, !.dup = dup]]
  <2>1. ASSUME NEW s \in known PROVE Named(op, s) \subseteq SUBSET SessionID
    BY <2>1 DEF TypeOK, Named
  <2>2. QED
    BY <2>1 DEF Request
<1>2. s \in SessionID
  BY DEF TypeOK
<1>3. [Idle EXCEPT !.pc = "get", !.op = op, !.sid = s, !.machine = m,
                   !.ids = ids, !.dup = dup] \in Local
  BY <1>2, OpsAssumption DEF Idle, Local, PC, AllOps
<1>4. go' \in [Goroutine -> Local]
  BY <1>1, <1>3 DEF TypeOK
<1>5. QED
  BY <1>4 DEF Request, TypeOK, redis

LEMMA TypeCheck ==
  ASSUME TypeOK, NEW c \in Call, Sound(go[c]),
         CheckRejected(c) \/ CheckedLogout(c) \/ CheckedAndUpdated(c)
  PROVE  TypeOK'
<1> USE DEF redis
<1> c \in Goroutine /\ go[c] \in Local
  BY DEF TypeOK, Goroutine
<1>1. CASE CheckRejected(c)
  <2>1. go' \in [Goroutine -> Local]
    BY <1>1, FinishType DEF CheckRejected, TypeOK
  <2>2. QED
    BY <1>1, <2>1 DEF CheckRejected, TypeOK
<1> DEFINE session == store[go[c].sid]
<1>2. ASSUME go[c].pc = "get", Valid(c)
      PROVE  go[c].sid \in SessionID /\ session \in Session
  BY <1>2 DEF Valid, Sound, TypeOK, Local
<1>3. CASE CheckedLogout(c)
  <2>1. [go[c] EXCEPT !.pc = "mget", !.rec = session] \in Local
    BY <1>2, <1>3 DEF CheckedLogout, Local, PC
  <2>2. go' \in [Goroutine -> Local]
    BY <1>3, <2>1 DEF CheckedLogout, TypeOK
  <2>3. QED
    BY <1>3, <2>2 DEF CheckedLogout, TypeOK
<1>4. CASE CheckedAndUpdated(c)
  <2>1. UpdateTask(go[c].sid, session) \in Local
    <3>1. [session EXCEPT !.last = now] \in Session
      BY <1>2, <1>4 DEF CheckedAndUpdated, Session, TypeOK
    <3>2. QED
      BY <1>2, <1>4, <3>1 DEF CheckedAndUpdated, UpdateTask, Idle, Local, PC, AllOps
  <2>2. [go[c] EXCEPT !.pc = AfterCheck(go[c].op), !.rec = session,
                      !.ok = AfterCheck(go[c].op) = "done"] \in Local
    <3>1. AfterCheck(go[c].op) \in PC /\ (AfterCheck(go[c].op) = "done") \in BOOLEAN
      BY DEF AfterCheck, PC
    <3>2. QED
      BY <1>2, <1>4, <3>1 DEF CheckedAndUpdated, Local
  <2>3. PICK T \in SUBSET {t \in Task : go[t].pc = "idle"} :
          go' = [g \in Goroutine |->
                   IF g = c
                   THEN [go[c] EXCEPT !.pc = AfterCheck(go[c].op), !.rec = session,
                                      !.ok = AfterCheck(go[c].op) = "done"]
                   ELSE IF g \in T THEN UpdateTask(go[c].sid, session) ELSE go[g]]
    BY <1>4 DEF CheckedAndUpdated
  <2>4. go' \in [Goroutine -> Local]
    BY <2>1, <2>2, <2>3 DEF TypeOK
  <2>5. QED
    BY <1>4, <2>4 DEF CheckedAndUpdated, TypeOK
<1>5. QED
  BY <1>1, <1>3, <1>4

LEMMA TypeTerminate ==
  ASSUME TypeOK, NEW c \in Call, Sound(go[c]),
         MGetKeys(c) \/ PruneIndex(c) \/ DelKeys(c) \/ RemoveFromIndex(c)
  PROVE  TypeOK'
<1> USE DEF redis
<1> c \in Goroutine /\ go[c] \in Local /\ go[c].ids \in SUBSET SessionID
  BY DEF TypeOK, Goroutine, Local
<1>1. ASSUME go[c].pc \in {"prune", "srem"}, SRem(go[c].rec.account, go[c].ids)
      PROVE  /\ index' \in [AccountID -> SUBSET SessionID]
             /\ indexDeadline' \in [AccountID -> 0..(MaxTime + TTL)]
  <2>1. go[c].rec.account \in AccountID
    BY <1>1 DEF Sound, Local, Session
  <2>2. index[go[c].rec.account] \ go[c].ids \in SUBSET SessionID
    BY <2>1 DEF TypeOK
  <2>3. QED
    BY <1>1, <2>1, <2>2, SetIndexType DEF SRem
<1>2. CASE MGetKeys(c)
  <2>1. go' \in [Goroutine -> Local]
    BY <1>2, FinishType, GotoType, MissingType DEF MGetKeys, TypeOK, PC
  <2>2. QED
    BY <1>2, <2>1 DEF MGetKeys, TypeOK
<1>3. CASE PruneIndex(c)
  <2>1. go' \in [Goroutine -> Local]
    BY <1>3, FinishType DEF PruneIndex, TypeOK, Outcome
  <2>2. QED
    BY <1>1, <1>3, <2>1 DEF PruneIndex, TypeOK
<1>4. CASE DelKeys(c)
  <2>1. go' \in [Goroutine -> Local]
    BY <1>4, FinishType, MissingType DEF DelKeys, TypeOK, PC
  <2>2. QED
    BY <1>4, <2>1, DelType DEF DelKeys, TypeOK
<1>5. CASE RemoveFromIndex(c)
  <2>1. go' \in [Goroutine -> Local]
    BY <1>5, FinishType DEF RemoveFromIndex, TypeOK, Outcome
  <2>2. QED
    BY <1>1, <1>5, <2>1 DEF RemoveFromIndex, TypeOK
<1>6. QED
  BY <1>2, <1>3, <1>4, <1>5

LEMMA TypeList ==
  ASSUME TypeOK, NEW c \in Call, Sound(go[c]),
         SMembers(c) \/ ListSessions(c) \/ Reply(c)
  PROVE  TypeOK'
<1> USE DEF redis
<1> c \in Goroutine /\ go[c] \in Local
  BY DEF TypeOK, Goroutine
<1>1. CASE SMembers(c)
  <2>1. ASSUME go' = [go EXCEPT ![c].pc = "list", ![c].ids = index[go[c].rec.account]]
        PROVE  go' \in [Goroutine -> Local]
    <3>1. index[go[c].rec.account] \in SUBSET SessionID
      BY <1>1 DEF SMembers, Sound, Local, Session, TypeOK
    <3>2. [go[c] EXCEPT !.pc = "list", !.ids = index[go[c].rec.account]] \in Local
      BY <3>1 DEF Local, PC
    <3>3. QED
      BY <2>1, <3>2 DEF TypeOK
  <2>2. go' \in [Goroutine -> Local]
    BY <1>1, <2>1, FinishType DEF SMembers, TypeOK
  <2>3. QED
    BY <1>1, <2>2 DEF SMembers, TypeOK
<1>2. CASE ListSessions(c)
  <2>1. [go[c] EXCEPT !.pc = "done", !.ok = TRUE, !.ids = Live(go[c].ids)] \in Local
    BY DEF Local, PC, Live
  <2>2. go' \in [Goroutine -> Local]
    BY <1>2, <2>1, FinishType DEF ListSessions, TypeOK
  <2>3. QED
    BY <1>2, <2>2 DEF ListSessions, TypeOK
<1>3. CASE Reply(c)
  <2>1. go' \in [Goroutine -> Local]
    BY <1>3, IdleType DEF Reply, TypeOK
  <2>2. known' \in SUBSET SessionID
    BY <1>3 DEF Reply, Sound, TypeOK, Local
  <2>3. QED
    BY <1>3, <2>1, <2>2 DEF Reply, TypeOK
<1>4. QED
  BY <1>1, <1>2, <1>3

LEMMA TypeNext == ASSUME IInv, Next PROVE TypeOK'
<1> TypeOK /\ \A g \in Goroutine : Sound(go[g])
  BY DEF IInv
<1>1. CASE Tick
  BY <1>1, TypeTick
<1>2. ASSUME NEW g \in Goroutine, SetSession(g) PROVE TypeOK'
  BY <1>2, TypeSetSession
<1>3. ASSUME NEW c \in Call PROVE c \in Goroutine
  BY DEF Goroutine
<1>4. ASSUME NEW c \in Call, SignInRejected(c) PROVE TypeOK'
  <2>1. go' \in [Goroutine -> Local]
    BY <1>3, <1>4, FinishType DEF SignInRejected, TypeOK
  <2>2. QED
    BY <1>4, <2>1 DEF SignInRejected, TypeOK, redis
<1>5. ASSUME NEW c \in Call, Serve(c) PROVE TypeOK'
  BY <1>3, <1>5, TypeCheck, TypeTerminate, TypeList DEF Serve
<1>6. QED
  BY <1>1, <1>2, <1>4, <1>5, TypeSignIn, TypeRequest DEF Next

-----------------------------------------------------------------------------
(* The inductive invariant.                                                *)

(* An id once issued stays issued for the same account and machine.        *)
LEMMA IssuedKept ==
  ASSUME TypeOK, Next
  PROVE  /\ \A s \in SessionID : issued[s] # None => issued'[s] = issued[s]
         /\ \A a \in AccountID : OfAccount(a) \subseteq OfAccount(a)'
<1>1. ASSUME NEW c \in Call, SignIn(c), NEW s \in SessionID, issued[s] # None
      PROVE  issued'[s] = issued[s]
  BY <1>1 DEF SignIn, Fresh, TypeOK
<1>2. ASSUME ~ \E c \in Call : SignIn(c) PROVE issued' = issued
  BY <1>2 DEF Next, Tick, SetSession, SetKey, AddToIndex, ExpireIndex, SetSessionFails,
       SignInRejected, Request, Serve, CheckRejected, CheckedLogout, CheckedAndUpdated,
       MGetKeys, PruneIndex, DelKeys, RemoveFromIndex, SMembers, ListSessions, Reply
<1>3. \A s \in SessionID : issued[s] # None => issued'[s] = issued[s]
  BY <1>1, <1>2
<1>4. QED
  BY <1>3 DEF OfAccount

(* Whoever does not move in a step stays sound.                            *)
LEMMA SoundKept ==
  ASSUME TypeOK, Next, NEW g \in Goroutine, Sound(go[g]), go'[g] = go[g]
  PROVE  Sound(go[g])'
<1> go[g] \in Local
  BY DEF TypeOK
<1>1. go[g].rec # None => go[g].rec.account \in AccountID
  BY DEF Local, Session
<1>2. QED
  BY <1>1, IssuedKept DEF Sound, BoundTo, Local

(* Only its new locals matter for a goroutine when no id is issued.        *)
LEMMA SoundBecomes ==
  ASSUME UNCHANGED issued, NEW g \in Goroutine, Sound(go'[g])
  PROVE  Sound(go[g])'
BY DEF Sound, BoundTo, OfAccount

(* The steps that only move a program counter to p, noting what is missed. *)
LEMMA SoundGoto ==
  ASSUME TypeOK, UNCHANGED issued, NEW g \in Goroutine, Sound(go[g]),
         NEW p \in {"sadd", "expire", "prune", "del", "srem"},
         Goto(g, p) \/ \E S : GotoMissing(g, p, S),
         go[g].rec # None,
         p \in {"prune", "del", "srem"} => go[g].pc \in {"mget", "del"}
  PROVE  Sound(go[g])'
<1>1. /\ go[g] \in Local /\ go'[g].pc = p /\ go'[g].op = go[g].op
      /\ go'[g].sid = go[g].sid /\ go'[g].ids = go[g].ids /\ go'[g].rec = go[g].rec
      /\ go'[g].ok = go[g].ok /\ go'[g].machine = go[g].machine
  BY DEF Goto, GotoMissing, TypeOK, Local
<1>2. Sound(go'[g])
  BY <1>1 DEF Sound
<1>3. QED
  BY <1>2, SoundBecomes

LEMMA SoundDropped ==
  ASSUME TypeOK, UNCHANGED issued, NEW g \in Goroutine, Sound(go[g]),
         MGetDropped(g), go[g].sid # None
  PROVE  Sound(go[g])'
<1>1. /\ go[g] \in Local /\ go'[g].pc = "done" /\ go'[g].op = go[g].op
      /\ go'[g].sid = go[g].sid /\ go'[g].ids = go[g].ids /\ go'[g].rec = go[g].rec
      /\ go'[g].machine = go[g].machine
  BY DEF MGetDropped, TypeOK, Local
<1>2. Sound(go'[g])
  BY <1>1 DEF Sound
<1>3. QED
  BY <1>2, SoundBecomes

LEMMA SoundFinish ==
  ASSUME TypeOK, UNCHANGED issued, NEW g \in Goroutine, Sound(go[g]),
         NEW ok \in BOOLEAN, Finish(g, ok), ok => go[g].sid # None
  PROVE  Sound(go[g])'
<1> go[g] \in Local
  BY DEF TypeOK
<1>1. CASE g \in Task
  BY <1>1 DEF Sound, BoundTo, Finish, TypeOK, Idle
<1>2. CASE g \notin Task /\ ok
  <2>1. go'[g] = [go[g] EXCEPT !.pc = "done", !.ok = TRUE]
    BY <1>2 DEF Finish, TypeOK
  <2>2. QED
    BY <1>2, <2>1 DEF Sound, BoundTo, OfAccount, Local
<1>3. CASE g \notin Task /\ ~ok
  <2>1. go'[g] = [Idle EXCEPT !.pc = "done"]
    BY <1>3 DEF Finish, TypeOK
  <2>2. QED
    BY <2>1 DEF Sound, BoundTo, Idle
<1>4. QED
  BY <1>1, <1>2, <1>3

LEMMA SoundSetSession ==
  ASSUME IInv, Next, NEW g \in Goroutine, SetSession(g)
  PROVE  Sound(go[g])'
<1> TypeOK /\ go[g] \in Local /\ Sound(go[g])
  BY DEF IInv, TypeOK
<1>1. UNCHANGED issued /\ go[g].rec # None /\ go[g].sid # None
  BY DEF SetSession, SetKey, AddToIndex, ExpireIndex, SetSessionFails, Sound
<1>2. CASE SetKey(g) \/ AddToIndex(g)
  BY <1>1, <1>2, SoundGoto DEF SetKey, AddToIndex, PC
<1>3. CASE ExpireIndex(g) \/ SetSessionFails(g)
  BY <1>1, <1>3, SoundFinish DEF ExpireIndex, SetSessionFails, Outcome
<1>4. QED
  BY <1>2, <1>3 DEF SetSession

LEMMA SoundSignIn ==
  ASSUME TypeOK, NEW c \in Call, SignIn(c)
  PROVE  Sound(go[c])'
<1>1. PICK s \in Fresh, a \in AccountID, m \in MachineID :
        /\ issued' = [issued EXCEPT ![s] = [account |-> a, machine |-> m]]
        /\ go' = [go EXCEPT ![c] =
                    [Idle EXCEPT !.pc = "set", !.op = "SignIn", !.sid = s,
                                 !.machine = m,
                                 !.rec = [account |-> a, machine |-> m, last |-> now]]]
  BY DEF SignIn
<1> DEFINE session == [account |-> a, machine |-> m, last |-> now]
           call == [Idle EXCEPT !.pc = "set", !.op = "SignIn", !.sid = s,
                                !.machine = m, !.rec = session]
<1>2. /\ s \in SessionID /\ c \in Goroutine
      /\ session \in Session /\ [account |-> a, machine |-> m] \in Binding
  BY DEF Fresh, Goroutine, Session, Binding, TypeOK
<1>3. go'[c] = call /\ issued'[s] = [account |-> a, machine |-> m]
  BY <1>1, <1>2 DEF TypeOK
<1>4. /\ call.sid = s /\ call.rec = session /\ call.pc = "set" /\ call.ids = {}
      /\ call.ok = FALSE /\ call.op = "SignIn"
  BY DEF Idle
<1>5. None # [account |-> a, machine |-> m]
  BY <1>2, NoneAssumption DEF Binding
<1>6. None # session
  BY <1>2, NoneAssumption DEF Session
<1>7. s # None
  BY <1>2, NoneAssumption
<1> HIDE DEF call
<1>8. /\ issued'[s] # None
      /\ session.account = issued'[s].account /\ session.machine = issued'[s].machine
  BY <1>3, <1>5
<1> HIDE DEF session
<1>9. QED
  BY <1>3, <1>4, <1>6, <1>7, <1>8 DEF Sound, BoundTo

LEMMA SoundRequest ==
  ASSUME IInv, NEW c \in Call, NEW op \in Ops, Request(c, op)
  PROVE  Sound(go[c])'
<1>1. PICK s \in known, m \in MachineID, dup \in BOOLEAN, ids \in SUBSET SessionID :
        /\ ids \in Named(op, s)
        /\ go' = [go EXCEPT ![c] =
                    [Idle EXCEPT !.pc = "get", !.op = op, !.sid = s,
                                 !.machine = m, !.ids = ids, !.dup = dup]]
  <2>1. ASSUME NEW s \in known PROVE Named(op, s) \subseteq SUBSET SessionID
    BY <2>1 DEF IInv, TypeOK, Named
  <2>2. QED
    BY <2>1 DEF Request
<1>2. /\ s \in SessionID /\ s # None /\ issued[s] # None
      /\ ids \subseteq known /\ \A t \in ids : issued[t] # None
  BY <1>1, NoneAssumption DEF IInv, TypeOK, Named
<1>3. (op = "GetAllSessions" => ids = {}) /\ (op = "Logout" => ids \subseteq {s})
  BY <1>1 DEF Named
<1>4. go'[c] = [Idle EXCEPT !.pc = "get", !.op = op, !.sid = s,
                            !.machine = m, !.ids = ids, !.dup = dup]
  BY <1>1 DEF IInv, TypeOK, Goroutine
<1>5. QED
  BY <1>2, <1>3, <1>4 DEF Request, Sound, Idle, redis

LEMMA SoundCheck ==
  ASSUME IInv, Next, NEW c \in Call,
         CheckRejected(c) \/ CheckedLogout(c) \/ CheckedAndUpdated(c)
  PROVE  \A g \in Goroutine : Sound(go[g])'
<1> TypeOK /\ c \in Goroutine /\ go[c] \in Local /\ Sound(go[c])
  BY DEF IInv, TypeOK, Goroutine
<1> DEFINE session == store[go[c].sid]
<1>1. UNCHANGED issued /\ go[c].pc = "get" /\ go[c].sid \in SessionID
  BY DEF CheckRejected, CheckedLogout, CheckedAndUpdated, Sound, Local
<1>2. ASSUME NEW g \in Goroutine, go'[g] = go[g] PROVE Sound(go[g])'
  BY <1>2, SoundKept DEF IInv
<1>3. ASSUME Valid(c)
      PROVE  /\ session \in Session /\ session # None
             /\ BoundTo(go[c].sid, session) /\ session.machine = go[c].machine
  BY <1>1, <1>3 DEF Valid, IInv, TypeOK
<1>4. CASE CheckRejected(c)
  <2>1. Sound(go[c])'
    BY <1>1, <1>4, SoundFinish DEF CheckRejected
  <2>2. \A g \in Goroutine \ {c} : go'[g] = go[g]
    BY <1>4 DEF CheckRejected, Finish, TypeOK
  <2>3. QED
    BY <1>2, <2>1, <2>2
<1>5. CASE CheckedLogout(c)
  <2>1. go'[c] = [go[c] EXCEPT !.pc = "mget", !.rec = session]
    BY <1>5 DEF CheckedLogout, TypeOK
  <2>2. Sound(go'[c])
    <3>1. /\ go'[c].sid = go[c].sid /\ go'[c].ids = go[c].ids
          /\ go'[c].ok = go[c].ok /\ go'[c].machine = go[c].machine
          /\ go'[c].op = go[c].op /\ go'[c].pc = "mget" /\ go'[c].rec = session
      BY <2>1 DEF Local
    <3>2. Valid(c) /\ go[c].op = "Logout"
      BY <1>5 DEF CheckedLogout
    <3>3. QED
      BY <1>1, <1>3, <3>1, <3>2, NoneAssumption DEF Sound
  <2>3. \A g \in Goroutine \ {c} : go'[g] = go[g]
    BY <1>5 DEF CheckedLogout, TypeOK
  <2>4. QED
    BY <1>1, <1>2, <2>2, <2>3, SoundBecomes
<1>6. CASE CheckedAndUpdated(c)
  <2>1. PICK T \in SUBSET {t \in Task : go[t].pc = "idle"} :
          go' = [g \in Goroutine |->
                   IF g = c
                   THEN [go[c] EXCEPT !.pc = AfterCheck(go[c].op), !.rec = session,
                                      !.ok = AfterCheck(go[c].op) = "done"]
                   ELSE IF g \in T THEN UpdateTask(go[c].sid, session) ELSE go[g]]
    BY <1>6 DEF CheckedAndUpdated
  <2>2. Sound(go[c])'
    <3>1. go'[c] = [go[c] EXCEPT !.pc = AfterCheck(go[c].op), !.rec = session,
                                 !.ok = AfterCheck(go[c].op) = "done"]
      BY <2>1
    <3>2. /\ AfterCheck(go[c].op) \in {"mget", "smembers", "done"}
          /\ AfterCheck(go[c].op) = "mget" => go[c].op = "TerminateSessions"
          /\ AfterCheck(go[c].op) = "smembers" => go[c].op = "GetAllSessions"
      BY DEF AfterCheck
    <3>3. go'[c].op = "GetAllSessions" => go'[c].ids = {}
      BY <1>1, <3>1 DEF Sound, Local
    <3>4. /\ go'[c].sid = go[c].sid /\ go'[c].ids = go[c].ids
          /\ go'[c].machine = go[c].machine /\ go'[c].rec = session
          /\ go'[c].op = go[c].op /\ go'[c].op # "Logout"
          /\ go'[c].pc \in {"mget", "smembers", "done"}
          /\ go'[c].pc = "mget" => go'[c].op = "TerminateSessions"
          /\ go'[c].pc = "smembers" => go'[c].op = "GetAllSessions"
      BY <1>6, <3>1, <3>2 DEF Local, CheckedAndUpdated
    <3>5. Sound(go'[c])
      BY <1>1, <1>3, <1>6, <3>3, <3>4, NoneAssumption DEF CheckedAndUpdated, Sound
    <3>6. QED
      BY <1>1, <3>5, SoundBecomes
  <2>3. ASSUME NEW g \in Goroutine, g # c, g \in T PROVE Sound(go[g])'
    <3>1. go'[g] = UpdateTask(go[c].sid, session)
      BY <2>1, <2>3
    <3>2. [session EXCEPT !.last = now] \in Session
      BY <1>3, <1>6 DEF CheckedAndUpdated, Session, TypeOK
    <3>3. [session EXCEPT !.last = now] # None
      BY <3>2, NoneAssumption DEF Session
    <3>4. BoundTo(go[c].sid, [session EXCEPT !.last = now])
      BY <1>3, <1>6 DEF CheckedAndUpdated, BoundTo, Session
    <3>5. QED
      BY <1>1, <3>1, <3>3, <3>4, NoneAssumption DEF UpdateTask, Idle, Sound, BoundTo
  <2>4. ASSUME NEW g \in Goroutine, g # c, g \notin T PROVE Sound(go[g])'
    BY <1>2, <2>1, <2>4
  <2>5. QED
    BY <2>2, <2>3, <2>4
<1>7. QED
  BY <1>4, <1>5, <1>6

LEMMA SoundTerminate ==
  ASSUME IInv, Next, NEW c \in Call,
         MGetKeys(c) \/ PruneIndex(c) \/ DelKeys(c) \/ RemoveFromIndex(c)
  PROVE  Sound(go[c])'
<1> TypeOK /\ c \in Goroutine /\ go[c] \in Local /\ Sound(go[c])
  BY DEF IInv, TypeOK, Goroutine
<1>1. UNCHANGED issued /\ go[c].rec # None /\ go[c].sid # None
  BY DEF MGetKeys, PruneIndex, DelKeys, RemoveFromIndex, Sound
<1>2. CASE \E ok \in BOOLEAN : Finish(c, ok)
  BY <1>1, <1>2, SoundFinish
<1>3. CASE \E p \in {"prune", "del", "srem"} :
             /\ go[c].pc \in {"mget", "del"}
             /\ Goto(c, p) \/ \E S : GotoMissing(c, p, S)
  BY <1>1, <1>3, SoundGoto
<1>4. CASE MGetDropped(c)
  BY <1>1, <1>4, SoundDropped
<1>5. QED
  BY <1>2, <1>3, <1>4 DEF MGetKeys, PruneIndex, DelKeys, RemoveFromIndex, Outcome

LEMMA SoundList ==
  ASSUME IInv, Next, NEW c \in Call, SMembers(c) \/ ListSessions(c) \/ Reply(c)
  PROVE  Sound(go[c])'
<1> TypeOK /\ c \in Goroutine /\ go[c] \in Local /\ Sound(go[c])
  BY DEF IInv, TypeOK, Goroutine
<1>1. UNCHANGED issued
  BY DEF SMembers, ListSessions, Reply
<1>2. CASE \E ok \in BOOLEAN : /\ go[c].pc \in {"smembers", "list"} /\ ok = FALSE
                               /\ Finish(c, ok)
  BY <1>1, <1>2, SoundFinish
<1>3. CASE /\ go[c].pc = "smembers"
           /\ go' = [go EXCEPT ![c].pc = "list", ![c].ids = index[go[c].rec.account]]
  <2>1. go'[c] = [go[c] EXCEPT !.pc = "list", !.ids = index[go[c].rec.account]]
    BY <1>3 DEF TypeOK
  <2>2. go[c].rec.account \in AccountID
    BY <1>3 DEF Sound, Local, Session
  <2>3. index[go[c].rec.account] \subseteq OfAccount(go[c].rec.account)
    BY <2>2 DEF IInv
  <2>4. /\ go'[c].sid = go[c].sid /\ go'[c].rec = go[c].rec /\ go'[c].ok = go[c].ok
        /\ go'[c].machine = go[c].machine /\ go'[c].op = go[c].op
        /\ go'[c].pc = "list" /\ go'[c].ids = index[go[c].rec.account]
    BY <2>1 DEF Local
  <2>5. \A s \in go'[c].ids : issued[s] # None
    BY <2>3, <2>4 DEF OfAccount
  <2>6. Sound(go'[c])
    BY <1>3, <2>3, <2>4, <2>5 DEF Sound
  <2>7. QED
    BY <1>1, <2>6, SoundBecomes
<1>4. CASE /\ go[c].pc = "list"
           /\ go' = [go EXCEPT ![c].pc = "done", ![c].ok = TRUE, ![c].ids = Live(go[c].ids)]
  <2>1. go'[c] = [go[c] EXCEPT !.pc = "done", !.ok = TRUE, !.ids = Live(go[c].ids)]
    BY <1>4 DEF TypeOK
  <2>2. Live(go[c].ids) \subseteq go[c].ids
    BY DEF Live
  <2>3. /\ go'[c].sid = go[c].sid /\ go'[c].rec = go[c].rec
        /\ go'[c].machine = go[c].machine /\ go'[c].op = go[c].op
        /\ go'[c].pc = "done" /\ go'[c].ids = Live(go[c].ids)
    BY <2>1 DEF Local
  <2>4. Sound(go'[c])
    BY <1>4, <2>2, <2>3 DEF Sound
  <2>5. QED
    BY <1>1, <2>4, SoundBecomes
<1>5. CASE Reply(c)
  <2>1. go'[c] = Idle
    BY <1>5 DEF Reply, TypeOK
  <2>2. QED
    BY <2>1 DEF Sound, Idle
<1>6. QED
  BY <1>2, <1>3, <1>4, <1>5 DEF SMembers, ListSessions

(* In a step of one goroutine the others keep their locals; only           *)
(* CheckedAndUpdated starts other goroutines.                              *)
LEMMA OthersKept ==
  ASSUME TypeOK, NEW g \in Goroutine, NEW h \in Goroutine, h # g,
         \/ SetSession(g) \/ SignIn(g) \/ SignInRejected(g)
         \/ \E op \in Ops : Request(g, op)
         \/ MGetKeys(g) \/ PruneIndex(g) \/ DelKeys(g) \/ RemoveFromIndex(g)
         \/ SMembers(g) \/ ListSessions(g) \/ Reply(g)
  PROVE  go'[h] = go[h]
BY DEF TypeOK, Goto, GotoMissing, MGetDropped, Finish, SetSession, SetKey, AddToIndex, ExpireIndex, SetSessionFails,
   SignIn, SignInRejected, Request, MGetKeys, PruneIndex, DelKeys, RemoveFromIndex,
   SMembers, ListSessions, Reply

LEMMA SoundNext ==
  ASSUME IInv, Next
  PROVE  \A g \in Goroutine : Sound(go[g])'
<1> TypeOK /\ \A g \in Goroutine : Sound(go[g])
  BY DEF IInv
<1> \A c \in Call : c \in Goroutine
  BY DEF Goroutine
<1>1. ASSUME Tick PROVE \A g \in Goroutine : Sound(go[g])'
  BY <1>1, SoundKept DEF Tick
<1>2. ASSUME NEW g \in Goroutine, SetSession(g) PROVE \A h \in Goroutine : Sound(go[h])'
  BY <1>2, SoundSetSession, OthersKept, SoundKept
<1>3. ASSUME NEW c \in Call, SignIn(c) PROVE \A h \in Goroutine : Sound(go[h])'
  BY <1>3, SoundSignIn, OthersKept, SoundKept
<1>4. ASSUME NEW c \in Call, SignInRejected(c) PROVE \A h \in Goroutine : Sound(go[h])'
  <2>1. Sound(go[c])'
    BY <1>4, SoundFinish DEF SignInRejected
  <2>2. QED
    BY <1>4, <2>1, OthersKept, SoundKept
<1>5. ASSUME NEW c \in Call, NEW op \in Ops, Request(c, op)
      PROVE  \A h \in Goroutine : Sound(go[h])'
  BY <1>5, SoundRequest, OthersKept, SoundKept
<1>6. ASSUME NEW c \in Call, Serve(c) PROVE \A h \in Goroutine : Sound(go[h])'
  <2>1. CASE CheckRejected(c) \/ CheckedLogout(c) \/ CheckedAndUpdated(c)
    BY <2>1, SoundCheck
  <2>2. CASE MGetKeys(c) \/ PruneIndex(c) \/ DelKeys(c) \/ RemoveFromIndex(c)
    BY <2>2, SoundTerminate, OthersKept, SoundKept
  <2>3. CASE SMembers(c) \/ ListSessions(c) \/ Reply(c)
    BY <2>3, SoundList, OthersKept, SoundKept
  <2>4. QED
    BY <1>6, <2>1, <2>2, <2>3 DEF Serve
<1>7. QED
  BY <1>1, <1>2, <1>3, <1>4, <1>5, <1>6 DEF Next

(* Only SetKey brings a session into the store, and it writes a record of  *)
(* a goroutine that is sound.                                              *)
LEMMA StoreNext ==
  ASSUME IInv, Next, NEW s \in SessionID
  PROVE  \/ store'[s] \in {store[s], None}
         \/ \E g \in Goroutine : /\ go[g].pc = "set" /\ go[g].sid = s /\ SetKey(g)
                                /\ go[g].rec # None /\ store'[s] = go[g].rec
<1> TypeOK
  BY DEF IInv
<1>1. ASSUME NEW g \in Goroutine, SetKey(g), store'[s] # store[s]
      PROVE  /\ go[g].pc = "set" /\ go[g].sid = s
             /\ go[g].rec # None /\ store'[s] = go[g].rec
  BY <1>1 DEF SetKey, Set, Sound, IInv, TypeOK
<1>2. ASSUME NEW S, Del(S) PROVE store'[s] \in {store[s], None}
  BY <1>2 DEF Del
<1>3. CASE Tick
  BY <1>2, <1>3 DEF Tick
<1>4. ASSUME NEW g \in Goroutine, SetSession(g) PROVE SetKey(g) \/ store' = store
  BY <1>4 DEF SetSession, AddToIndex, ExpireIndex, SetSessionFails, redis
<1>5. ASSUME NEW c \in Call, DelKeys(c) PROVE store'[s] \in {store[s], None}
  BY <1>2, <1>5 DEF DelKeys
<1>6. ASSUME NEW c \in Call,
             SignIn(c) \/ SignInRejected(c) \/ \E op \in Ops : Request(c, op)
      PROVE  store' = store
  BY <1>6 DEF SignIn, SignInRejected, Request, redis
<1>7. ASSUME NEW c \in Call, Serve(c) PROVE DelKeys(c) \/ store' = store
  BY <1>7 DEF Serve, CheckRejected, CheckedLogout, CheckedAndUpdated, MGetKeys,
       PruneIndex, RemoveFromIndex, SMembers, ListSessions, Reply, redis
<1>8. QED
  BY <1>1, <1>3, <1>4, <1>5, <1>6, <1>7 DEF Next

(* Only AddToIndex adds an id to a list.                                   *)
LEMMA IndexNext ==
  ASSUME IInv, Next, NEW a \in AccountID
  PROVE  index'[a] \subseteq OfAccount(a)'
<1> TypeOK /\ index[a] \subseteq OfAccount(a) /\ OfAccount(a) \subseteq OfAccount(a)'
  BY IssuedKept DEF IInv
<1> USE DEF redis
<1>1. ASSUME NEW g \in Goroutine, AddToIndex(g) PROVE index'[a] \subseteq OfAccount(a)
  <2>1. /\ go[g].sid \in SessionID /\ go[g].rec # None
        /\ BoundTo(go[g].sid, go[g].rec)
    BY <1>1 DEF AddToIndex, Sound, IInv, TypeOK, Local
  <2>2. index'[a] \subseteq index[a] \cup (IF go[g].rec.account = a THEN {go[g].sid} ELSE {})
    BY <1>1 DEF AddToIndex, SAdd, SetIndex, TypeOK
  <2>3. QED
    BY <2>1, <2>2 DEF BoundTo, OfAccount
<1>2. ASSUME NEW b, NEW S, SRem(b, S) PROVE index'[a] \subseteq index[a]
  BY <1>2 DEF SRem, SetIndex, TypeOK
<1>3. CASE Tick
  BY <1>3 DEF Tick, TypeOK
<1>4. ASSUME NEW g \in Goroutine, SetSession(g) PROVE AddToIndex(g) \/ index' = index
  BY <1>4 DEF SetSession, SetKey, ExpireIndex, SetSessionFails
<1>5. ASSUME NEW c \in Call,
             SignIn(c) \/ SignInRejected(c) \/ \E op \in Ops : Request(c, op)
      PROVE  index' = index
  BY <1>5 DEF SignIn, SignInRejected, Request
<1>6. ASSUME NEW c \in Call, Serve(c)
      PROVE  index' = index \/ \E b, S : SRem(b, S)
  BY <1>6 DEF Serve, CheckRejected, CheckedLogout, CheckedAndUpdated, MGetKeys,
       PruneIndex, DelKeys, RemoveFromIndex, SMembers, ListSessions, Reply
<1>7. QED
  BY <1>1, <1>2, <1>3, <1>4, <1>5, <1>6 DEF Next

LEMMA IInvInit == Init => IInv
<1> SUFFICES ASSUME Init PROVE IInv
  OBVIOUS
<1>1. TypeOK
  BY TypeInit
<1>2. \A g \in Goroutine : Sound(go[g])
  BY DEF Init, Idle, Sound
<1>3. QED
  BY <1>1, <1>2 DEF Init, IInv

LEMMA IInvNext == IInv /\ [Next]_vars => IInv'
<1> SUFFICES ASSUME IInv, [Next]_vars PROVE IInv'
  OBVIOUS
<1>1. CASE UNCHANGED vars
  BY <1>1 DEF vars, IInv, TypeOK, Sound, BoundTo, OfAccount
<1>2. CASE Next
  <2>1. TypeOK'
    BY <1>2, TypeNext
  <2>2. \A g \in Goroutine : Sound(go[g])'
    BY <1>2, SoundNext
  <2>3. ASSUME NEW s \in SessionID, store'[s] # None PROVE BoundTo(s, store[s])'
    <3>1. BoundTo(s, store'[s])
      <4>1. CASE store'[s] \in {store[s], None}
        BY <2>3, <4>1 DEF IInv
      <4>2. CASE \E g \in Goroutine : /\ go[g].sid = s /\ go[g].rec # None
                                      /\ store'[s] = go[g].rec
        BY <4>2 DEF IInv, Sound
      <4>3. QED
        BY <1>2, <4>1, <4>2, StoreNext
    <3>2. issued'[s] = issued[s]
      BY <1>2, <3>1, IssuedKept DEF BoundTo, IInv
    <3>3. QED
      BY <3>1, <3>2 DEF BoundTo
  <2>4. \A a \in AccountID : (index[a] \subseteq OfAccount(a))'
    BY <1>2, IndexNext
  <2>5. \A s \in known' : issued'[s] # None
    <3>1. \A s \in known : issued'[s] # None
      BY <1>2, IssuedKept DEF IInv, TypeOK
    <3>2. ASSUME NEW c \in Call, Reply(c) PROVE \A s \in known' : issued'[s] # None
      BY <3>1, <3>2 DEF Reply, IInv, Sound, TypeOK, Goroutine
    <3>3. known' = known \/ \E c \in Call : Reply(c)
      BY <1>2 DEF Next, Tick, SetSession, SetKey, AddToIndex, ExpireIndex, SetSessionFails,
         SignIn, SignInRejected, Request, Serve, CheckRejected, CheckedLogout,
         CheckedAndUpdated, MGetKeys, PruneIndex, DelKeys, RemoveFromIndex, SMembers,
         ListSessions
    <3>4. QED
      BY <3>1, <3>2, <3>3
  <2>6. QED
    BY <2>1, <2>2, <2>3, <2>4, <2>5 DEF IInv
<1>3. QED
  BY <1>1, <1>2

-----------------------------------------------------------------------------
(* Every reachable state satisfies the inductive invariant.                *)
THEOREM Invariance == Spec => []IInv
BY IInvInit, IInvNext, PTL DEF Spec

(* In every reachable state all variables have their types.                *)
THEOREM TypeCorrect == Spec => []TypeOK
<1>1. IInv => TypeOK
  BY DEF IInv
<1>2. QED
  BY <1>1, Invariance, PTL

(* Whatever requests and updates interleave, no copy of a session record   *)
(* ever names another account or machine than its sign-in.                 *)
THEOREM BindingStays == Spec => []BindingIntact
<1>1. IInv => BindingIntact
  BY DEF IInv, BindingIntact, Sound
<1>2. QED
  BY <1>1, Invariance, PTL

(* No account's list, and no GetAllSessions, ever holds the session of     *)
(* another account.                                                        *)
THEOREM IndexStaysOwn == Spec => []IndexOnlyOwn
<1>1. IInv => IndexOnlyOwn
  BY DEF IInv, IndexOnlyOwn, Sound, Goroutine
<1>2. QED
  BY <1>1, Invariance, PTL

(* A session's key disappears by expiry, by a Logout with that very id, or *)
(* by a TerminateSessions naming it, whose caller passed checkSession with *)
(* a session of its own, of whatever account.                              *)
THEOREM EndsOnlyByRequest == Spec => EndedByRequest
<1> DEFINE Removal == \A s \in SessionID : (store[s] # None /\ store'[s] = None)
       => deadline[s] <= now' \/ \E c \in Call : Entitled(c, s)
<1>1. IInv /\ [Next]_vars => [Removal]_vars
  <2> SUFFICES ASSUME IInv, Next, NEW s \in SessionID, store[s] # None, store'[s] = None
               PROVE  deadline[s] <= now' \/ \E c \in Call : Entitled(c, s)
    OBVIOUS
  <2> TypeOK
    BY DEF IInv
  <2>1. CASE Tick
    BY <2>1 DEF Tick, Del, TypeOK
  <2>2. ASSUME NEW c \in Call, DelKeys(c)
        PROVE  Entitled(c, s)
    BY <2>2 DEF DelKeys, Del, IInv, Sound, BoundTo, Goroutine, Entitled
  <2>3. ASSUME NEW g \in Goroutine, SetSession(g) PROVE FALSE
    BY <2>3 DEF SetSession, SetKey, Set, AddToIndex, ExpireIndex, SetSessionFails, redis,
       IInv, Sound, TypeOK
  <2>4. ASSUME NEW c \in Call,
               SignIn(c) \/ SignInRejected(c) \/ \E op \in Ops : Request(c, op)
        PROVE  FALSE
    BY <2>4 DEF SignIn, SignInRejected, Request, redis
  <2>5. ASSUME NEW c \in Call, Serve(c) PROVE DelKeys(c)
    BY <2>5 DEF Serve, CheckRejected, CheckedLogout, CheckedAndUpdated, MGetKeys,
       PruneIndex, RemoveFromIndex, SMembers, ListSessions, Reply, redis
  <2>6. QED
    BY <2>1, <2>2, <2>3, <2>4, <2>5 DEF Next
<1>2. Spec => [][Removal]_vars
  BY <1>1, Invariance, PTL DEF Spec
<1>3. QED
  BY <1>2 DEF EndedByRequest

-----------------------------------------------------------------------------
(* Sessions implements SessionLifecycle.                                   *)

(* A goroutine comes to be about to SET s only when s is being issued or   *)
(* is live.                                                                *)
LEMMA WriterNext ==
  ASSUME IInv, Next, NEW s \in SessionID, NEW g \in Goroutine,
         go'[g].pc = "set", go'[g].sid = s
  PROVE  \/ go[g].pc = "set" /\ go[g].sid = s
         \/ issued[s] = None \/ store[s] # None
<1> TypeOK /\ go[g] \in Local
  BY DEF IInv, TypeOK
<1> SUFFICES ASSUME go'[g] # go[g] PROVE issued[s] = None \/ store[s] # None
  OBVIOUS
<1>1. ASSUME NEW h \in Goroutine, NEW ok \in BOOLEAN, Finish(h, ok) PROVE FALSE
  <2>1. go'[g] \in {Idle, [Idle EXCEPT !.pc = "done"],
                    [go[g] EXCEPT !.pc = "done", !.ok = TRUE]}
    BY <1>1 DEF Finish, TypeOK
  <2>2. Idle.pc = "idle" /\ [Idle EXCEPT !.pc = "done"].pc = "done"
    BY DEF Idle
  <2>3. [go[g] EXCEPT !.pc = "done", !.ok = TRUE].pc = "done"
    BY DEF Local
  <2>4. QED
    BY <2>1, <2>2, <2>3
<1>2. ASSUME NEW h \in Goroutine, NEW p \in PC \ {"set"},
             Goto(h, p) \/ MGetDropped(h) \/ \E S : GotoMissing(h, p, S)
      PROVE  FALSE
  BY <1>2 DEF Goto, MGetDropped, GotoMissing, TypeOK, Local
<1>3. CASE Tick
  BY <1>3 DEF Tick
<1>4. ASSUME NEW h \in Goroutine, SetSession(h) PROVE FALSE
  BY <1>1, <1>2, <1>4
  DEF SetSession, SetKey, AddToIndex, ExpireIndex, SetSessionFails, Outcome, PC
<1>5. ASSUME NEW c \in Call, SignIn(c) PROVE issued[s] = None
  <2>1. PICK t \in Fresh, a \in AccountID, m \in MachineID :
          go' = [go EXCEPT ![c] =
                  [Idle EXCEPT !.pc = "set", !.op = "SignIn", !.sid = t,
                               !.machine = m,
                               !.rec = [account |-> a, machine |-> m, last |-> now]]]
    BY <1>5 DEF SignIn
  <2>2. go'[g].sid = t
    BY <2>1 DEF TypeOK, Idle
  <2>3. QED
    BY <2>2 DEF Fresh
<1>6. ASSUME NEW c \in Call, SignInRejected(c) PROVE FALSE
  BY <1>1, <1>6 DEF SignInRejected, Goroutine
<1>7. ASSUME NEW c \in Call, NEW op \in Ops, Request(c, op) PROVE FALSE
  BY <1>7 DEF Request, TypeOK, Idle
<1>8. ASSUME NEW c \in Call, CheckedAndUpdated(c) PROVE store[s] # None
  <2>1. go'[g] = UpdateTask(go[c].sid, store[go[c].sid]) \/ go'[g].pc = AfterCheck(go[c].op)
    BY <1>8 DEF CheckedAndUpdated, Local
  <2>2. go'[g].sid = go[c].sid
    BY <2>1 DEF UpdateTask, Idle, AfterCheck
  <2>3. QED
    BY <1>8, <2>2 DEF CheckedAndUpdated, Valid
<1>9. ASSUME NEW c \in Call, CheckRejected(c) \/ CheckedLogout(c) PROVE FALSE
  <2>1. CASE CheckRejected(c)
    BY <1>1, <2>1 DEF CheckRejected, Goroutine
  <2>2. CASE CheckedLogout(c)
    <3>1. go'[g] = [go[g] EXCEPT !.pc = "mget", !.rec = store[go[c].sid]]
      BY <2>2 DEF CheckedLogout, TypeOK
    <3>2. QED
      BY <3>1 DEF Local
  <2>3. QED
    BY <1>9, <2>1, <2>2
<1>10. ASSUME NEW c \in Call,
              MGetKeys(c) \/ PruneIndex(c) \/ DelKeys(c) \/ RemoveFromIndex(c)
       PROVE  FALSE
  BY <1>1, <1>2, <1>10
  DEF MGetKeys, PruneIndex, DelKeys, RemoveFromIndex, Outcome, PC, Goroutine
<1>11. ASSUME NEW c \in Call, SMembers(c) \/ ListSessions(c) \/ Reply(c) PROVE FALSE
  <2>1. CASE \E ok \in BOOLEAN : Finish(c, ok)
    BY <1>1, <2>1 DEF Goroutine
  <2>2. CASE \/ go' = [go EXCEPT ![c].pc = "list", ![c].ids = index[go[c].rec.account]]
             \/ go' = [go EXCEPT ![c].pc = "done", ![c].ok = TRUE,
                                 ![c].ids = Live(go[c].ids)]
             \/ go' = [go EXCEPT ![c] = Idle]
    <3>1. \/ go'[g] = [go[g] EXCEPT !.pc = "list", !.ids = index[go[c].rec.account]]
          \/ go'[g] = [go[g] EXCEPT !.pc = "done", !.ok = TRUE, !.ids = Live(go[c].ids)]
          \/ go'[g] = Idle
      BY <2>2 DEF TypeOK
    <3>2. ASSUME NEW S \in SUBSET SessionID
          PROVE  [go[g] EXCEPT !.pc = "done", !.ok = TRUE, !.ids = S].pc = "done"
      BY DEF Local
    <3>3. Live(go[c].ids) \in SUBSET SessionID
      BY DEF Live, TypeOK, Local, Goroutine
    <3>4. CASE go'[g] = [go[g] EXCEPT !.pc = "list", !.ids = index[go[c].rec.account]]
      BY <3>4 DEF Local
    <3>5. CASE go'[g] = [go[g] EXCEPT !.pc = "done", !.ok = TRUE, !.ids = Live(go[c].ids)]
      BY <3>2, <3>3, <3>5
    <3>6. CASE go'[g] = Idle
      BY <3>6 DEF Idle
    <3>7. QED
      BY <3>1, <3>4, <3>5, <3>6
  <2>3. QED
    BY <1>11, <2>1, <2>2 DEF SMembers, ListSessions, Reply
<1>12. QED
  BY <1>3, <1>4, <1>5, <1>6, <1>7, <1>8, <1>9, <1>10, <1>11 DEF Next, Serve

(* An id leaves "unissued" only for "pending".                             *)
LEMMA IssueStep ==
  ASSUME IInv, Next, NEW s \in SessionID, issued[s] = None, issued'[s] # None
  PROVE  PhaseOf(s)' = "pending"
<1> TypeOK
  BY DEF IInv
<1>1. ASSUME ~ \E c \in Call : SignIn(c) PROVE FALSE
  BY <1>1 DEF Next, Tick, SetSession, SetKey, AddToIndex, ExpireIndex, SetSessionFails,
     SignInRejected, Request, Serve, CheckRejected, CheckedLogout, CheckedAndUpdated,
     MGetKeys, PruneIndex, DelKeys, RemoveFromIndex, SMembers, ListSessions, Reply
<1>2. PICK c \in Call : SignIn(c)
  BY <1>1
<1>3. PICK t \in Fresh, a \in AccountID, m \in MachineID :
        /\ issued' = [issued EXCEPT ![t] = [account |-> a, machine |-> m]]
        /\ go' = [go EXCEPT ![c] =
                    [Idle EXCEPT !.pc = "set", !.op = "SignIn", !.sid = t,
                                 !.machine = m,
                                 !.rec = [account |-> a, machine |-> m, last |-> now]]]
  BY <1>2 DEF SignIn
<1>4. t = s
  BY <1>3 DEF TypeOK
<1>5. c \in Goroutine /\ go'[c].pc = "set" /\ go'[c].sid = s
  BY <1>3, <1>4 DEF TypeOK, Goroutine, Idle
<1>6. store'[s] = None
  BY <1>2 DEF SignIn, redis, IInv, BoundTo
<1>7. QED
  BY <1>5, <1>6 DEF PhaseOf, Pending

(* An id that ended stays ended.                                           *)
LEMMA EndedStep ==
  ASSUME IInv, Next, NEW s \in SessionID, PhaseOf(s) = "ended"
  PROVE  PhaseOf(s)' = "ended"
<1>1. /\ issued[s] # None /\ store[s] = None
      /\ \A g \in Goroutine : ~(go[g].pc = "set" /\ go[g].sid = s)
  BY DEF PhaseOf, Pending
<1>2. issued'[s] # None
  BY <1>1, IssuedKept DEF IInv
<1>3. store'[s] = None
  BY <1>1, StoreNext
<1>4. \A g \in Goroutine : ~(go'[g].pc = "set" /\ go'[g].sid = s)
  BY <1>1, WriterNext
<1>5. QED
  BY <1>2, <1>3, <1>4 DEF PhaseOf, Pending

(* Every id lives the life that SessionLifecycle promises.                 *)
THEOREM Refinement == Spec => LifecycleSpec
<1>1. Init => Lifecycle!Init
  BY DEF Init, Lifecycle!Init, PhaseOf
<1>2. IInv /\ [Next]_vars => [Lifecycle!Next]_[s \in SessionID |-> PhaseOf(s)]
  <2> SUFFICES ASSUME IInv, [Next]_vars
               PROVE  [Lifecycle!Next]_[s \in SessionID |-> PhaseOf(s)]
    OBVIOUS
  <2>1. CASE UNCHANGED vars
    BY <2>1 DEF vars, PhaseOf, Pending
  <2>2. CASE Next
    <3>1. ASSUME NEW s \in SessionID
          PROVE  \/ PhaseOf(s)' = PhaseOf(s)
                 \/ <<PhaseOf(s), PhaseOf(s)'>> \in Lifecycle!Moves
      <4>1. CASE PhaseOf(s) = "unissued"
        <5>1. issued[s] = None
          BY <4>1 DEF PhaseOf
        <5>2. CASE issued'[s] = None
          BY <4>1, <5>2 DEF PhaseOf
        <5>3. CASE issued'[s] # None
          BY <2>2, <4>1, <5>1, <5>3, IssueStep DEF Lifecycle!Moves
        <5>4. QED
          BY <5>2, <5>3
      <4>2. CASE PhaseOf(s) = "ended"
        BY <2>2, <4>2, EndedStep
      <4>3. CASE PhaseOf(s) \in {"pending", "live"}
        <5>1. issued'[s] # None
          BY <2>2, <4>3, IssuedKept DEF PhaseOf, IInv
        <5>2. PhaseOf(s)' \in {"pending", "live", "ended"}
          BY <5>1 DEF PhaseOf
        <5>3. QED
          BY <4>3, <5>2 DEF Lifecycle!Moves
      <4>4. QED
        BY <4>1, <4>2, <4>3 DEF PhaseOf
    <3>2. \A s \in SessionID : PhaseOf(s)' \in Lifecycle!Phase
      BY DEF PhaseOf, Lifecycle!Phase
    <3>3. Lifecycle!Next
      BY <3>1, <3>2 DEF Lifecycle!Next
    <3>4. QED
      BY <3>3
  <2>3. QED
    BY <2>1, <2>2
<1>3. QED
  BY <1>1, <1>2, Invariance, PTL DEF Spec, LifecycleSpec, Lifecycle!Spec
=============================================================================
