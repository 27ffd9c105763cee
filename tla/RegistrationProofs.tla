------------------------- MODULE RegistrationProofs -------------------------
(* Theorems about Registration, for any number of goroutines, emails and   *)
(* accounts, with the failures of stores, broker and process.              *)
EXTENDS Registration, TLAPS

USE TimeAssumption DEF Time

-----------------------------------------------------------------------------
(* Type correctness.                                                       *)

LEMMA IdleType == Idle \in Local
BY DEF Idle, Local, PC, AllOps, Result

LEMMA GotoType ==
  ASSUME go \in [Call -> Local], NEW c \in Call, NEW p \in PC, Goto(c, p)
  PROVE  go' \in [Call -> Local]
BY DEF Goto, Local

LEMMA FinishType ==
  ASSUME go \in [Call -> Local], NEW c \in Call, NEW res \in Result, Finish(c, res)
  PROVE  go' \in [Call -> Local]
<1>1. [go[c] EXCEPT !.pc = "done", !.res = res] \in Local
  BY DEF Local, PC
<1>2. QED
  BY <1>1 DEF Finish

LEMMA TypeInit == Init => TypeOK
BY IdleType DEF Init, TypeOK

LEMMA TypeTick == ASSUME TypeOK, Tick PROVE TypeOK'
<1>1. pending' \in [Email -> Profile \cup {None}]
  BY DEF Tick, TypeOK
<1>2. pendingUntil' \in [Email -> 0..(MaxTime + TTL)]
  BY DEF Tick, TypeOK
<1>3. now' \in 0..MaxTime
  BY DEF Tick, TypeOK
<1>4. QED
  BY <1>1, <1>2, <1>3 DEF Tick, TypeOK

LEMMA TypeRequest ==
  ASSUME TypeOK, NEW c \in Call,
         (\E op \in Ops : Request(c, op)) \/ VerifyAccount(c)
  PROVE  TypeOK'
<1>1. CASE \E op \in Ops : Request(c, op)
  <2>1. PICK op \in Ops, e \in Email, p \in Profile \cup {None} :
          go' = [go EXCEPT ![c] = [Idle EXCEPT !.pc = "checkdb", !.op = op,
                                               !.email = e, !.profile = p]]
    BY <1>1 DEF Request
  <2>2. [Idle EXCEPT !.pc = "checkdb", !.op = op, !.email = e, !.profile = p] \in Local
    BY OpsAssumption, IdleType DEF Local, PC, AllOps
  <2>3. go' \in [Call -> Local]
    BY <2>1, <2>2 DEF TypeOK
  <2>4. QED
    BY <1>1, <2>3 DEF Request, TypeOK
<1>2. CASE VerifyAccount(c)
  <2>1. PICK t \in tokens :
          go' = [go EXCEPT ![c] = [Idle EXCEPT !.pc = "lookup", !.email = t.email,
                                               !.op = "VerifyAccount"]]
    BY <1>2 DEF VerifyAccount
  <2>2. t.email \in Email
    BY DEF TypeOK, Token
  <2>3. [Idle EXCEPT !.pc = "lookup", !.email = t.email, !.op = "VerifyAccount"] \in Local
    BY <2>2, IdleType DEF Local, PC, AllOps
  <2>4. go' \in [Call -> Local]
    BY <2>1, <2>3 DEF TypeOK
  <2>5. QED
    BY <1>2, <2>4 DEF VerifyAccount, TypeOK
<1>3. QED
  BY <1>1, <1>2

(* Cutting a time to whole seconds takes less than a second off it.        *)
LEMMA NumericDateBounds ==
  ASSUME NEW t \in Nat
  PROVE  /\ NumericDate(t) \in 0..t /\ NumericDate(t) > t - Second
<1>1. t % Second \in 0..(Second - 1) /\ t % Second <= t
  BY Z3T(20)
<1>2. QED
  BY <1>1 DEF NumericDate

LEMMA TypeStore ==
  ASSUME TypeOK, NEW c \in Call, Sound(go[c]),
         \/ IsAccountWithEmailExist(c) \/ IsAccountExist(c)
         \/ SetAccount(c) \/ DeliverToken(c)
  PROVE  TypeOK'
<1> go[c] \in Local
  BY DEF TypeOK
<1>1. ASSUME go[c].pc \notin {"idle", "done"} PROVE go[c].email \in Email
  BY <1>1 DEF Sound, Local
<1>2. CASE IsAccountWithEmailExist(c)
  <2>1. go' \in [Call -> Local]
    BY <1>2, GotoType, FinishType DEF IsAccountWithEmailExist, TypeOK, PC, Result
  <2>2. QED
    BY <1>2, <2>1 DEF IsAccountWithEmailExist, TypeOK
<1>3. CASE IsAccountExist(c)
  <2>1. pendingUntil[go[c].email] \in 0..(MaxTime + TTL)
    BY <1>1, <1>3 DEF IsAccountExist, TypeOK
  <2>2. [go[c] EXCEPT !.pc = "deliver", !.until = pendingUntil[go[c].email]] \in Local
    BY <2>1 DEF Local, PC
  <2>3. go' \in [Call -> Local]
    BY <1>3, <2>2, GotoType, FinishType DEF IsAccountExist, TypeOK, PC, Result
  <2>4. QED
    BY <1>3, <2>3 DEF IsAccountExist, TypeOK
<1>4. now + TTL \in 0..(MaxTime + TTL)
  BY DEF TypeOK
<1>5. CASE SetAccount(c)
  <2>1. go[c].email \in Email /\ go[c].profile \in Profile
    BY <1>1, <1>5 DEF SetAccount, Sound, Local
  <2>2. go' \in [Call -> Local]
    BY <1>5, FinishType DEF SetAccount, TypeOK, Result
  <2>3. /\ pending' \in [Email -> Profile \cup {None}]
        /\ pendingUntil' \in [Email -> 0..(MaxTime + TTL)]
    BY <1>4, <1>5, <2>1 DEF SetAccount, TypeOK
  <2>4. accepted' \in [Email -> Time]
    BY <1>4, <1>5, <2>1 DEF SetAccount, TypeOK
  <2>5. QED
    BY <1>5, <2>2, <2>3, <2>4 DEF SetAccount, TypeOK
<1>6. CASE DeliverToken(c)
  <2> DEFINE exp == NumericDate(now + VerifyAccountTokenTTL)
  <2>1. exp \in 0..(MaxTime + TTL)
    BY <1>4, NumericDateBounds DEF VerifyAccountTokenTTL
  <2> HIDE DEF exp
  <2>2. go' \in [Call -> Local]
    <3>1. PICK res \in Result :
            go' = [go EXCEPT ![c].pc = "done", ![c].exp = exp, ![c].res = res]
      BY <1>6 DEF DeliverToken, Result, exp
    <3>2. [go[c] EXCEPT !.pc = "done", !.exp = exp, !.res = res] \in Local
      BY <2>1, <3>1 DEF Local, PC
    <3>3. QED
      BY <3>1, <3>2 DEF TypeOK
  <2>3. [email |-> go[c].email, exp |-> exp] \in Token
    BY <1>1, <1>6, <2>1 DEF DeliverToken, Token
  <2>4. tokens' \in SUBSET Token
    BY <1>6, <2>3 DEF DeliverToken, Stored, TypeOK, exp
  <2>5. QED
    BY <1>6, <2>2, <2>4 DEF DeliverToken, TypeOK
<1>7. QED
  BY <1>2, <1>3, <1>5, <1>6

LEMMA TypeVerify ==
  ASSUME TypeOK, NEW c \in Call, Sound(go[c]),
         \/ GetAccount(c) \/ Insert(c) \/ InsertFails(c) \/ Rollback(c) \/ Commit(c)
         \/ AccountCreated(c) \/ DeleteRegistration(c) \/ Reply(c)
  PROVE  TypeOK'
<1> go[c] \in Local
  BY DEF TypeOK
<1>1. ASSUME go[c].pc \in {"commit", "publish"} PROVE Inserted(go[c]) \in Row
  BY <1>1 DEF Sound, Local, Inserted, Row
<1>2. CASE GetAccount(c)
  <2>1. pending[go[c].email] \in Profile \cup {None}
    BY <1>2 DEF GetAccount, Sound, Local, TypeOK
  <2>2. [go[c] EXCEPT !.pc = "insert", !.profile = pending[go[c].email]] \in Local
    BY <2>1 DEF Local, PC
  <2>3. go' \in [Call -> Local]
    BY <1>2, <2>2, FinishType DEF GetAccount, TypeOK, Result
  <2>4. QED
    BY <1>2, <2>3 DEF GetAccount, TypeOK
<1>3. CASE Insert(c) \/ InsertFails(c)
  <2>1. ASSUME NEW id \in FreshID
        PROVE  [go[c] EXCEPT !.pc = "commit", !.id = id] \in Local
    BY <2>1 DEF FreshID, Local, PC
  <2>2. go' \in [Call -> Local]
    BY <1>3, <2>1, GotoType, FinishType DEF Insert, InsertFails, TypeOK, PC, Result
  <2>3. QED
    BY <1>3, <2>2 DEF Insert, InsertFails, TypeOK
<1>4. CASE Rollback(c)
  <2>1. go' \in [Call -> Local]
    BY <1>4, FinishType DEF Rollback, TypeOK, Result
  <2>2. QED
    BY <1>4, <2>1 DEF Rollback, TypeOK
<1>5. CASE Commit(c)
  <2>1. go' \in [Call -> Local]
    BY <1>5, GotoType, FinishType DEF Commit, TypeOK, PC, Result
  <2>2. rows' \in SUBSET Row
    BY <1>1, <1>5 DEF Commit, TypeOK
  <2>3. QED
    BY <1>5, <2>1, <2>2 DEF Commit, TypeOK
<1>6. CASE AccountCreated(c)
  <2>1. go' \in [Call -> Local]
    BY <1>6, GotoType, FinishType DEF AccountCreated, TypeOK, PC, Result
  <2>2. events' \in SUBSET Row
    BY <1>1, <1>6 DEF AccountCreated, Stored, TypeOK
  <2>3. QED
    BY <1>6, <2>1, <2>2 DEF AccountCreated, TypeOK
<1>7. CASE DeleteRegistration(c)
  <2>1. go' \in [Call -> Local]
    BY <1>7, FinishType DEF DeleteRegistration, TypeOK, Result
  <2>2. /\ pending' \in [Email -> Profile \cup {None}]
        /\ pendingUntil' \in [Email -> 0..(MaxTime + TTL)]
    BY <1>7 DEF DeleteRegistration, TypeOK
  <2>3. QED
    BY <1>7, <2>1, <2>2 DEF DeleteRegistration, TypeOK
<1>8. CASE Reply(c)
  BY <1>8, IdleType DEF Reply, TypeOK
<1>9. QED
  BY <1>2, <1>3, <1>4, <1>5, <1>6, <1>7, <1>8

LEMMA TypeNext == ASSUME IInv, Next PROVE TypeOK'
<1> TypeOK /\ \A c \in Call : Sound(go[c])
  BY DEF IInv
<1>1. CASE Crash
  BY <1>1, IdleType DEF Crash, TypeOK
<1>2. QED
  BY <1>1, TypeTick, TypeRequest, TypeStore, TypeVerify DEF Next, Serve

-----------------------------------------------------------------------------
(* The inductive invariant.                                                *)

LEMMA IInvInit == Init => IInv
<1> SUFFICES ASSUME Init PROVE IInv
  OBVIOUS
<1>1. TypeOK
  BY TypeInit
<1>2. \A c \in Call : Sound(go[c]) /\ Timely(go[c])
  BY DEF Init, Idle, Sound, Timely
<1>3. EventsMatchRows /\ EmailUnique
  BY DEF Init, EventsMatchRows, EmailUnique
<1>4. OneHolder
  BY DEF Init, OneHolder, Idle
<1>5. QED
  BY <1>1, <1>2, <1>3, <1>4 DEF Init, IInv

(* A request that sends its token is done with it.                         *)
LEMMA Delivered ==
  ASSUME TypeOK, NEW c \in Call, DeliverToken(c)
  PROVE  /\ go[c].pc = "deliver" /\ go'[c].pc = "done"
         /\ go'[c].op = go[c].op /\ go'[c].until = go[c].until
         /\ go'[c].exp = NumericDate(now + TTL)
<1>1. PICK res \in Result :
        go' = [go EXCEPT ![c].pc = "done",
                         ![c].exp = NumericDate(now + VerifyAccountTokenTTL),
                         ![c].res = res]
  BY DEF DeliverToken, Result
<1> HIDE DEF NumericDate
<1>2. go'[c] = [go[c] EXCEPT !.pc = "done", !.exp = NumericDate(now + TTL), !.res = res]
  BY <1>1 DEF VerifyAccountTokenTTL, TypeOK
<1>3. go[c] \in Local
  BY DEF TypeOK
<1>4. QED
  BY <1>2, <1>3 DEF DeliverToken, Local

(* Rows and messages are never taken back, and only Commit adds a row.     *)
LEMMA RowsNext ==
  ASSUME TypeOK, Next
  PROVE  /\ events \subseteq events'
         /\ \/ rows' = rows
            \/ \E c \in Call : Commit(c) /\ rows' = rows \cup {Inserted(go[c])}
<1>1. CASE Tick \/ Crash
  BY <1>1 DEF Tick, Crash
<1>2. ASSUME NEW c \in Call, (\E op \in Ops : Request(c, op)) \/ VerifyAccount(c)
      PROVE  events' = events /\ rows' = rows
  BY <1>2 DEF Request, VerifyAccount
<1>3. ASSUME NEW c \in Call, Serve(c) \/ InsertFails(c)
      PROVE  /\ events \subseteq events'
             /\ rows' = rows \/ (Commit(c) /\ rows' = rows \cup {Inserted(go[c])})
  BY <1>3 DEF Stored, Serve, IsAccountWithEmailExist, IsAccountExist, SetAccount, DeliverToken,
     GetAccount, Insert, InsertFails, Rollback, Commit, AccountCreated,
     DeleteRegistration, Reply
<1>4. QED
  BY <1>1, <1>2, <1>3 DEF Next

(* Who moves in a step.                                                    *)
LEMMA OneMoves ==
  ASSUME TypeOK, NEW c \in Call, NEW d \in Call, d # c,
         \/ \E op \in Ops : Request(c, op)
         \/ VerifyAccount(c) \/ Serve(c) \/ InsertFails(c)
  PROVE  go'[d] = go[d] /\ now' = now
<1>1. CASE (\E op \in Ops : Request(c, op)) \/ VerifyAccount(c)
  BY <1>1 DEF Request, VerifyAccount, TypeOK
<1>2. CASE Serve(c) \/ InsertFails(c)
  BY <1>2 DEF Serve, IsAccountWithEmailExist, IsAccountExist, SetAccount, DeliverToken,
     GetAccount, Insert, InsertFails, Rollback, Commit, AccountCreated,
     DeleteRegistration, Reply,
     Goto, Finish, TypeOK
<1>3. QED
  BY <1>1, <1>2

(* Whoever does not move stays sound, except one that holds an email which *)
(* this step commits.                                                      *)
LEMMA SoundKept ==
  ASSUME TypeOK, Next, NEW c \in Call, Sound(go[c]), go'[c] = go[c],
         now' \in {now, now + 1}, go[c].pc = "commit" => go[c].email \notin Emails(rows')
  PROVE  Sound(go[c])'
<1> go[c] \in Local
  BY DEF TypeOK
<1>1. rows \subseteq rows' /\ events \subseteq events'
  BY RowsNext
<1>2. go[c].until <= now + TTL => go[c].until <= now' + TTL
  BY DEF Local, TypeOK
<1>3. Inserted(go[c])' = Inserted(go[c])
  BY DEF Inserted
<1>4. QED
  BY <1>1, <1>2, <1>3 DEF Sound, Emails

(* The step of a request that moves keeps it sound.                        *)
LEMMA SoundRequest ==
  ASSUME IInv, NEW c \in Call, (\E op \in Ops : Request(c, op)) \/ VerifyAccount(c)
  PROVE  Sound(go[c])'
<1> TypeOK
  BY DEF IInv
<1>1. CASE \E op \in Ops : Request(c, op)
  <2>1. PICK op \in Ops \ {"VerifyAccount"}, e \in Email, p \in Profile \cup {None} :
          /\ p \in (IF op = "CreateAccount" THEN Profile ELSE {None})
          /\ go' = [go EXCEPT ![c] = [Idle EXCEPT !.pc = "checkdb", !.op = op,
                                                  !.email = e, !.profile = p]]
    BY <1>1 DEF Request
  <2>2. /\ go'[c].pc = "checkdb" /\ go'[c].op = op /\ go'[c].email = e
        /\ go'[c].profile = p /\ go'[c].res = "none"
    BY <2>1 DEF TypeOK, Idle
  <2>3. e # None /\ op # "VerifyAccount" /\ (op = "CreateAccount" => p # None)
    BY <2>1, NoneAssumption
  <2>4. QED
    BY <2>2, <2>3 DEF Sound
<1>2. CASE VerifyAccount(c)
  <2>1. PICK t \in tokens :
          go' = [go EXCEPT ![c] = [Idle EXCEPT !.pc = "lookup", !.email = t.email,
                                               !.op = "VerifyAccount"]]
    BY <1>2 DEF VerifyAccount
  <2>2. t.email \in Email
    BY DEF TypeOK, Token
  <2>3. go'[c].pc = "lookup" /\ go'[c].email = t.email /\ go'[c].res = "none"
    BY <2>1 DEF TypeOK, Idle
  <2>4. QED
    BY <2>2, <2>3, NoneAssumption DEF Sound
<1>3. QED
  BY <1>1, <1>2

(* A request that ends is sound unless it is a VerifyAccount answered with *)
(* success.                                                                *)
LEMMA SoundFinish ==
  ASSUME TypeOK, NEW c \in Call, NEW res \in Result, Finish(c, res),
         res = "ok" => go[c].op # "VerifyAccount"
  PROVE  Sound(go[c])'
<1>1. go'[c].pc = "done" /\ go'[c].res = res /\ go'[c].op = go[c].op
  BY DEF Finish, TypeOK, Local
<1>2. QED
  BY <1>1 DEF Sound

LEMMA SoundStore ==
  ASSUME IInv, NEW c \in Call,
         \/ IsAccountWithEmailExist(c) \/ IsAccountExist(c)
         \/ SetAccount(c) \/ DeliverToken(c)
  PROVE  Sound(go[c])'
<1> TypeOK /\ Sound(go[c]) /\ go[c] \in Local
  BY DEF IInv, TypeOK
<1>1. CASE (\E res \in Result : Finish(c, res)) /\ ~DeliverToken(c)
  BY <1>1, SoundFinish DEF IsAccountWithEmailExist, IsAccountExist, SetAccount, Sound
<1>2. CASE go[c].pc = "checkdb" /\ Goto(c, "checkcache")
  <2>1. go'[c] = [go[c] EXCEPT !.pc = "checkcache"]
    BY <1>2 DEF Goto, TypeOK
  <2>2. QED
    BY <1>2, <2>1 DEF Sound, Local
<1>3. CASE go[c].pc = "checkcache" /\ go[c].op = "CreateAccount" /\ Goto(c, "register")
  <2>1. go'[c] = [go[c] EXCEPT !.pc = "register"]
    BY <1>3 DEF Goto, TypeOK
  <2>2. QED
    BY <1>3, <2>1 DEF Sound, Local
<1>4. CASE /\ go[c].pc = "checkcache" /\ go[c].op = "RequestAccountVerificationToken"
           /\ go' = [go EXCEPT ![c].pc = "deliver",
                               ![c].until = pendingUntil[go[c].email]]
           /\ now' = now
  <2>1. go'[c] = [go[c] EXCEPT !.pc = "deliver", !.until = pendingUntil[go[c].email]]
    BY <1>4 DEF TypeOK
  <2>2. /\ go'[c].pc = "deliver" /\ go'[c].until = pendingUntil[go[c].email]
        /\ go'[c].op = go[c].op /\ go'[c].email = go[c].email /\ go'[c].res = go[c].res
    BY <2>1 DEF Local
  <2>3. pendingUntil[go[c].email] <= now + TTL
    BY <1>4 DEF IInv, Sound, Local
  <2>4. QED
    BY <1>4, <2>2, <2>3 DEF Sound
<1>5. CASE DeliverToken(c)
  <2>1. go'[c].pc = "done" /\ go'[c].op = go[c].op /\ go[c].op # "VerifyAccount"
    BY <1>5, Delivered DEF Sound
  <2>2. QED
    BY <2>1 DEF Sound
<1>6. QED
  BY <1>1, <1>2, <1>3, <1>4, <1>5
  DEF IsAccountWithEmailExist, IsAccountExist, SetAccount, Result

LEMMA SoundVerify ==
  ASSUME IInv, NEW c \in Call,
         \/ GetAccount(c) \/ Insert(c) \/ InsertFails(c) \/ Rollback(c) \/ Commit(c)
         \/ AccountCreated(c) \/ DeleteRegistration(c) \/ Reply(c)
  PROVE  Sound(go[c])'
<1> TypeOK /\ Sound(go[c]) /\ go[c] \in Local
  BY DEF IInv, TypeOK
<1>1. ASSUME NEW res \in Result \ {"ok"}, Finish(c, res) PROVE Sound(go[c])'
  BY <1>1, SoundFinish
<1>2. CASE GetAccount(c)
  <2>1. CASE /\ go[c].pc = "lookup" /\ pending[go[c].email] # None
             /\ go' = [go EXCEPT ![c].pc = "insert", ![c].profile = pending[go[c].email]]
    <3>1. go'[c] = [go[c] EXCEPT !.pc = "insert", !.profile = pending[go[c].email]]
      BY <2>1 DEF TypeOK
    <3>2. /\ go'[c].pc = "insert" /\ go'[c].profile = pending[go[c].email]
          /\ go'[c].email = go[c].email /\ go'[c].res = go[c].res
      BY <3>1 DEF Local
    <3>3. QED
      BY <2>1, <3>2 DEF Sound
  <2>2. QED
    BY <1>1, <1>2, <2>1 DEF GetAccount, Result
<1>3. CASE Insert(c) \/ InsertFails(c)
  <2>1. ASSUME ~Taken(c), NEW id \in FreshID,
               go' = [go EXCEPT ![c].pc = "commit", ![c].id = id]
        PROVE  Sound(go[c])'
    <3>1. go'[c] = [go[c] EXCEPT !.pc = "commit", !.id = id]
      BY <2>1 DEF TypeOK
    <3>2. /\ go'[c].pc = "commit" /\ go'[c].id = id /\ go'[c].profile = go[c].profile
          /\ go'[c].email = go[c].email /\ go'[c].res = go[c].res
      BY <3>1 DEF Local
    <3>3. id # None
      BY NoneAssumption DEF FreshID
    <3>4. QED
      BY <1>3, <2>1, <3>2, <3>3 DEF Insert, InsertFails, Sound, Taken, Emails
  <2>2. CASE Goto(c, "rollback")
    <3>1. go'[c].pc = "rollback" /\ go'[c].email = go[c].email /\ go'[c].res = go[c].res
      BY <2>2 DEF Goto, TypeOK, Local
    <3>2. QED
      BY <1>3, <3>1 DEF Insert, InsertFails, Sound
  <2>3. QED
    BY <1>1, <1>3, <2>1, <2>2 DEF Insert, InsertFails, Result
<1>4. CASE Rollback(c)
  BY <1>1, <1>4 DEF Rollback, Result
<1>5. CASE Commit(c)
  <2>1. CASE rows' = rows \cup {Inserted(go[c])} /\ Goto(c, "publish")
    <3>1. /\ go'[c].pc = "publish" /\ go'[c].id = go[c].id
          /\ go'[c].profile = go[c].profile /\ go'[c].email = go[c].email
          /\ go'[c].res = go[c].res
      BY <2>1 DEF Goto, TypeOK, Local
    <3>2. Inserted(go[c])' = Inserted(go[c])
      BY <3>1 DEF Inserted
    <3>3. QED
      BY <1>5, <2>1, <3>1, <3>2 DEF Commit, Sound
  <2>2. QED
    BY <1>1, <1>5, <2>1 DEF Commit, Result
<1>6. CASE AccountCreated(c)
  <2>1. CASE Goto(c, "forget")
    <3>1. /\ go'[c].pc = "forget" /\ go'[c].id = go[c].id
          /\ go'[c].profile = go[c].profile /\ go'[c].email = go[c].email
          /\ go'[c].res = go[c].res
      BY <2>1 DEF Goto, TypeOK, Local
    <3>2. Inserted(go[c])' = Inserted(go[c])
      BY <3>1 DEF Inserted
    <3>3. QED
      BY <1>6, <2>1, <3>1, <3>2 DEF AccountCreated, Sound
  <2>2. QED
    BY <1>1, <1>6, <2>1 DEF AccountCreated, Result
<1>7. CASE DeleteRegistration(c)
  <2>1. /\ go'[c].pc = "done" /\ go'[c].id = go[c].id
        /\ go'[c].profile = go[c].profile /\ go'[c].email = go[c].email
    BY <1>7 DEF DeleteRegistration, Finish, TypeOK, Local
  <2>2. Inserted(go[c])' = Inserted(go[c])
    BY <2>1 DEF Inserted
  <2>3. QED
    BY <1>7, <2>1, <2>2 DEF DeleteRegistration, Sound
<1>8. CASE Reply(c)
  <2>1. go'[c] = Idle
    BY <1>8 DEF Reply, TypeOK
  <2>2. QED
    BY <2>1 DEF Sound, Idle
<1>9. QED
  BY <1>2, <1>3, <1>4, <1>5, <1>6, <1>7, <1>8

LEMMA SoundNext ==
  ASSUME IInv, Next
  PROVE  \A c \in Call : Sound(go[c])'
<1> TypeOK /\ (\A c \in Call : Sound(go[c])) /\ OneHolder
  BY DEF IInv
<1>1. CASE Tick
  <2>1. go' = go /\ rows' = rows /\ now' = now + 1
    BY <1>1 DEF Tick
  <2>2. QED
    BY <2>1, SoundKept DEF Sound
<1>2. CASE Crash
  BY <1>2 DEF Crash, Sound, Idle
<1>3. ASSUME NEW c \in Call,
             \/ \E op \in Ops : Request(c, op)
             \/ VerifyAccount(c) \/ Serve(c) \/ InsertFails(c)
      PROVE  \A d \in Call : Sound(go[d])'
  <2>1. Sound(go[c])'
    BY <1>3, SoundRequest, SoundStore, SoundVerify DEF Serve
  <2>2. ASSUME NEW d \in Call, d # c PROVE Sound(go[d])'
    <3>1. go'[d] = go[d] /\ now' = now
      BY <1>3, <2>2, OneMoves
    <3>2. ASSUME go[d].pc = "commit" PROVE go[d].email \notin Emails(rows')
      <4>1. go[d].email \notin Emails(rows)
        BY <3>2 DEF Sound
      <4>2. ASSUME NEW b \in Call, Commit(b), rows' = rows \cup {Inserted(go[b])}
            PROVE  go[d].email \notin Emails(rows')
        <5>1. b # d
          BY <3>1, <3>2, <4>2 DEF Commit, Goto, Finish, TypeOK, Local
        <5>2. go[b].email # go[d].email
          BY <3>2, <4>2, <5>1 DEF Commit, OneHolder
        <5>3. QED
          BY <4>1, <4>2, <5>2 DEF Emails, Inserted
      <4>3. QED
        BY <4>1, <4>2, RowsNext
    <3>3. QED
      BY <3>1, <3>2, SoundKept
  <2>3. QED
    BY <2>1, <2>2
<1>4. QED
  BY <1>1, <1>2, <1>3 DEF Next

(* INSERT waits for the holder of the email.                               *)
LEMMA OneHolderNext == ASSUME IInv, Next PROVE OneHolder'
<1> TypeOK /\ OneHolder
  BY DEF IInv
<1>1. CASE Tick \/ Crash
  BY <1>1 DEF Tick, Crash, OneHolder, Idle
<1>2. ASSUME NEW c \in Call,
             \/ \E op \in Ops : Request(c, op)
             \/ VerifyAccount(c) \/ Serve(c) \/ InsertFails(c)
      PROVE  OneHolder'
  <2>1. \A d \in Call \ {c} : go'[d] = go[d]
    BY <1>2, OneMoves
  <2>2. CASE go'[c].pc # "commit"
    BY <2>1, <2>2 DEF OneHolder
  <2>3. CASE go'[c].pc = "commit"
    <3>1. CASE go'[c] = go[c]
      BY <2>1, <3>1 DEF OneHolder
    <3>2. CASE go'[c] # go[c]
      <4>1. Insert(c)
        <5>1. ASSUME NEW p \in PC \ {"commit"}, Goto(c, p) PROVE FALSE
          BY <2>3, <5>1 DEF Goto, TypeOK, Local
        <5>2. ASSUME NEW res, Finish(c, res) PROVE FALSE
          BY <2>3, <5>2 DEF Finish, TypeOK, Local
        <5>3. ASSUME (\E op \in Ops : Request(c, op)) \/ VerifyAccount(c) \/ Reply(c)
              PROVE  FALSE
          <6>1. CASE \E op \in Ops : Request(c, op)
            <7>1. PICK op \in Ops \ {"VerifyAccount"}, e \in Email,
                       q \in Profile \cup {None} :
                    go' = [go EXCEPT ![c] = [Idle EXCEPT !.pc = "checkdb", !.op = op,
                                                         !.email = e, !.profile = q]]
              BY <6>1 DEF Request
            <7>2. QED
              BY <2>3, <7>1 DEF Idle, TypeOK
          <6>2. CASE VerifyAccount(c)
            <7>1. PICK t \in tokens :
                    go' = [go EXCEPT ![c] = [Idle EXCEPT !.pc = "lookup",
                             !.email = t.email, !.op = "VerifyAccount"]]
              BY <6>2 DEF VerifyAccount
            <7>2. QED
              BY <2>3, <7>1 DEF Idle, TypeOK
          <6>3. CASE Reply(c)
            BY <2>3, <6>3 DEF Reply, Idle, TypeOK
          <6>4. QED
            BY <5>3, <6>1, <6>2, <6>3
        <5>4. ASSUME IsAccountExist(c) \/ GetAccount(c) PROVE FALSE
          <6>1. \/ Goto(c, "register") \/ Finish(c, "error")
                \/ go' = [go EXCEPT ![c].pc = "deliver",
                                     ![c].until = pendingUntil[go[c].email]]
                \/ go' = [go EXCEPT ![c].pc = "insert",
                                     ![c].profile = pending[go[c].email]]
            BY <5>4 DEF IsAccountExist, GetAccount
          <6>2. \/ go'[c] = [go[c] EXCEPT !.pc = "deliver", !.until = pendingUntil[go[c].email]]
                \/ go'[c] = [go[c] EXCEPT !.pc = "insert", !.profile = pending[go[c].email]]
            BY <5>1, <5>2, <6>1 DEF TypeOK, PC
          <6>3. QED
            BY <2>3, <6>2 DEF TypeOK, Local
        <5>5. ASSUME IsAccountWithEmailExist(c) \/ Commit(c) \/ AccountCreated(c) PROVE FALSE
          <6>1. \/ \E p \in {"checkcache", "publish", "forget"} : Goto(c, p)
                \/ \E res \in Result : Finish(c, res)
            BY <5>5 DEF IsAccountWithEmailExist, Commit, AccountCreated, Result
          <6>2. QED
            BY <5>1, <5>2, <6>1 DEF PC
        <5>6. ASSUME \/ SetAccount(c) \/ DeliverToken(c) \/ Rollback(c)
                     \/ DeleteRegistration(c)
              PROVE  FALSE
          BY <2>3, <5>2, <5>6, Delivered
          DEF SetAccount, Rollback, DeleteRegistration
        <5>7. ASSUME InsertFails(c) PROVE FALSE
          <6>1. Goto(c, "rollback") \/ Finish(c, "error")
            BY <5>7 DEF InsertFails
          <6>2. QED
            BY <5>1, <5>2, <6>1 DEF PC
        <5>8. QED
          BY <1>2, <5>3, <5>4, <5>5, <5>6, <5>7 DEF Serve
      <4>2. go'[c].email = go[c].email
        BY <4>1 DEF Insert, Goto, Finish, TypeOK, Local
      <4>3. ~Locked(c)
        BY <2>3, <4>1 DEF Insert, Goto, Finish, TypeOK, Local
      <4>4. QED
        BY <2>1, <4>2, <4>3 DEF OneHolder, Locked
    <3>3. QED
      BY <3>1, <3>2
  <2>4. QED
    BY <2>2, <2>3
<1>3. QED
  BY <1>1, <1>2 DEF Next

(* The properties of rows, messages and deadlines.                         *)
LEMMA StoresNext ==
  ASSUME IInv, Next
  PROVE  /\ EventsMatchRows' /\ EmailUnique'
         /\ \A e \in Email : pendingUntil'[e] <= now' + TTL
<1> TypeOK /\ \A c \in Call : Sound(go[c])
  BY DEF IInv
<1>1. EventsMatchRows'
  <2>1. events' = events \/ \E c \in Call : /\ go[c].pc = "publish"
                                            /\ events' = events \cup {Inserted(go[c])}
    BY DEF Next, Tick, Crash, Request, VerifyAccount, Serve, IsAccountWithEmailExist,
       IsAccountExist, SetAccount, DeliverToken, GetAccount, Insert, InsertFails, Rollback,
       Commit,
       AccountCreated, Stored, DeleteRegistration, Reply
  <2>2. \A c \in Call : go[c].pc = "publish" => Inserted(go[c]) \in rows
    BY DEF Sound
  <2>3. QED
    BY <2>1, <2>2, RowsNext DEF IInv, EventsMatchRows
<1>2. EmailUnique'
  <2>1. ASSUME NEW c \in Call, Commit(c), rows' = rows \cup {Inserted(go[c])}
        PROVE  EmailUnique'
    <3>1. \A r \in rows : r.email # Inserted(go[c]).email
      BY <2>1 DEF Commit, Sound, Emails, Inserted
    <3>2. QED
      BY <2>1, <3>1 DEF IInv, EmailUnique
  <2>2. QED
    BY <2>1, RowsNext DEF IInv, EmailUnique
<1>3. ASSUME NEW e \in Email PROVE pendingUntil'[e] <= now' + TTL
  <2>1. /\ now \in Int /\ TTL \in Int /\ TTL > 0 /\ now >= 0
        /\ pendingUntil[e] \in Int /\ pendingUntil[e] <= now + TTL
    BY DEF TypeOK, IInv
  <2>2. CASE Tick
    <3>1. now' = now + 1 /\ pendingUntil'[e] \in {0, pendingUntil[e]}
      BY <2>2 DEF Tick, TypeOK
    <3>2. QED
      BY <2>1, <3>1
  <2>3. ASSUME ~Tick
        PROVE  now' = now /\ pendingUntil'[e] \in {0, pendingUntil[e], now + TTL}
    BY <2>3 DEF TypeOK, Next, Crash, Request, VerifyAccount, Serve,
       IsAccountWithEmailExist, IsAccountExist, SetAccount, DeliverToken, GetAccount,
       Insert, InsertFails, Rollback, Commit, AccountCreated, DeleteRegistration, Reply
  <2>4. QED
    BY <2>1, <2>2, <2>3
<1>4. QED
  BY <1>1, <1>2, <1>3

(* What goroutines know of deadlines.                                      *)
LEMMA TimelyNext ==
  ASSUME IInv, Next, NEW c \in Call
  PROVE  Timely(go[c])'
<1> TypeOK /\ Sound(go[c]) /\ Timely(go[c]) /\ go[c] \in Local
  BY DEF IInv, TypeOK
<1>1. CASE go'[c] = go[c]
  BY <1>1 DEF Timely
<1>2. CASE go'[c] = Idle
  BY <1>2 DEF Timely, Idle
<1>3. CASE (\E op \in Ops : Request(c, op)) \/ VerifyAccount(c)
  <2>1. go'[c].pc \in {"checkdb", "lookup"} /\ go'[c].until = 0 /\ go'[c].exp = 0
    <3>1. CASE \E op \in Ops : Request(c, op)
      <4>1. PICK op \in Ops, e \in Email, p \in Profile \cup {None} :
              go' = [go EXCEPT ![c] = [Idle EXCEPT !.pc = "checkdb", !.op = op,
                                                   !.email = e, !.profile = p]]
        BY <3>1 DEF Request
      <4>2. QED
        BY <4>1 DEF TypeOK, Idle
    <3>2. CASE VerifyAccount(c)
      <4>1. PICK t \in tokens :
              go' = [go EXCEPT ![c] = [Idle EXCEPT !.pc = "lookup", !.email = t.email,
                                                   !.op = "VerifyAccount"]]
        BY <3>2 DEF VerifyAccount
      <4>2. QED
        BY <4>1 DEF TypeOK, Idle
    <3>3. QED
      BY <1>3, <3>1, <3>2
  <2>2. QED
    BY <2>1 DEF Timely
<1>4. CASE DeliverToken(c)
  <2>1. now + TTL \in Nat /\ now + TTL >= go[c].until /\ go[c].until \in Nat
    BY <1>4 DEF DeliverToken, Sound, TypeOK, Local
  <2>2. /\ NumericDate(now + TTL) \in Nat
        /\ NumericDate(now + TTL) > go[c].until - Second
    BY <2>1, NumericDateBounds
  <2> HIDE DEF NumericDate
  <2>3. /\ go'[c].pc = "done" /\ go'[c].until = go[c].until
        /\ go'[c].exp = NumericDate(now + TTL)
    BY <1>4, Delivered
  <2>4. QED
    BY <2>2, <2>3 DEF Timely
<1>5. CASE \E id \in Profile \cup AccountID \cup Time :
             \/ go' = [go EXCEPT ![c].pc = "deliver", ![c].until = id]
             \/ go[c].pc = "lookup" /\ go' = [go EXCEPT ![c].pc = "insert", ![c].profile = id]
             \/ go[c].pc = "insert" /\ go' = [go EXCEPT ![c].pc = "commit", ![c].id = id]
  <2>1. \/ go'[c].pc = "deliver"
        \/ /\ go[c].pc \in {"lookup", "insert"} /\ go'[c].pc \in {"insert", "commit"}
           /\ go'[c].until = go[c].until /\ go'[c].exp = go[c].exp
    BY <1>5 DEF TypeOK, Local
  <2>2. QED
    BY <2>1 DEF Timely
<1>6. CASE /\ go[c].pc \notin {"deliver", "done"}
           /\ \/ \E p \in PC \ {"done"} : Goto(c, p)
              \/ \E res \in Result : Finish(c, res)
  <2>1. go'[c].until = 0 /\ go'[c].exp = 0
    BY <1>6 DEF Goto, Finish, Timely, TypeOK, Local
  <2>2. QED
    BY <2>1 DEF Timely
<1>7. CASE \E d \in Call \ {c} : \/ \E op \in Ops : Request(d, op)
                                 \/ VerifyAccount(d) \/ Serve(d) \/ InsertFails(d)
  BY <1>1, <1>7, OneMoves
<1>8. CASE Tick \/ Crash
  BY <1>1, <1>2, <1>8 DEF Tick, Crash
<1>9. CASE IsAccountWithEmailExist(c) \/ IsAccountExist(c) \/ SetAccount(c)
  <2>1. pendingUntil[go[c].email] \in Time
    BY <1>9 DEF IsAccountWithEmailExist, IsAccountExist, SetAccount, Sound, Local, TypeOK
  <2>2. QED
    BY <1>5, <1>6, <1>9, <2>1
    DEF IsAccountWithEmailExist, IsAccountExist, SetAccount, PC, Result
<1>10. CASE GetAccount(c)
  <2>1. pending[go[c].email] \in Profile \cup {None}
    BY <1>10 DEF GetAccount, Sound, Local, TypeOK
  <2>2. QED
    BY <1>5, <1>6, <1>10, <2>1 DEF GetAccount, Result
<1>11. CASE Insert(c) \/ InsertFails(c)
  BY <1>5, <1>6, <1>11 DEF Insert, InsertFails, FreshID, PC, Result
<1>12. CASE Rollback(c) \/ Commit(c) \/ AccountCreated(c) \/ DeleteRegistration(c)
  BY <1>6, <1>12 DEF Rollback, Commit, AccountCreated, DeleteRegistration, PC, Result
<1>13. CASE Reply(c)
  BY <1>2, <1>13 DEF Reply, TypeOK
<1>14. QED
  BY <1>3, <1>4, <1>7, <1>8, <1>9, <1>10, <1>11, <1>12, <1>13 DEF Next, Serve

LEMMA IInvNext == IInv /\ [Next]_vars => IInv'
<1> SUFFICES ASSUME IInv, [Next]_vars PROVE IInv'
  OBVIOUS
<1>1. CASE UNCHANGED vars
  BY <1>1 DEF vars, IInv, TypeOK, EventsMatchRows, EmailUnique,
     Sound, Timely, Inserted, Emails, OneHolder
<1>2. CASE Next
  BY <1>2, TypeNext, SoundNext, TimelyNext, OneHolderNext, StoresNext DEF IInv
<1>3. QED
  BY <1>1, <1>2

-----------------------------------------------------------------------------
(* Every reachable state satisfies the inductive invariant.                *)
THEOREM Invariance == Spec => []IInv
BY IInvInit, IInvNext, PTL DEF Spec

(* In every reachable state all variables have their types.                *)
THEOREM TypeCorrect == Spec => []TypeOK
<1>1. IInv => TypeOK
  BY DEF IInv
<1>2. QED
  BY <1>1, Invariance, PTL

(* No message ever announces an account that is not committed, or with     *)
(* other data, whatever fails and whenever the process crashes.            *)
THEOREM EventsAlwaysMatch == Spec => []EventsMatchRows
<1>1. IInv => EventsMatchRows
  BY DEF IInv
<1>2. QED
  BY <1>1, Invariance, PTL

(* No number of concurrent VerifyAccount requests makes two accounts of    *)
(* one email.                                                              *)
THEOREM EmailsStayUnique == Spec => []EmailUnique
<1>1. IInv => EmailUnique
  BY DEF IInv
<1>2. QED
  BY <1>1, Invariance, PTL

(* A VerifyAccount answered with success has committed a row of its own:   *)
(* one that met a unique violation is never taken for it.                  *)
THEOREM VerifiedIsDone == Spec => []VerifiedMeansDone
<1>1. IInv => VerifiedMeansDone
  BY DEF IInv, Sound, VerifiedMeansDone, Verified, Inserted
<1>2. QED
  BY <1>1, Invariance, PTL

(* A link works until the registration it was requested for expires, or to *)
(* less than a second before.                                              *)
THEOREM TokensLastLongEnough == Spec => []TokenOutlivesRegistration
<1>1. IInv => TokenOutlivesRegistration
  BY DEF IInv, Timely, TokenOutlivesRegistration
<1>2. QED
  BY <1>1, Invariance, PTL

-----------------------------------------------------------------------------
(* While no SET of a registration is lost no accepted one is lost.         *)

LEMMA KeptInit == Init => Kept
<1> SUFFICES ASSUME Init, NEW e \in Email
             PROVE  accepted[e] = 0 /\ 0 <= now + TTL /\ now >= 0
  BY DEF Kept
<1> QED
  BY DEF Init

LEMMA KeptNext ==
  ASSUME "set" \notin Faults, IInv, Kept, Next
  PROVE  Kept'
<1> SUFFICES ASSUME NEW e \in Email
             PROVE  /\ accepted'[e] <= now' + TTL
                    /\ \/ now' >= accepted'[e]
                       \/ pending'[e] # None /\ pendingUntil'[e] >= accepted'[e]
                       \/ e \in Emails(rows')
  BY DEF Kept
<1> TypeOK /\ \A c \in Call : Sound(go[c])
  BY DEF IInv
<1>1. /\ now \in Int /\ TTL \in Int /\ TTL > 0
      /\ \A d \in Email : /\ pendingUntil[d] \in Int /\ pendingUntil[d] <= now + TTL
                         /\ accepted[d] \in Int
  BY DEF TypeOK, IInv
<1>2. Emails(rows) \subseteq Emails(rows')
  BY RowsNext DEF Emails
<1>3. /\ accepted[e] <= now + TTL
      /\ \/ now >= accepted[e]
         \/ pending[e] # None /\ pendingUntil[e] >= accepted[e]
         \/ e \in Emails(rows)
  BY DEF Kept
<1>4. CASE Tick
  <2>1. accepted' = accepted /\ now' = now + 1
    BY <1>4 DEF Tick
  <2>2. CASE now' >= accepted[e] \/ e \in Emails(rows)
    BY <1>1, <1>2, <1>3, <2>1, <2>2
  <2>3. CASE ~(now' >= accepted[e]) /\ e \notin Emails(rows)
    <3>1. pending[e] # None /\ pendingUntil[e] >= accepted[e]
      BY <1>1, <1>3, <2>1, <2>3
    <3>2. pending'[e] = pending[e] /\ pendingUntil'[e] = pendingUntil[e]
      BY <1>1, <1>3, <1>4, <2>1, <2>3, <3>1 DEF Tick
    <3>3. QED
      BY <1>1, <1>3, <2>1, <3>1, <3>2
  <2>4. QED
    BY <2>2, <2>3
<1>5. ASSUME NEW c \in Call, SetAccount(c)
      PROVE  /\ accepted'[e] <= now' + TTL
             /\ \/ now' >= accepted'[e]
                \/ pending'[e] # None /\ pendingUntil'[e] >= accepted'[e]
                \/ e \in Emails(rows')
  <2>1. now' = now /\ rows' = rows /\ go[c].email \in Email /\ go[c].profile # None
    BY <1>5 DEF SetAccount, Sound, Local, TypeOK
  <2> DEFINE IsSet == /\ pending' = [pending EXCEPT ![go[c].email] = go[c].profile]
                      /\ pendingUntil' = [pendingUntil EXCEPT ![go[c].email] = now + TTL]
  <2>2. \/ accepted' = [accepted EXCEPT ![go[c].email] = now + TTL] /\ IsSet
        \/ accepted' = accepted /\ IsSet
        \/ accepted' = accepted /\ UNCHANGED <<pending, pendingUntil>>
    BY <1>5 DEF SetAccount, Can
  <2>3. CASE e = go[c].email /\ IsSet
    <3>1. pending'[e] # None /\ pendingUntil'[e] = now + TTL
      BY <2>1, <2>3 DEF TypeOK
    <3>2. accepted'[e] = now + TTL \/ accepted'[e] = accepted[e]
      BY <2>2, <2>3 DEF TypeOK
    <3>3. QED
      BY <1>1, <1>3, <2>1, <3>1, <3>2
  <2>4. CASE ~(e = go[c].email /\ IsSet)
    <3>1. /\ accepted'[e] = accepted[e]
          /\ pending'[e] = pending[e] /\ pendingUntil'[e] = pendingUntil[e]
      BY <2>2, <2>4 DEF TypeOK
    <3>2. QED
      BY <1>3, <2>1, <3>1
  <2>5. QED
    BY <2>3, <2>4
<1>6. ASSUME NEW c \in Call, DeleteRegistration(c)
      PROVE  /\ accepted'[e] <= now' + TTL
             /\ \/ now' >= accepted'[e]
                \/ pending'[e] # None /\ pendingUntil'[e] >= accepted'[e]
                \/ e \in Emails(rows')
  <2>1. accepted' = accepted /\ now' = now
    BY <1>6 DEF DeleteRegistration
  <2>2. e = go[c].email => e \in Emails(rows)
    <3>1. Inserted(go[c]) \in rows /\ Inserted(go[c]).email = go[c].email
      BY <1>6 DEF DeleteRegistration, Sound, Inserted
    <3>2. QED
      BY <3>1 DEF Emails
  <2>3. e # go[c].email => pending'[e] = pending[e] /\ pendingUntil'[e] = pendingUntil[e]
    BY <1>6 DEF DeleteRegistration, TypeOK
  <2>4. QED
    BY <1>2, <1>3, <2>1, <2>2, <2>3
<1>7. ASSUME ~Tick, ~ \E c \in Call : SetAccount(c) \/ DeleteRegistration(c)
      PROVE  UNCHANGED <<pending, pendingUntil, accepted, now>>
  BY <1>7 DEF Next, Crash, Request, VerifyAccount, Serve, IsAccountWithEmailExist,
     IsAccountExist, DeliverToken, GetAccount, Insert, InsertFails, Rollback, Commit,
     AccountCreated, Reply
<1>8. QED
  BY <1>2, <1>3, <1>4, <1>5, <1>6, <1>7

(* As long as the SETs of registrations succeed, whatever else fails, one  *)
(* accepted for an email waits until it expires or the email has its       *)
(* account.                                                                *)
THEOREM RegistrationsAreKept == "set" \notin Faults => (Spec => []AcceptedEmailKept)
<1> SUFFICES ASSUME "set" \notin Faults PROVE Spec => []AcceptedEmailKept
  OBVIOUS
<1>1. IInv /\ Kept /\ [Next]_vars => Kept'
  <2>1. IInv /\ Kept /\ Next => Kept'
    BY KeptNext
  <2>2. Kept /\ UNCHANGED vars => Kept'
    BY DEF vars, Kept, Emails
  <2>3. QED
    BY <2>1, <2>2
<1>2. Kept => AcceptedEmailKept
  BY DEF Kept, AcceptedEmailKept
<1>3. QED
  BY <1>1, <1>2, KeptInit, Invariance, PTL DEF Spec
=============================================================================
