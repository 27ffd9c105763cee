--------------------------- MODULE AccountsProofs ---------------------------
(* Theorems about Accounts, for any number of goroutines, emails, accounts *)
(* and sessions, with the failures of stores, broker, context and process. *)
EXTENDS Accounts, TLAPS

USE NoneAssumption, RetriesAssumption

-----------------------------------------------------------------------------
(* The inductive invariant.                                                *)

(* What goroutine l relies on, given who owns the sessions (o), the emails *)
(* accounts were born with (b), the deleted accounts and the messages.     *)
SoundIn(l, o, b, dead, ev) ==
  /\ l.pc \in {"set", "sadd"} => /\ l.sid # None /\ l.id # None
                                 /\ o[l.sid] = l.id
  /\ l.pc \in {"set", "sadd"} => l.op # "DeleteAccount"
  /\ l.pc \in {"deliver", "update"} => l.op \notin {"SignIn", "DeleteAccount"}
  /\ l.pc = "update" => l.password # None /\ l.res = "none"
  /\ l.pc \in {"deliver", "update", "delete", "rollback", "publish", "commit"}
       => l.id # None /\ l.email # None /\ b[l.id] = l.email
  /\ l.pc = "email" => l.id # None
  /\ l.pc \in {"email", "delete", "rollback", "publish", "commit"} => l.op = "DeleteAccount"
  /\ l.pc \in {"smembers", "delkeys", "dellist"} => l.id \in dead
  /\ l.pc = "commit" => Announced(l) \in ev
  /\ (l.op = "SignIn" /\ l.res = "ok") => l.sid # None
  /\ (l.op = "DeleteAccount" /\ l.res = "ok")
       => l.id \in dead /\ [id |-> l.id, email |-> b[l.id]] \in ev

Sound(g) == SoundIn(go[g], owner, born, Gone, sent)

(* Rows carry the email their id was born with, and neither id nor email   *)
(* twice; a session key belongs to an account.                             *)
RowsBorn == \A r \in rows : born[r.id] = r.email
RowsUnique == \A r, q \in rows : (r.id = q.id \/ r.email = q.email) => r = q
KeysOwned == \A s \in keys : owner[s] # None

(* A password token names the email of the account it was requested for.   *)
TokensBorn == \A t \in tokens : born[t.account] = t.email

(* An account_deleted message carries the email the account had.           *)
SentBorn == \A e \in sent : born[e.id] = e.email

IInv == /\ TypeOK
        /\ RowsBorn /\ RowsUnique /\ KeysOwned /\ TokensBorn /\ SentBorn
        /\ \A g \in Goroutine : Sound(g)

(* What no step takes back: births, owners, deletions and messages.        *)
Grows ==
  /\ \A a \in AccountID : born[a] # None => born'[a] = born[a]
  /\ \A s \in SessionID : owner[s] # None => owner'[s] = owner[s]
  /\ Gone \subseteq Gone'
  /\ sent \subseteq sent'

(* Each goroutine stands still or comes to a place where it is sound.      *)
Advance ==
  /\ go' = [g \in Goroutine |-> go'[g]]
  /\ \A g \in Goroutine :
       \/ go'[g] = go[g]
       \/ go'[g] \in Local /\ SoundIn(go'[g], owner', born', Gone', sent')

-----------------------------------------------------------------------------
(* Lemmas about local states.                                              *)

LEMMA IdleType == Idle \in Local
BY DEF Idle, Local, PC, Result, Tx

LEMMA IdleSound == ASSUME NEW o, NEW b, NEW dead, NEW ev
                   PROVE  SoundIn(Idle, o, b, dead, ev)
BY DEF Idle, SoundIn

(* A jump changes the program counter only.                                *)
LEMMA Jump ==
  ASSUME NEW l \in Local, NEW p \in PC, NEW k, k = [l EXCEPT !.pc = p]
  PROVE  /\ k \in Local /\ k.pc = p
         /\ k.op = l.op /\ k.email = l.email /\ k.id = l.id /\ k.sid = l.sid
         /\ k.res = l.res /\ k.ids = l.ids /\ k.tx = l.tx
BY DEF Local

(* What a goroutine relies on goes on to hold.                             *)
LEMMA SoundKept ==
  ASSUME TypeOK, Grows, NEW l \in Local, SoundIn(l, owner, born, Gone, sent)
  PROVE  SoundIn(l, owner', born', Gone', sent')
<1>1. ASSUME NEW a \in Gone PROVE a \in AccountID /\ born'[a] = born[a]
  BY <1>1 DEF Gone, Grows
<1>2. ASSUME l.pc \in {"set", "sadd"} PROVE owner'[l.sid] = l.id
  BY <1>2 DEF SoundIn, Grows, Local
<1>3. ASSUME l.pc \in {"deliver", "update", "delete", "rollback", "publish", "commit"}
      PROVE  born'[l.id] = l.email
  BY <1>3 DEF SoundIn, Grows, Local
<1>4. QED
  BY <1>1, <1>2, <1>3 DEF SoundIn, Grows

LEMMA AdvanceSound ==
  ASSUME TypeOK, Grows, Advance, \A g \in Goroutine : Sound(g)
  PROVE  go' \in [Goroutine -> Local] /\ \A g \in Goroutine : Sound(g)'
<1>1. \A g \in Goroutine : go'[g] \in Local
  BY DEF Advance, TypeOK
<1>2. go' \in [Goroutine -> Local]
  BY <1>1 DEF Advance
<1>3. ASSUME NEW g \in Goroutine
      PROVE  SoundIn(go'[g], owner', born', Gone', sent')
  <2>1. CASE go'[g] = go[g]
    BY <2>1, SoundKept DEF Sound, TypeOK
  <2>2. QED
    BY <2>1 DEF Advance
<1>4. QED
  BY <1>2, <1>3 DEF Sound

(* One goroutine moves.                                                    *)
LEMMA AdvanceOne ==
  ASSUME TypeOK, NEW g \in Goroutine, NEW l \in Local, go' = [go EXCEPT ![g] = l],
         SoundIn(l, owner', born', Gone', sent')
  PROVE  Advance
BY DEF Advance, TypeOK

LEMMA AdvanceFinish ==
  ASSUME TypeOK, Grows, NEW g \in Goroutine, NEW res \in Result, Finish(g, res),
         res = "ok" => /\ go[g].op # "DeleteAccount"
                       /\ go[g].op = "SignIn" => go[g].sid # None
  PROVE  Advance
<1> DEFINE k == [go[g] EXCEPT !.pc = "done", !.res = res]
<1>1. go[g] \in Local
  BY DEF TypeOK
<1>2. /\ k \in Local /\ k.pc = "done" /\ k.res = res /\ k.op = go[g].op
      /\ k.sid = go[g].sid
  BY <1>1 DEF Local, PC
<1>3. SoundIn(k, owner', born', Gone', sent')
  BY <1>2 DEF SoundIn
<1>4. CASE g \in Task
  <2>1. go' = [go EXCEPT ![g] = Idle]
    BY <1>4 DEF Finish
  <2>2. QED
    BY <2>1, IdleType, IdleSound, AdvanceOne
<1>5. CASE g \notin Task
  <2>1. go' = [go EXCEPT ![g] = k]
    BY <1>5 DEF Finish
  <2>2. QED
    BY <1>2, <1>3, <2>1, AdvanceOne
<1>6. QED
  BY <1>4, <1>5

LEMMA AdvanceGoto ==
  ASSUME TypeOK, NEW g \in Goroutine, NEW p \in PC, Goto(g, p),
         SoundIn([go[g] EXCEPT !.pc = p], owner', born', Gone', sent')
  PROVE  Advance
<1>1. go[g] \in Local
  BY DEF TypeOK
<1>2. go' = [go EXCEPT ![g] = [go[g] EXCEPT !.pc = p]]
  BY DEF Goto, TypeOK
<1>3. QED
  BY <1>1, <1>2, Jump, AdvanceOne

-----------------------------------------------------------------------------
(* The steps, one by one: nothing is taken back and every goroutine comes  *)
(* to a place where it is sound.                                           *)

LEMMA GrowsSame ==
  ASSUME rows' = rows, born' = born, owner' = owner, sent \subseteq sent'
  PROVE  Grows /\ Gone' = Gone
BY DEF Grows, Gone

LEMMA StandStill == ASSUME TypeOK, go' = go PROVE Advance
BY DEF Advance, TypeOK

LEMMA IDsAdd ==
  ASSUME NEW R, NEW r
  PROVE  IDs(R \cup {r}) = IDs(R) \cup {r.id}
BY DEF IDs

LEMMA StepRegister == ASSUME IInv, Register PROVE Grows /\ Advance
<1> TypeOK
  BY DEF IInv
<1>1. PICK a \in AccountID, e \in Email, p \in Password :
        /\ born[a] = None
        /\ rows' = rows \cup {[id |-> a, email |-> e, password |-> p]}
        /\ born' = [born EXCEPT ![a] = e]
  BY DEF Register
<1>2. IDs(rows') = IDs(rows) \cup {a}
  <2>1. [id |-> a, email |-> e, password |-> p].id = a
    OBVIOUS
  <2>2. QED
    BY <1>1, <2>1, IDsAdd
<1>3. ASSUME NEW b \in AccountID, born[b] # None PROVE born'[b] = born[b]
  BY <1>1, <1>3 DEF TypeOK
<1>4. Gone \subseteq Gone'
  BY <1>1, <1>2, <1>3 DEF Gone
<1>5. QED
  BY <1>3, <1>4, StandStill DEF Register, Grows

LEMMA StepCrash == ASSUME IInv, Crash PROVE Grows /\ Advance
<1>1. Grows
  BY GrowsSame DEF Crash, stores
<1>2. Advance
  BY IdleType, IdleSound DEF Crash, Advance
<1>3. QED
  BY <1>1, <1>2

LEMMA StepExpireToken == ASSUME IInv, ExpireToken PROVE Grows /\ Advance
BY GrowsSame, StandStill DEF ExpireToken, history, IInv

LEMMA StepWrite ==
  ASSUME IInv, NEW g \in Goroutine, Write(g)
  PROVE  Grows /\ Advance
<1>1. TypeOK /\ Sound(g) /\ go[g] \in Local
  BY DEF IInv, TypeOK
<1>2. Grows /\ born' = born /\ owner' = owner /\ Gone' = Gone /\ sent' = sent
  BY GrowsSame DEF Write, SetKey, AddToList, history
<1>3. ASSUME NEW res \in {"ok", "error"}, go[g].pc \in {"set", "sadd"}, Finish(g, res)
      PROVE  Advance
  <2>1. go[g].op # "DeleteAccount" /\ go[g].sid # None
    BY <1>1, <1>3 DEF Sound, SoundIn
  <2>2. res \in Result
    BY DEF Result
  <2>3. QED
    BY <1>1, <1>2, <1>3, <2>1, <2>2, AdvanceFinish
<1>4. ASSUME go[g].pc = "set", Goto(g, "sadd") PROVE Advance
  <2> DEFINE k == [go[g] EXCEPT !.pc = "sadd"]
  <2>1. "sadd" \in PC
    BY DEF PC
  <2>2. /\ k \in Local /\ k.pc = "sadd" /\ k.op = go[g].op /\ k.id = go[g].id
        /\ k.sid = go[g].sid /\ k.res = go[g].res
    BY <1>1, <2>1, Jump
  <2>3. SoundIn(k, owner', born', Gone', sent')
    BY <1>1, <1>2, <1>4, <2>2 DEF Sound, SoundIn
  <2>4. QED
    BY <1>1, <1>4, <2>1, <2>3, AdvanceGoto
<1>5. Advance
  BY <1>3, <1>4 DEF Write, SetKey, AddToList
<1>6. QED
  BY <1>2, <1>5

(* A request that is refused at once.                                      *)
LEMMA AdvanceRefused ==
  ASSUME TypeOK, NEW c \in Goroutine, NEW op \in Ops,
         go' = [go EXCEPT ![c] = [Idle EXCEPT !.pc = "done", !.op = op, !.res = "error"]]
  PROVE  Advance
<1> DEFINE k == [Idle EXCEPT !.pc = "done", !.op = op, !.res = "error"]
<1>1. k \in Local /\ k.pc = "done" /\ k.res = "error"
  BY IdleType DEF Idle, Local, PC, Result
<1>2. SoundIn(k, owner', born', Gone', sent')
  BY <1>1 DEF SoundIn
<1>3. QED
  BY <1>1, <1>2, AdvanceOne

LEMMA StepSignIn == ASSUME IInv, NEW c \in Call, SignIn(c) PROVE Grows /\ Advance
<1>1. TypeOK /\ c \in Goroutine
  BY DEF IInv, Goroutine
<1>2. ASSUME NEW e \in Email, NEW r \in rows, NEW s \in SessionID, owner[s] = None,
             owner' = [owner EXCEPT ![s] = r.id],
             go' = [go EXCEPT ![c] = [Idle EXCEPT !.pc = "set", !.op = "SignIn",
                                        !.email = e, !.id = r.id, !.sid = s]]
      PROVE  Grows /\ Advance
  <2> DEFINE k == [Idle EXCEPT !.pc = "set", !.op = "SignIn", !.email = e,
                               !.id = r.id, !.sid = s]
  <2>1. r.id \in AccountID
    BY <1>1 DEF TypeOK, Row
  <2>2. /\ k \in Local /\ k.pc = "set" /\ k.op = "SignIn" /\ k.id = r.id
        /\ k.sid = s /\ k.res = "none"
    BY <2>1, IdleType DEF Idle, Local, PC, Ops
  <2>3. owner'[s] = r.id
    BY <1>1, <1>2 DEF TypeOK
  <2>4. SoundIn(k, owner', born', Gone', sent')
    BY <2>1, <2>2, <2>3 DEF SoundIn
  <2>5. ASSUME NEW q \in SessionID, owner[q] # None PROVE owner'[q] = owner[q]
    BY <1>1, <1>2, <2>5 DEF TypeOK
  <2>6. Grows
    BY <2>5 DEF SignIn, stores, Grows, Gone
  <2>7. QED
    BY <1>1, <1>2, <2>2, <2>4, <2>6, AdvanceOne
<1>3. ASSUME go' = [go EXCEPT ![c] = [Idle EXCEPT !.pc = "done", !.op = "SignIn",
                                                  !.res = "error"]],
             owner' = owner
      PROVE  Grows /\ Advance
  BY <1>1, <1>3, GrowsSame, AdvanceRefused DEF SignIn, stores, Ops
<1>4. QED
  BY <1>2, <1>3 DEF SignIn

LEMMA StepCheckAndUpdateSession ==
  ASSUME IInv, NEW t \in Task, CheckAndUpdateSession(t)
  PROVE  Grows /\ Advance
<1>1. TypeOK /\ t \in Goroutine
  BY DEF IInv, Goroutine
<1>2. Grows /\ owner' = owner
  BY GrowsSame DEF CheckAndUpdateSession, stores, history
<1>3. PICK s \in keys :
        go' = [go EXCEPT ![t] = [Idle EXCEPT !.pc = "set", !.sid = s, !.id = owner[s]]]
  BY DEF CheckAndUpdateSession
<1> DEFINE k == [Idle EXCEPT !.pc = "set", !.sid = s, !.id = owner[s]]
<1>4. s \in SessionID /\ owner[s] \in AccountID
  BY <1>1, <1>3 DEF TypeOK, IInv, KeysOwned
<1>5. /\ k \in Local /\ k.pc = "set" /\ k.op = "none" /\ k.id = owner[s]
      /\ k.sid = s
  BY <1>4, IdleType DEF Idle, Local, PC
<1>6. SoundIn(k, owner', born', Gone', sent')
  BY <1>2, <1>4, <1>5 DEF SoundIn
<1>7. QED
  BY <1>1, <1>2, <1>3, <1>5, <1>6, AdvanceOne

(* A request that ends, or fails, with its operation not DeleteAccount or  *)
(* its answer not success.                                                 *)
LEMMA AdvanceEnd ==
  ASSUME IInv, Grows, NEW g \in Goroutine, NEW res \in Result, Finish(g, res),
         res = "ok" => go[g].pc \in {"deliver", "update"} \/ g \in Task
  PROVE  Advance
<1>1. TypeOK /\ Sound(g) /\ go[g] \in Local
  BY DEF IInv, TypeOK
<1>2. CASE g \in Task
  <2>1. go' = [go EXCEPT ![g] = Idle]
    BY <1>2 DEF Finish
  <2>2. QED
    BY <1>1, <2>1, IdleType, IdleSound, AdvanceOne
<1>3. CASE g \notin Task
  <2> DEFINE k == [go[g] EXCEPT !.pc = "done", !.res = res]
  <2>1. go' = [go EXCEPT ![g] = k]
    BY <1>3 DEF Finish
  <2>2. k \in Local /\ k.pc = "done" /\ k.op = go[g].op /\ k.sid = go[g].sid /\ k.res = res
    BY <1>1 DEF Local, PC
  <2>3. res = "ok" => go[g].op # "DeleteAccount" /\ go[g].op # "SignIn"
    BY <1>1, <1>3 DEF Sound, SoundIn
  <2>4. SoundIn(k, owner', born', Gone', sent')
    BY <2>2, <2>3 DEF SoundIn
  <2>5. QED
    BY <1>1, <2>1, <2>2, <2>4, AdvanceOne
<1>4. QED
  BY <1>2, <1>3

LEMMA StepRequestChangePasswordToken ==
  ASSUME IInv, NEW c \in Call, RequestChangePasswordToken(c)
  PROVE  Grows /\ Advance
<1>1. TypeOK /\ RowsBorn /\ c \in Goroutine
  BY DEF IInv, Goroutine
<1>2. Grows /\ born' = born
  BY GrowsSame DEF RequestChangePasswordToken, stores, history
<1>3. ASSUME NEW e \in Email, NEW a \in AccountID, HasAccount(e, a),
             go' = [go EXCEPT ![c] = [Idle EXCEPT !.pc = "deliver", !.email = e, !.id = a,
                                        !.op = "RequestChangePasswordToken"]]
      PROVE  Advance
  <2> DEFINE k == [Idle EXCEPT !.pc = "deliver", !.email = e, !.id = a,
                               !.op = "RequestChangePasswordToken"]
  <2>1. born[a] = e
    BY <1>1, <1>3 DEF HasAccount, RowsBorn
  <2>2. /\ k \in Local /\ k.pc = "deliver" /\ k.op = "RequestChangePasswordToken"
        /\ k.email = e /\ k.id = a /\ k.res = "none"
    BY IdleType DEF Idle, Local, PC, Ops
  <2>3. SoundIn(k, owner', born', Gone', sent')
    BY <1>2, <2>1, <2>2 DEF SoundIn
  <2>4. QED
    BY <1>1, <1>3, <2>2, <2>3, AdvanceOne
<1>4. ASSUME go' = [go EXCEPT ![c] = [Idle EXCEPT !.pc = "done", !.res = "error",
                                        !.op = "RequestChangePasswordToken"]]
      PROVE  Advance
  <2>1. go' = [go EXCEPT ![c] = [Idle EXCEPT !.pc = "done", !.res = "error",
                                   !.op = "RequestChangePasswordToken"]]
    BY <1>4
  <2>2. [Idle EXCEPT !.pc = "done", !.res = "error", !.op = "RequestChangePasswordToken"]
          = [Idle EXCEPT !.pc = "done", !.op = "RequestChangePasswordToken", !.res = "error"]
    BY DEF Idle
  <2>3. QED
    BY <1>1, <2>1, <2>2, AdvanceRefused DEF Ops
<1>5. QED
  BY <1>2, <1>3, <1>4 DEF RequestChangePasswordToken

LEMMA StepDeliverToken == ASSUME IInv, NEW c \in Call, DeliverToken(c) PROVE Grows /\ Advance
<1>1. Grows
  BY GrowsSame DEF DeliverToken, history
<1>2. QED
  BY <1>1, AdvanceEnd DEF DeliverToken, Goroutine, Result

LEMMA StepChangePassword ==
  ASSUME IInv, NEW c \in Call, ChangePassword(c)
  PROVE  Grows /\ Advance
<1>1. TypeOK /\ TokensBorn /\ c \in Goroutine
  BY DEF IInv, Goroutine
<1>2. Grows /\ born' = born
  BY GrowsSame DEF ChangePassword, stores, history
<1>3. ASSUME NEW t \in tokens, NEW p \in Password,
             go' = [go EXCEPT ![c] = [Idle EXCEPT !.pc = "update", !.op = "ChangePassword",
                                        !.email = t.email, !.password = p, !.id = t.account]]
      PROVE  Advance
  <2> DEFINE k == [Idle EXCEPT !.pc = "update", !.op = "ChangePassword",
                               !.email = t.email, !.password = p, !.id = t.account]
  <2>1. t.email \in Email /\ t.account \in AccountID /\ born[t.account] = t.email
    BY <1>1 DEF TypeOK, Token, TokensBorn
  <2>2. /\ k \in Local /\ k.pc = "update" /\ k.op = "ChangePassword"
        /\ k.password = p /\ k.email = t.email /\ k.id = t.account /\ k.res = "none"
    BY <2>1, IdleType DEF Idle, Local, PC, Ops
  <2>3. SoundIn(k, owner', born', Gone', sent')
    BY <1>2, <2>1, <2>2 DEF SoundIn
  <2>4. QED
    BY <1>1, <1>3, <2>2, <2>3, AdvanceOne
<1>4. ASSUME go' = [go EXCEPT ![c] = [Idle EXCEPT !.pc = "done", !.op = "ChangePassword",
                                                  !.res = "error"]]
      PROVE  Advance
  BY <1>1, <1>4, AdvanceRefused DEF Ops
<1>5. QED
  BY <1>2, <1>3, <1>4 DEF ChangePassword

(* A new password leaves ids and emails as they are.                       *)
LEMMA Rehash ==
  ASSUME NEW r \in Row, NEW p \in Password
  PROVE  /\ Rehashed(r, p) \in Row
         /\ Rehashed(r, p).id = r.id /\ Rehashed(r, p).email = r.email
         /\ Rehashed(r, p).password = p
BY DEF Rehashed, Row

(* What an UPDATE makes of the rows.                                       *)
LEMMA RowsUpdated ==
  ASSUME IInv, NEW c \in Call, UpdatePassword(c)
  PROVE  \/ rows' = rows
         \/ /\ go[c].pc = "update" /\ go[c].password \in Password
            /\ rows' = {r \in rows : r.email # go[c].email}
                       \cup {Rehashed(r, go[c].password) :
                               r \in {q \in rows : q.email = go[c].email}}
<1>1. Sound(c) /\ go[c] \in Local /\ go[c].pc = "update"
  BY DEF IInv, TypeOK, Goroutine, UpdatePassword
<1>2. go[c].password \in Password
  BY <1>1 DEF Sound, SoundIn, Local
<1>3. rows \ {r \in rows : r.email = go[c].email} = {r \in rows : r.email # go[c].email}
  OBVIOUS
<1>4. QED
  BY <1>1, <1>2, <1>3 DEF UpdatePassword

(* Of each row after an UPDATE there was one with its id and email before, *)
(* and of each before there is one after.                                  *)
LEMMA RowsTraced ==
  ASSUME IInv, NEW c \in Call, UpdatePassword(c)
  PROVE  /\ \A q \in rows' : \E r \in rows : /\ q \in Row /\ q.id = r.id /\ q.email = r.email
                                             /\ \/ q = r
                                                \/ /\ q = Rehashed(r, go[c].password)
                                                   /\ r.email = go[c].email
         /\ \A r \in rows : \E q \in rows' : q.id = r.id /\ q.email = r.email
<1>1. rows \subseteq Row
  BY DEF IInv, TypeOK
<1>2. CASE rows' = rows
  BY <1>1, <1>2
<1>3. CASE /\ go[c].password \in Password
           /\ rows' = {r \in rows : r.email # go[c].email}
                       \cup {Rehashed(r, go[c].password) :
                               r \in {q \in rows : q.email = go[c].email}}
  <2> DEFINE H(r) == Rehashed(r, go[c].password)
  <2>1. \A r \in rows : H(r) \in Row /\ H(r).id = r.id /\ H(r).email = r.email
    BY <1>1, <1>3, Rehash
  <2>2. rows' = {r \in rows : r.email # go[c].email}
                \cup {H(r) : r \in {q \in rows : q.email = go[c].email}}
    BY <1>3
  <2> HIDE DEF H
  <2>3. ASSUME NEW q \in rows'
        PROVE  \E r \in rows : /\ q \in Row /\ q.id = r.id /\ q.email = r.email
                               /\ q = r \/ (q = H(r) /\ r.email = go[c].email)
    <3>1. CASE q \in rows
      BY <1>1, <3>1
    <3>2. CASE q \notin rows
      <4>1. PICK r \in rows : r.email = go[c].email /\ q = H(r)
        BY <2>2, <3>2
      <4>2. QED
        BY <2>1, <4>1
    <3>3. QED
      BY <3>1, <3>2
  <2>4. ASSUME NEW r \in rows PROVE \E q \in rows' : q.id = r.id /\ q.email = r.email
    <3>1. CASE r.email = go[c].email
      <4>1. H(r) \in rows'
        BY <2>2, <3>1
      <4>2. QED
        BY <2>1, <4>1
    <3>2. CASE r.email # go[c].email
      BY <2>2, <3>2
    <3>3. QED
      BY <3>1, <3>2
  <2>5. QED
    BY <2>3, <2>4 DEF H
<1>4. QED
  BY <1>2, <1>3, RowsUpdated

LEMMA StepUpdatePassword ==
  ASSUME IInv, NEW c \in Call, UpdatePassword(c)
  PROVE  Grows /\ Advance
<1>1. IDs(rows') = IDs(rows)
  BY RowsTraced DEF IDs
<1>2. Grows
  BY <1>1 DEF UpdatePassword, history, Grows, Gone
<1>3. QED
  BY <1>2, AdvanceEnd DEF UpdatePassword, Goroutine, Result

LEMMA StepDeleteAccount ==
  ASSUME IInv, NEW c \in Call, DeleteAccount(c)
  PROVE  Grows /\ Advance
<1>1. TypeOK /\ KeysOwned /\ c \in Goroutine
  BY DEF IInv, Goroutine
<1>2. Grows
  BY GrowsSame DEF DeleteAccount, stores, history
<1>3. ASSUME NEW s \in keys,
             go' = [go EXCEPT ![c] = [Idle EXCEPT !.pc = "email", !.op = "DeleteAccount",
                                                  !.sid = s, !.id = owner[s]]]
      PROVE  Advance
  <2> DEFINE k == [Idle EXCEPT !.pc = "email", !.op = "DeleteAccount", !.sid = s,
                               !.id = owner[s]]
  <2>1. s \in SessionID /\ owner[s] \in AccountID
    BY <1>1 DEF TypeOK, KeysOwned
  <2>2. /\ k \in Local /\ k.pc = "email" /\ k.op = "DeleteAccount" /\ k.id = owner[s]
        /\ k.res = "none"
    BY <2>1, IdleType DEF Idle, Local, PC, Ops
  <2>3. SoundIn(k, owner', born', Gone', sent')
    BY <2>1, <2>2 DEF SoundIn
  <2>4. QED
    BY <1>1, <1>3, <2>2, <2>3, AdvanceOne
<1>4. ASSUME go' = [go EXCEPT ![c] = [Idle EXCEPT !.pc = "done", !.op = "DeleteAccount",
                                                  !.res = "error"]]
      PROVE  Advance
  BY <1>1, <1>4, AdvanceRefused DEF Ops
<1>5. QED
  BY <1>2, <1>3, <1>4 DEF DeleteAccount

LEMMA StepGetAccountEmail ==
  ASSUME IInv, NEW c \in Call, GetAccountEmail(c)
  PROVE  Grows /\ Advance
<1>1. TypeOK /\ RowsBorn /\ c \in Goroutine /\ Sound(c) /\ go[c] \in Local
  BY DEF IInv, Goroutine, TypeOK
<1>2. Grows /\ UNCHANGED <<owner, born, sent>> /\ Gone' = Gone
  BY GrowsSame DEF GetAccountEmail, stores, history
<1>3. ASSUME NEW r \in rows, r.id = go[c].id, go[c].pc = "email",
             go' = [go EXCEPT ![c].pc = "delete", ![c].email = r.email]
      PROVE  Advance
  <2> DEFINE k == [go[c] EXCEPT !.pc = "delete", !.email = r.email]
  <2>1. r.id \in AccountID /\ r.email \in Email /\ born[r.id] = r.email
    BY <1>1 DEF TypeOK, Row, RowsBorn
  <2>2. /\ k \in Local /\ k.pc = "delete" /\ k.op = go[c].op /\ k.id = go[c].id
        /\ k.email = r.email /\ k.res = go[c].res /\ k.sid = go[c].sid
    BY <1>1, <2>1 DEF Local, PC
  <2>3. SoundIn(k, owner', born', Gone', sent')
    BY <1>1, <1>2, <1>3, <2>1, <2>2 DEF Sound, SoundIn
  <2>4. go' = [go EXCEPT ![c] = k]
    BY <1>1, <1>3 DEF TypeOK
  <2>5. QED
    BY <1>1, <2>2, <2>3, <2>4, AdvanceOne
<1>4. ASSUME Finish(c, "error") PROVE Advance
  BY <1>1, <1>2, <1>4, AdvanceEnd DEF Result
<1>5. QED
  BY <1>2, <1>3, <1>4 DEF GetAccountEmail

LEMMA StepDeleteRow == ASSUME IInv, NEW c \in Call, DeleteRow(c) PROVE Grows /\ Advance
<1>1. TypeOK /\ c \in Goroutine /\ Sound(c) /\ go[c] \in Local /\ go[c].pc = "delete"
  BY DEF IInv, Goroutine, TypeOK, DeleteRow
<1>2. Grows /\ UNCHANGED <<owner, born, sent>> /\ Gone' = Gone
  BY GrowsSame DEF DeleteRow, stores, history
<1>3. ASSUME NEW k \in Local, go' = [go EXCEPT ![c] = k], k.op = go[c].op,
             k.id = go[c].id, k.email = go[c].email, k.sid = go[c].sid,
             \/ k.pc = "publish" /\ k.res = go[c].res
             \/ k.pc = "done" /\ k.res = "error"
      PROVE  Advance
  <2>1. SoundIn(k, owner', born', Gone', sent')
    BY <1>1, <1>2, <1>3 DEF Sound, SoundIn
  <2>2. QED
    BY <1>1, <1>3, <2>1, AdvanceOne
<1>4. CASE go' = [go EXCEPT ![c].pc = "publish", ![c].tx = "open"]
  <2> DEFINE k == [go[c] EXCEPT !.pc = "publish", !.tx = "open"]
  <2>1. /\ k \in Local /\ k.pc = "publish" /\ k.op = go[c].op /\ k.id = go[c].id
        /\ k.email = go[c].email /\ k.res = go[c].res /\ k.sid = go[c].sid
    BY <1>1 DEF Local, PC, Tx
  <2>2. go' = [go EXCEPT ![c] = k]
    BY <1>1, <1>4 DEF TypeOK
  <2>3. QED
    BY <1>2, <1>3, <2>1, <2>2
<1>5. CASE go' = [go EXCEPT ![c].pc = "done", ![c].tx = "open", ![c].res = "error"]
  <2> DEFINE k == [go[c] EXCEPT !.pc = "done", !.tx = "open", !.res = "error"]
  <2>1. /\ k \in Local /\ k.pc = "done" /\ k.op = go[c].op /\ k.id = go[c].id
        /\ k.email = go[c].email /\ k.res = "error" /\ k.sid = go[c].sid
    BY <1>1 DEF Local, PC, Tx, Result
  <2>2. go' = [go EXCEPT ![c] = k]
    BY <1>1, <1>5 DEF TypeOK
  <2>3. QED
    BY <1>2, <1>3, <2>1, <2>2
<1>6. QED
  BY <1>2, <1>4, <1>5 DEF DeleteRow

LEMMA StepFails ==
  ASSUME IInv, NEW c \in Call, UpdatePasswordFails(c) \/ DeleteRowFails(c)
  PROVE  Grows /\ Advance
<1>1. TypeOK /\ c \in Goroutine /\ Sound(c) /\ go[c] \in Local
  BY DEF IInv, Goroutine, TypeOK
<1>2. Grows /\ UNCHANGED <<owner, born, sent>> /\ Gone' = Gone
  BY GrowsSame DEF UpdatePasswordFails, DeleteRowFails, stores, history
<1>3. CASE go[c].pc = "delete" /\ Goto(c, "rollback")
  <2>1. "rollback" \in PC
    BY DEF PC
  <2>2. SoundIn([go[c] EXCEPT !.pc = "rollback"], owner', born', Gone', sent')
    BY <1>1, <1>2, <1>3, <2>1, Jump DEF Sound, SoundIn
  <2>3. QED
    BY <1>1, <1>2, <1>3, <2>1, <2>2, AdvanceGoto
<1>4. CASE Finish(c, "error")
  BY <1>1, <1>2, <1>4, AdvanceEnd DEF Result
<1>5. QED
  BY <1>2, <1>3, <1>4 DEF UpdatePasswordFails, DeleteRowFails

LEMMA StepRollback == ASSUME IInv, NEW c \in Call, Rollback(c) PROVE Grows /\ Advance
<1>1. TypeOK /\ c \in Goroutine /\ Sound(c) /\ go[c] \in Local /\ go[c].pc = "rollback"
  BY DEF IInv, Goroutine, TypeOK, Rollback
<1>2. Grows /\ UNCHANGED <<owner, born, sent>> /\ Gone' = Gone
  BY GrowsSame DEF Rollback, stores, history
<1>3. CASE Goto(c, "publish")
  <2>1. "publish" \in PC
    BY DEF PC
  <2>2. SoundIn([go[c] EXCEPT !.pc = "publish"], owner', born', Gone', sent')
    BY <1>1, <1>2, <2>1, Jump DEF Sound, SoundIn
  <2>3. QED
    BY <1>1, <1>2, <1>3, <2>1, <2>2, AdvanceGoto
<1>4. CASE Finish(c, "error")
  BY <1>1, <1>2, <1>4, AdvanceEnd DEF Result
<1>5. QED
  BY <1>2, <1>3, <1>4 DEF Rollback

LEMMA StepContextEnds == ASSUME IInv, NEW c \in Call, ContextEnds(c) PROVE Grows /\ Advance
<1>1. TypeOK /\ c \in Goroutine /\ Sound(c) /\ go[c] \in Local
  BY DEF IInv, Goroutine, TypeOK
<1>2. Grows /\ UNCHANGED <<owner, born, sent>> /\ Gone' = Gone
  BY GrowsSame DEF ContextEnds, stores, history
<1> DEFINE k == [go[c] EXCEPT !.tx = "over"]
<1>3. /\ k \in Local /\ k.pc = go[c].pc /\ k.op = go[c].op /\ k.id = go[c].id
      /\ k.email = go[c].email /\ k.res = go[c].res /\ k.sid = go[c].sid
      /\ k.password = go[c].password
  BY <1>1 DEF Local, Tx
<1>4. go' = [go EXCEPT ![c] = k]
  BY <1>1 DEF TypeOK, ContextEnds
<1>5. SoundIn(k, owner', born', Gone', sent')
  BY <1>1, <1>2, <1>3 DEF Sound, SoundIn, Announced
<1>6. QED
  BY <1>1, <1>2, <1>3, <1>4, <1>5, AdvanceOne

LEMMA StepAccountDeleted ==
  ASSUME IInv, NEW c \in Call, AccountDeleted(c)
  PROVE  Grows /\ Advance
<1>1. TypeOK /\ c \in Goroutine /\ Sound(c) /\ go[c] \in Local /\ go[c].pc = "publish"
  BY DEF IInv, Goroutine, TypeOK, AccountDeleted
<1>2. Grows /\ UNCHANGED <<owner, born>> /\ Gone' = Gone /\ sent \subseteq sent'
  BY GrowsSame DEF AccountDeleted, history
<1>3. ASSUME sent' = sent \cup {Announced(go[c])}, Goto(c, "commit") PROVE Advance
  <2> DEFINE k == [go[c] EXCEPT !.pc = "commit"]
  <2>1. "commit" \in PC
    BY DEF PC
  <2>2. /\ k \in Local /\ k.pc = "commit" /\ k.op = go[c].op /\ k.id = go[c].id
        /\ k.email = go[c].email /\ k.res = go[c].res /\ k.sid = go[c].sid
    BY <1>1, <2>1, Jump
  <2>3. Announced(k) \in sent'
    BY <1>3, <2>2 DEF Announced
  <2>4. SoundIn(k, owner', born', Gone', sent')
    BY <1>1, <1>2, <2>2, <2>3 DEF Sound, SoundIn
  <2>5. QED
    BY <1>1, <1>3, <2>1, <2>4, AdvanceGoto
<1>4. CASE Finish(c, "error")
  BY <1>1, <1>2, <1>4, AdvanceEnd DEF Result
<1>5. QED
  BY <1>2, <1>3, <1>4 DEF AccountDeleted

(* A deletion takes the account's id from the rows and no other.           *)
LEMMA IDsDeleted == ASSUME NEW a PROVE IDs(Deleted(a)) = IDs(rows) \ {a}
BY DEF IDs, Deleted

LEMMA GoneGrows ==
  ASSUME NEW a \in AccountID, born[a] # None, born' = born, rows' = Deleted(a)
  PROVE  Gone' = Gone \cup {a}
<1>1. IDs(rows') = IDs(rows) \ {a}
  BY IDsDeleted
<1>2. QED
  BY <1>1 DEF Gone

LEMMA StepCommit == ASSUME IInv, NEW c \in Call, Commit(c) PROVE Grows /\ Advance
<1> DEFINE a == go[c].id
<1>1. TypeOK /\ c \in Goroutine /\ Sound(c) /\ go[c] \in Local /\ go[c].pc = "commit"
  BY DEF IInv, Goroutine, TypeOK, Commit
<1>2. UNCHANGED <<owner, born, sent>>
  BY DEF Commit
<1>3. /\ a \in AccountID /\ born[a] # None /\ go[c].op = "DeleteAccount"
      /\ [id |-> a, email |-> born[a]] \in sent
  BY <1>1 DEF Sound, SoundIn, Local, Announced
<1>4. Grows /\ (rows' = Deleted(a) => a \in Gone')
  <2>1. rows' = Deleted(a) => Gone' = Gone \cup {a}
    BY <1>2, <1>3, GoneGrows
  <2>2. rows' = rows => Gone' = Gone
    BY <1>2 DEF Gone
  <2>3. rows' = rows \/ rows' = Deleted(a)
    BY DEF Commit
  <2>4. QED
    BY <1>2, <2>1, <2>2, <2>3 DEF Grows
<1>5. ASSUME NEW t \in Task, go[t].pc = "idle", rows' = Deleted(a),
             go' = [go EXCEPT ![c] = [@ EXCEPT !.pc = "done", !.res = "ok", !.tx = "nil"],
                              ![t] = [Idle EXCEPT !.pc = "smembers", !.id = a]]
      PROVE  Advance
  <2> DEFINE k == [go[c] EXCEPT !.pc = "done", !.res = "ok", !.tx = "nil"]
             l == [Idle EXCEPT !.pc = "smembers", !.id = a]
  <2>1. k \in Local /\ k.pc = "done" /\ k.op = go[c].op /\ k.id = a
    BY <1>1 DEF Local, PC, Tx, Result
  <2>2. l \in Local /\ l.pc = "smembers" /\ l.id = a /\ l.op = "none"
    BY <1>3, IdleType DEF Idle, Local, PC
  <2>3. SoundIn(k, owner', born', Gone', sent')
    BY <1>2, <1>3, <1>4, <1>5, <2>1 DEF SoundIn
  <2>4. SoundIn(l, owner', born', Gone', sent')
    BY <1>4, <1>5, <2>2 DEF SoundIn
  <2>5. go' = [[go EXCEPT ![c] = k] EXCEPT ![t] = l]
    BY <1>1, <1>5 DEF TypeOK
  <2> HIDE DEF k, l
  <2>6. QED
    BY <1>1, <2>1, <2>2, <2>3, <2>4, <2>5 DEF Advance, TypeOK
<1>6. ASSUME go' = [go EXCEPT ![c] = [@ EXCEPT !.pc = "done", !.res = "error", !.tx = "nil"]]
      PROVE  Advance
  <2> DEFINE k == [go[c] EXCEPT !.pc = "done", !.res = "error", !.tx = "nil"]
  <2>1. k \in Local /\ k.pc = "done" /\ k.res = "error"
    BY <1>1 DEF Local, PC, Tx, Result
  <2>2. SoundIn(k, owner', born', Gone', sent')
    BY <2>1 DEF SoundIn
  <2>3. go' = [go EXCEPT ![c] = k]
    BY <1>1, <1>6 DEF TypeOK
  <2>4. QED
    BY <1>1, <2>1, <2>2, <2>3, AdvanceOne
<1>7. ASSUME NEW res \in {"panic", "error"}, Finish(c, res) PROVE Advance
  BY <1>1, <1>4, <1>7, AdvanceEnd DEF Result
<1>8. QED
  BY <1>4, <1>5, <1>6, <1>7 DEF Commit

(* The next attempt, or none.                                              *)
LEMMA AdvanceRetry ==
  ASSUME IInv, Grows, NEW t \in Task, go[t].id \in Gone, Retry(t)
  PROVE  Advance
<1>1. TypeOK /\ t \in Goroutine /\ go[t] \in Local
  BY DEF IInv, TypeOK, Goroutine
<1> DEFINE l == [Idle EXCEPT !.pc = "smembers", !.id = go[t].id, !.tries = go[t].tries + 1]
<1>2. ASSUME go[t].tries + 1 < NumRetries, go' = [go EXCEPT ![t] = l] PROVE Advance
  <2>1. go[t].tries + 1 \in 0..(NumRetries - 1) /\ go[t].id \in AccountID \cup {None}
    BY <1>1, <1>2 DEF Local
  <2>2. l \in Local /\ l.pc = "smembers" /\ l.id = go[t].id /\ l.op = "none"
    BY <2>1, IdleType DEF Idle, Local, PC
  <2>3. SoundIn(l, owner', born', Gone', sent')
    BY <2>2 DEF SoundIn, Grows
  <2>4. QED
    BY <1>1, <1>2, <2>2, <2>3, AdvanceOne
<1>3. ASSUME go' = [go EXCEPT ![t] = Idle] PROVE Advance
  BY <1>1, <1>3, IdleType, IdleSound, AdvanceOne
<1>4. QED
  BY <1>2, <1>3 DEF Retry

LEMMA StepTask == ASSUME IInv, NEW t \in Task, ServeTask(t) PROVE Grows /\ Advance
<1>1. /\ TypeOK /\ t \in Goroutine /\ Sound(t) /\ go[t] \in Local
      /\ go[t].pc \in {"smembers", "delkeys", "dellist"}
  BY DEF IInv, Goroutine, TypeOK, ServeTask, SMembers, DelKeys, DelList
<1>2. go[t].id \in Gone /\ go[t].id \in AccountID
  BY <1>1 DEF Sound, SoundIn, Gone
<1>3. Grows /\ UNCHANGED <<owner, born, sent>> /\ Gone' = Gone
  BY GrowsSame DEF ServeTask, SMembers, DelKeys, DelList, stores
<1>4. ASSUME Finish(t, "ok") PROVE Advance
  BY <1>1, <1>3, <1>4, AdvanceEnd DEF Result
<1>5. ASSUME Retry(t) PROVE Advance
  BY <1>2, <1>3, <1>5, AdvanceRetry
<1>6. ASSUME go' = [go EXCEPT ![t].pc = "delkeys", ![t].ids = list[go[t].id]] PROVE Advance
  <2> DEFINE k == [go[t] EXCEPT !.pc = "delkeys", !.ids = list[go[t].id]]
  <2>1. list[go[t].id] \in SUBSET SessionID
    BY <1>1, <1>2 DEF TypeOK
  <2>2. /\ k \in Local /\ k.pc = "delkeys" /\ k.id = go[t].id /\ k.op = go[t].op
        /\ k.res = go[t].res /\ k.sid = go[t].sid
    BY <1>1, <2>1 DEF Local, PC
  <2>3. SoundIn(k, owner', born', Gone', sent')
    BY <1>1, <1>2, <1>3, <2>2 DEF Sound, SoundIn
  <2>4. go' = [go EXCEPT ![t] = k]
    BY <1>1, <1>6 DEF TypeOK
  <2>5. QED
    BY <1>1, <2>2, <2>3, <2>4, AdvanceOne
<1>7. ASSUME Goto(t, "dellist") PROVE Advance
  <2>1. "dellist" \in PC
    BY DEF PC
  <2>2. SoundIn([go[t] EXCEPT !.pc = "dellist"], owner', born', Gone', sent')
    BY <1>1, <1>2, <1>3, <2>1, Jump DEF Sound, SoundIn
  <2>3. QED
    BY <1>1, <1>7, <2>1, <2>2, AdvanceGoto
<1>8. CASE SMembers(t)
  BY <1>3, <1>4, <1>6, <1>8 DEF SMembers
<1>9. CASE DelKeys(t)
  BY <1>3, <1>5, <1>7, <1>9 DEF DelKeys
<1>10. CASE DelList(t)
  BY <1>3, <1>4, <1>5, <1>10 DEF DelList
<1>11. QED
  BY <1>8, <1>9, <1>10 DEF ServeTask

LEMMA StepReply == ASSUME IInv, NEW c \in Call, Reply(c) PROVE Grows /\ Advance
<1>1. TypeOK /\ c \in Goroutine /\ Sound(c) /\ go[c] \in Local
  BY DEF IInv, Goroutine, TypeOK
<1>2. Grows /\ UNCHANGED <<owner, born, sent>> /\ Gone' = Gone
  BY GrowsSame DEF Reply, stores
<1>3. ASSUME Goto(c, "abandoned") PROVE Advance
  <2>1. "abandoned" \in PC
    BY DEF PC
  <2>2. SoundIn([go[c] EXCEPT !.pc = "abandoned"], owner', born', Gone', sent')
    BY <1>1, <1>2, <2>1, Jump DEF Sound, SoundIn
  <2>3. QED
    BY <1>1, <1>3, <2>1, <2>2, AdvanceGoto
<1>4. ASSUME go' = [go EXCEPT ![c] = Idle] PROVE Advance
  BY <1>1, <1>4, IdleType, IdleSound, AdvanceOne
<1>5. QED
  BY <1>2, <1>3, <1>4 DEF Reply

LEMMA StepRollbackAbandoned ==
  ASSUME IInv, NEW c \in Call, RollbackAbandoned(c)
  PROVE  Grows /\ Advance
<1>1. TypeOK /\ c \in Goroutine
  BY DEF IInv, Goroutine
<1>2. Grows
  BY GrowsSame DEF RollbackAbandoned, stores, history
<1>3. QED
  BY <1>1, <1>2, IdleType, IdleSound, AdvanceOne DEF RollbackAbandoned

(* Every step.                                                             *)
LEMMA StepNext == ASSUME IInv, Next PROVE Grows /\ Advance
<1>1. CASE Register \/ Crash \/ ExpireToken
  BY <1>1, StepRegister, StepCrash, StepExpireToken
<1>2. ASSUME NEW g \in Goroutine, Write(g) PROVE Grows /\ Advance
  BY <1>2, StepWrite
<1>3. ASSUME NEW c \in Call, Start(c) PROVE Grows /\ Advance
  BY <1>3, StepSignIn, StepRequestChangePasswordToken, StepChangePassword, StepDeleteAccount
     DEF Start
<1>4. ASSUME NEW c \in Call, ServeCall(c) PROVE Grows /\ Advance
  BY <1>4, StepDeliverToken, StepUpdatePassword, StepGetAccountEmail, StepDeleteRow,
     StepRollback, StepAccountDeleted, StepCommit, StepReply, StepRollbackAbandoned
     DEF ServeCall
<1>5. ASSUME NEW c \in Call, ContextEnds(c) \/ UpdatePasswordFails(c) \/ DeleteRowFails(c)
      PROVE  Grows /\ Advance
  BY <1>5, StepContextEnds, StepFails
<1>6. ASSUME NEW t \in Task, CheckAndUpdateSession(t) \/ ServeTask(t) PROVE Grows /\ Advance
  BY <1>6, StepCheckAndUpdateSession, StepTask
<1>7. QED
  BY <1>1, <1>2, <1>3, <1>4, <1>5, <1>6 DEF Next

-----------------------------------------------------------------------------
(* What the steps make of the stores.                                      *)

(* The inductive invariant without its clauses about the goroutines.       *)
StoresOK ==
  /\ rows \in SUBSET Row
  /\ keys \in SUBSET SessionID
  /\ list \in [AccountID -> SUBSET SessionID]
  /\ tokens \in SUBSET Token
  /\ events \in SUBSET Event
  /\ sent \in SUBSET Event
  /\ born \in [AccountID -> Email \cup {None}]
  /\ owner \in [SessionID -> AccountID \cup {None}]
  /\ known \in SUBSET SessionID
  /\ stray \in SUBSET SessionID
  /\ unfinished \in SUBSET AccountID
  /\ RowsBorn /\ RowsUnique /\ KeysOwned /\ TokensBorn /\ SentBorn

LEMMA StoresSplit ==
  IInv <=> StoresOK /\ go \in [Goroutine -> Local] /\ \A g \in Goroutine : Sound(g)
BY DEF IInv, TypeOK, StoresOK

LEMMA StoresUnchanged ==
  ASSUME StoresOK, UNCHANGED <<stores, history>>
  PROVE  StoresOK'
BY DEF StoresOK, stores, history, RowsBorn, RowsUnique, KeysOwned, TokensBorn,
       SentBorn

(* A new row, of an id that never was and an email nobody has.             *)
LEMMA StoresRegister == ASSUME IInv, Register PROVE StoresOK'
<1>1. StoresOK
  BY StoresSplit
<1>2. PICK a \in AccountID, e \in Email, p \in Password :
        /\ born[a] = None /\ e \notin Emails(rows)
        /\ rows' = rows \cup {[id |-> a, email |-> e, password |-> p]}
        /\ born' = [born EXCEPT ![a] = e]
  BY DEF Register
<1> DEFINE n == [id |-> a, email |-> e, password |-> p]
<1>3. n \in Row /\ n.id = a /\ n.email = e
  BY DEF Row
<1>4. \A r \in rows : r \in Row /\ r.id \in AccountID /\ r.id # a /\ r.email # e /\ r.email \in Email
                      /\ born[r.id] = r.email
  BY <1>1, <1>2 DEF StoresOK, Row, RowsBorn, Emails
<1> HIDE DEF n
<1>5. rows' = rows \cup {n}
  BY <1>2 DEF n
<1>6. \A b \in AccountID : b # a => born'[b] = born[b]
  BY <1>1, <1>2 DEF StoresOK
<1>7. born'[a] = e /\ born' \in [AccountID -> Email \cup {None}]
  BY <1>1, <1>2 DEF StoresOK
<1>8. RowsBorn'
  BY <1>3, <1>4, <1>5, <1>6, <1>7 DEF RowsBorn
<1>9. RowsUnique'
  BY <1>1, <1>3, <1>4, <1>5 DEF RowsUnique, StoresOK
<1>10. TokensBorn'
  <2> SUFFICES ASSUME NEW t \in tokens PROVE born'[t.account] = t.email
    BY DEF Register, TokensBorn
  <2>1. t.account \in AccountID /\ t.email \in Email /\ born[t.account] = t.email
    BY <1>1 DEF StoresOK, Token, TokensBorn
  <2>2. QED
    BY <1>2, <1>6, <2>1
<1>11. SentBorn'
  <2> SUFFICES ASSUME NEW m \in sent PROVE born'[m.id] = m.email
    BY DEF Register, SentBorn
  <2>1. m.id \in AccountID /\ m.email \in Email /\ born[m.id] = m.email
    BY <1>1 DEF StoresOK, Event, SentBorn
  <2>2. QED
    BY <1>2, <1>6, <2>1
<1>12. QED
  BY <1>1, <1>3, <1>5, <1>7, <1>8, <1>9, <1>10, <1>11 DEF Register, StoresOK, KeysOwned

(* A step that takes rows away and touches no other store.                 *)
LEMMA StoresFewerRows ==
  ASSUME IInv, rows' \subseteq rows, UNCHANGED <<keys, list, tokens, events, born, owner, known, sent>>,
         stray' \in SUBSET SessionID, unfinished' \in SUBSET AccountID
  PROVE  StoresOK'
BY StoresSplit DEF StoresOK, RowsBorn, RowsUnique, KeysOwned, TokensBorn, SentBorn

LEMMA StoresUpdatePassword ==
  ASSUME IInv, NEW c \in Call, UpdatePassword(c)
  PROVE  StoresOK'
<1>1. StoresOK /\ UNCHANGED <<keys, list, tokens, events, history>>
  BY StoresSplit DEF UpdatePassword
<1>2. rows' \subseteq Row /\ RowsBorn'
  BY <1>1, RowsTraced DEF StoresOK, RowsBorn, history
<1>3. RowsUnique'
  <2> SUFFICES ASSUME NEW q \in rows', NEW w \in rows', q.id = w.id \/ q.email = w.email
               PROVE  q = w
    BY DEF RowsUnique
  <2>1. PICK r \in rows : /\ q.id = r.id /\ q.email = r.email
                          /\ \/ q = r
                             \/ q = Rehashed(r, go[c].password) /\ r.email = go[c].email
    BY RowsTraced
  <2>2. PICK v \in rows : /\ w.id = v.id /\ w.email = v.email
                          /\ \/ w = v
                             \/ w = Rehashed(v, go[c].password) /\ v.email = go[c].email
    BY RowsTraced
  <2>3. r = v
    BY <1>1, <2>1, <2>2 DEF StoresOK, RowsUnique
  <2>4. CASE rows' = rows
    BY <1>1, <2>4 DEF StoresOK, RowsUnique
  <2>5. CASE /\ rows' = {x \in rows : x.email # go[c].email}
                        \cup {Rehashed(x, go[c].password) :
                                x \in {y \in rows : y.email = go[c].email}}
             /\ go[c].password \in Password
    <3>1. ASSUME NEW x \in rows, x.email = go[c].email, x \in rows'
          PROVE  x = Rehashed(x, go[c].password)
      <4>1. PICK y \in rows : y.email = go[c].email /\ x = Rehashed(y, go[c].password)
        BY <2>5, <3>1
      <4>2. x = y
        BY <1>1, <3>1, <4>1 DEF StoresOK, RowsUnique
      <4>3. QED
        BY <4>1, <4>2
    <3>2. QED
      BY <2>1, <2>2, <2>3, <3>1
  <2>6. QED
    BY <2>4, <2>5, RowsUpdated
<1>4. QED
  BY <1>1, <1>2, <1>3
     DEF StoresOK, KeysOwned, TokensBorn, SentBorn, history

LEMMA StoresCommit == ASSUME IInv, NEW c \in Call, Commit(c) PROVE StoresOK'
<1>1. go[c].id \in AccountID /\ unfinished \in SUBSET AccountID /\ stray \in SUBSET SessionID
  BY DEF IInv, TypeOK, Sound, SoundIn, Local, Commit, Goroutine
<1>2. rows' \subseteq rows /\ unfinished' \in SUBSET AccountID
  BY <1>1 DEF Commit, Deleted
<1>3. QED
  BY <1>1, <1>2, StoresFewerRows DEF Commit

LEMMA StoresCrash == ASSUME IInv, Crash PROVE StoresOK'
<1>1. \A g \in Goroutine : /\ go[g].pc = "sadd" => go[g].sid \in SessionID
                           /\ go[g].pc \in {"smembers", "delkeys", "dellist"}
                                => go[g].id \in AccountID
  BY DEF IInv, TypeOK, Sound, SoundIn, Local, Gone
<1>2. stray' \in SUBSET SessionID /\ unfinished' \in SUBSET AccountID
  BY <1>1 DEF Crash, IInv, TypeOK, Goroutine
<1>3. QED
  BY <1>2, StoresFewerRows DEF Crash, stores

LEMMA StoresWrite == ASSUME IInv, NEW g \in Goroutine, Write(g) PROVE StoresOK'
<1>1. StoresOK /\ go[g] \in Local /\ Sound(g) /\ go[g].pc \in {"set", "sadd"}
  BY DEF IInv, TypeOK, StoresOK, Write, SetKey, AddToList
<1>2. go[g].sid \in SessionID /\ go[g].id \in AccountID /\ owner[go[g].sid] = go[g].id
  BY <1>1 DEF Sound, SoundIn, Local
<1>3. stray' \in SUBSET SessionID
  BY <1>1, <1>2 DEF StoresOK, Write, SetKey, AddToList, StrayWrite, history
<1>4. keys' \in SUBSET SessionID /\ KeysOwned'
  BY <1>1, <1>2 DEF StoresOK, KeysOwned, Write, SetKey, AddToList, history
<1>5. list' \in [AccountID -> SUBSET SessionID]
  BY <1>1, <1>2 DEF StoresOK, Write, SetKey, AddToList
<1>6. UNCHANGED <<rows, tokens, events, sent, born, owner, known, unfinished>>
  BY DEF Write, SetKey, AddToList, history
<1>7. QED
  BY <1>1, <1>3, <1>4, <1>5, <1>6
     DEF StoresOK, RowsBorn, RowsUnique, TokensBorn, SentBorn

LEMMA StoresTask == ASSUME IInv, NEW t \in Task, ServeTask(t) PROVE StoresOK'
<1>1. /\ StoresOK /\ t \in Goroutine /\ go[t] \in Local /\ Sound(t)
      /\ go[t].pc \in {"smembers", "delkeys", "dellist"}
  BY DEF IInv, TypeOK, StoresOK, Goroutine, ServeTask, SMembers, DelKeys, DelList
<1>2. go[t].id \in AccountID
  BY <1>1 DEF Sound, SoundIn, Gone
<1>3. unfinished' \in SUBSET AccountID
  BY <1>1, <1>2 DEF StoresOK, ServeTask, SMembers, DelKeys, DelList, Retry, stores
<1>4. list' \in [AccountID -> SUBSET SessionID]
  BY <1>1, <1>2 DEF StoresOK, ServeTask, SMembers, DelKeys, DelList, stores
<1>5. keys' \subseteq keys
  BY DEF ServeTask, SMembers, DelKeys, DelList, stores
<1>6. UNCHANGED <<rows, tokens, events, sent, born, owner, known, stray>>
  BY DEF ServeTask, SMembers, DelKeys, DelList, stores
<1>7. QED
  BY <1>1, <1>3, <1>4, <1>5, <1>6
     DEF StoresOK, RowsBorn, RowsUnique, KeysOwned, TokensBorn, SentBorn

(* A session id is issued once, and to an account with a row.              *)
LEMMA StoresSignIn == ASSUME IInv, NEW c \in Call, SignIn(c) PROVE StoresOK'
<1>1. StoresOK
  BY StoresSplit
<1>2. ASSUME NEW r \in rows, NEW s \in SessionID, owner[s] = None,
             owner' = [owner EXCEPT ![s] = r.id]
      PROVE  owner' \in [SessionID -> AccountID \cup {None}] /\ KeysOwned'
  BY <1>1, <1>2 DEF StoresOK, Row, KeysOwned, SignIn, stores
<1>3. owner' \in [SessionID -> AccountID \cup {None}] /\ KeysOwned'
  BY <1>1, <1>2 DEF SignIn, StoresOK, KeysOwned, stores
<1>4. QED
  BY <1>1, <1>3
     DEF SignIn, StoresOK, stores, RowsBorn, RowsUnique, TokensBorn, SentBorn

LEMMA StoresDeliverToken == ASSUME IInv, NEW c \in Call, DeliverToken(c) PROVE StoresOK'
<1> DEFINE t == [email |-> go[c].email, account |-> go[c].id]
<1>1. StoresOK /\ go[c] \in Local /\ Sound(c) /\ go[c].pc = "deliver"
  BY DEF IInv, TypeOK, StoresOK, Goroutine, DeliverToken
<1>2. t \in Token /\ born[t.account] = t.email
  BY <1>1 DEF Sound, SoundIn, Local, Token
<1>3. tokens' \subseteq tokens \cup {t}
  BY DEF DeliverToken, Stored
<1> HIDE DEF t
<1>4. tokens' \in SUBSET Token /\ TokensBorn'
  BY <1>1, <1>2, <1>3 DEF StoresOK, TokensBorn, DeliverToken, history
<1>5. QED
  BY <1>1, <1>4
     DEF DeliverToken, StoresOK, history, RowsBorn, RowsUnique, KeysOwned, SentBorn

LEMMA StoresAccountDeleted ==
  ASSUME IInv, NEW c \in Call, AccountDeleted(c)
  PROVE  StoresOK'
<1> DEFINE m == Announced(go[c])
<1>1. StoresOK /\ go[c] \in Local /\ Sound(c) /\ go[c].pc = "publish"
  BY DEF IInv, TypeOK, StoresOK, Goroutine, AccountDeleted
<1>2. m \in Event /\ born[m.id] = m.email
  BY <1>1 DEF Sound, SoundIn, Local, Event, Announced
<1>3. sent' \subseteq sent \cup {m} /\ events' \subseteq events \cup {m}
  BY DEF AccountDeleted, Stored
<1> HIDE DEF m
<1>4. sent' \in SUBSET Event /\ events' \in SUBSET Event /\ SentBorn'
  BY <1>1, <1>2, <1>3 DEF StoresOK, SentBorn, AccountDeleted
<1>5. QED
  BY <1>1, <1>4
     DEF AccountDeleted, StoresOK, RowsBorn, RowsUnique, KeysOwned, TokensBorn

LEMMA StoresReply == ASSUME IInv, NEW c \in Call, Reply(c) PROVE StoresOK'
<1>1. StoresOK /\ go[c] \in Local /\ Sound(c)
  BY DEF IInv, TypeOK, StoresOK, Goroutine
<1>2. known' \in SUBSET SessionID
  BY <1>1 DEF Reply, StoresOK, Sound, SoundIn, Local
<1>3. QED
  BY <1>1, <1>2
     DEF Reply, StoresOK, stores, RowsBorn, RowsUnique, KeysOwned, TokensBorn, SentBorn

LEMMA StoresExpireToken == ASSUME IInv, ExpireToken PROVE StoresOK'
BY StoresSplit
   DEF ExpireToken, history, StoresOK, RowsBorn, RowsUnique, KeysOwned, TokensBorn,
       SentBorn

-----------------------------------------------------------------------------
(* The invariant is inductive.                                             *)

LEMMA IInvInit == Init => IInv
<1> SUFFICES ASSUME Init PROVE IInv
  OBVIOUS
<1>1. TypeOK
  BY IdleType DEF Init, TypeOK
<1>2. \A g \in Goroutine : Sound(g)
  BY IdleSound DEF Init, Sound
<1>3. QED
  BY <1>1, <1>2
     DEF Init, IInv, RowsBorn, RowsUnique, KeysOwned, TokensBorn, SentBorn

LEMMA IInvNext == IInv /\ [Next]_vars => IInv'
<1>1. ASSUME IInv, Next PROVE IInv'
  <2>1. go' \in [Goroutine -> Local] /\ \A g \in Goroutine : Sound(g)'
    BY <1>1, StepNext, AdvanceSound DEF IInv
  <2>2. StoresOK
    BY <1>1, StoresSplit
  <2>3. ASSUME Register \/ Crash \/ ExpireToken PROVE StoresOK'
    BY <1>1, <2>3, StoresRegister, StoresCrash, StoresExpireToken
  <2>4. ASSUME NEW g \in Goroutine, Write(g) PROVE StoresOK'
    BY <1>1, <2>4, StoresWrite
  <2>5. ASSUME NEW c \in Call, Start(c) PROVE StoresOK'
    BY <1>1, <2>2, <2>5, StoresSignIn, StoresUnchanged
       DEF Start, RequestChangePasswordToken, ChangePassword, DeleteAccount
  <2>6. ASSUME NEW c \in Call, ServeCall(c) PROVE StoresOK'
    BY <1>1, <2>2, <2>6, StoresDeliverToken, StoresUpdatePassword, StoresAccountDeleted,
       StoresCommit, StoresReply, StoresUnchanged
       DEF ServeCall, GetAccountEmail, DeleteRow, Rollback, RollbackAbandoned
  <2>7. ASSUME NEW c \in Call, ContextEnds(c) \/ UpdatePasswordFails(c) \/ DeleteRowFails(c)
        PROVE  StoresOK'
    BY <2>2, <2>7, StoresUnchanged DEF ContextEnds, UpdatePasswordFails, DeleteRowFails
  <2>8. ASSUME NEW t \in Task, CheckAndUpdateSession(t) \/ ServeTask(t) PROVE StoresOK'
    BY <1>1, <2>2, <2>8, StoresTask, StoresUnchanged DEF CheckAndUpdateSession
  <2>9. StoresOK'
    BY <1>1, <2>3, <2>4, <2>5, <2>6, <2>7, <2>8 DEF Next
  <2>10. QED
    BY <2>1, <2>9 DEF IInv, TypeOK, StoresOK
<1>2. ASSUME IInv, UNCHANGED vars PROVE IInv'
  <2>1. StoresOK'
    BY <1>2, StoresSplit, StoresUnchanged DEF vars, stores, history
  <2>2. \A g \in Goroutine : Sound(g)'
    BY <1>2 DEF vars, IInv, Sound, SoundIn, Gone
  <2>3. QED
    BY <1>2, <2>1, <2>2 DEF IInv, TypeOK, StoresOK, vars
<1>3. QED
  BY <1>1, <1>2

LEMMA Invariance == Spec => []IInv
BY IInvInit, IInvNext, PTL DEF Spec

-----------------------------------------------------------------------------
(* Theorems.                                                               *)

(* Every variable keeps its type: goroutines hold ids where they use them, *)
(* and no attempt is counted beyond cfg.NumRetriesForTerminateSessions.    *)
THEOREM TypeCorrect == Spec => []TypeOK
<1>1. IInv => TypeOK
  BY DEF IInv
<1>2. QED
  BY <1>1, Invariance, PTL

(* A DeleteAccount that answers success removed the row and handed the     *)
(* message to the writer, with the account's own email, with any number of *)
(* requests deleting the account at once. Whether the broker has it is not *)
(* known to the service, which asks for no acknowledgement.                *)
THEOREM DeletedIsDone == Spec => []DeletedMeansDone
<1>1. IInv => DeletedMeansDone
  BY DEF IInv, Sound, SoundIn, DeletedMeansDone, Goroutine
<1>2. QED
  BY <1>1, Invariance, PTL

-----------------------------------------------------------------------------
(* Refinement of AccountLifecycle.                                         *)

(* Which steps write the rows, and which give birth to an account.         *)
LEMMA RowsWriters ==
  ASSUME Next
  PROVE  \/ UNCHANGED <<rows, born>>
         \/ Register
         \/ \E c \in Call : (Commit(c) \/ UpdatePassword(c)) /\ UNCHANGED born
<1>1. ASSUME NEW g \in Goroutine, Write(g) PROVE UNCHANGED <<rows, born>>
  BY <1>1 DEF Write, SetKey, AddToList, history
<1>2. ASSUME NEW c \in Call, Start(c) PROVE UNCHANGED <<rows, born>>
  BY <1>2 DEF Start, SignIn, RequestChangePasswordToken, ChangePassword, DeleteAccount,
              stores, history
<1>3. ASSUME NEW c \in Call, ServeCall(c)
      PROVE  \/ UNCHANGED <<rows, born>>
             \/ (Commit(c) \/ UpdatePassword(c)) /\ UNCHANGED born
  <2>1. CASE Commit(c) \/ UpdatePassword(c)
    BY <2>1 DEF Commit, UpdatePassword, history
  <2>2. CASE ~(Commit(c) \/ UpdatePassword(c))
    BY <1>3, <2>2 DEF ServeCall, DeliverToken, GetAccountEmail, DeleteRow, Rollback,
                      AccountDeleted, Reply, RollbackAbandoned, stores, history
  <2>3. QED
    BY <2>1, <2>2
<1>4. ASSUME NEW c \in Call, ContextEnds(c) \/ UpdatePasswordFails(c) \/ DeleteRowFails(c)
      PROVE  UNCHANGED <<rows, born>>
  BY <1>4 DEF ContextEnds, UpdatePasswordFails, DeleteRowFails, stores, history
<1>5. ASSUME NEW t \in Task, CheckAndUpdateSession(t) \/ ServeTask(t)
      PROVE  UNCHANGED <<rows, born>>
  BY <1>5 DEF CheckAndUpdateSession, ServeTask, SMembers, DelKeys, DelList, stores, history
<1>6. ASSUME Crash \/ ExpireToken PROVE UNCHANGED <<rows, born>>
  BY <1>6 DEF Crash, ExpireToken, stores, history
<1>7. QED
  BY <1>1, <1>2, <1>3, <1>4, <1>5, <1>6 DEF Next

(* An account goes from one phase to the next, if it moves at all.         *)
LEMMA PhaseMoves ==
  ASSUME IInv, Next, NEW a \in AccountID
  PROVE  PhaseOf(a)' = PhaseOf(a) \/ <<PhaseOf(a), PhaseOf(a)'>> \in Lifecycle!Moves
<1> DEFINE Known == born[a] # None
           There == a \in IDs(rows)
           Told  == a \in IDs(sent)
<1>1. Grows
  BY StepNext
<1>2. (Known => Known') /\ (Known /\ ~There => ~There')
  BY <1>1 DEF Grows, Gone
<1>3. Told => Told'
  BY <1>1 DEF Grows, IDs
<1>4. Told => Known
  BY DEF IInv, SentBorn, TypeOK, Event, IDs
<1>5. ASSUME Register
      PROVE  /\ sent' = sent
             /\ There => There'
             /\ ~Known /\ Known' => There'
  <2>1. PICK b \in AccountID, e \in Email, p \in Password :
          /\ rows' = rows \cup {[id |-> b, email |-> e, password |-> p]}
          /\ born' = [born EXCEPT ![b] = e]
    BY <1>5 DEF Register
  <2> DEFINE n == [id |-> b, email |-> e, password |-> p]
  <2>2. n.id = b
    OBVIOUS
  <2> HIDE DEF n
  <2>3. IDs(rows') = IDs(rows) \cup {b}
    BY <2>1, <2>2, IDsAdd DEF n
  <2>4. a # b => born'[a] = born[a]
    BY <2>1 DEF IInv, TypeOK
  <2>5. QED
    BY <1>5, <2>3, <2>4 DEF Register
<1>6. ASSUME NEW c \in Call, UpdatePassword(c) PROVE There => There'
  BY <1>6, RowsTraced DEF IDs
<1>7. ASSUME NEW c \in Call, Commit(c), There, ~There' PROVE Told
  <2>1. Sound(c) /\ go[c].pc = "commit"
    BY <1>7 DEF IInv, Goroutine, Commit
  <2>2. Announced(go[c]) \in sent
    BY <2>1 DEF Sound, SoundIn
  <2>3. a = go[c].id
    <3>1. rows' = rows \/ rows' = Deleted(go[c].id)
      BY <1>7 DEF Commit
    <3>2. QED
      BY <1>7, <3>1, IDsDeleted
  <2>4. Announced(go[c]).id = a
    BY <2>3 DEF Announced
  <2>5. QED
    BY <2>2, <2>4 DEF IDs
<1>8. There /\ ~There' => Told
  BY <1>5, <1>6, <1>7, RowsWriters
<1>9. ~Known /\ Known' => There' /\ ~Told'
  BY <1>4, <1>5, RowsWriters
<1> HIDE DEF Known, There, Told
<1>10. /\ PhaseOf(a) = IF ~Known THEN "unborn" ELSE IF ~There THEN "deleted"
                       ELSE IF Told THEN "announced" ELSE "active"
       /\ PhaseOf(a)' = IF ~Known' THEN "unborn" ELSE IF ~There' THEN "deleted"
                        ELSE IF Told' THEN "announced" ELSE "active"
  BY DEF PhaseOf, Known, There, Told
<1>11. QED
  BY <1>2, <1>3, <1>8, <1>9, <1>10 DEF Lifecycle!Moves

(* With the store, the broker, the context and the process failing between *)
(* DELETE, publish and Commit, no account disappears before its            *)
(* account_deleted message was handed to the writer, and none comes back   *)
(* under its id.                                                           *)
THEOREM Refinement == Spec => LifecycleSpec
<1> DEFINE phase == [a \in AccountID |-> PhaseOf(a)]
<1>1. Init => Lifecycle!Init
  BY DEF Init, Lifecycle!Init, PhaseOf
<1>2. ASSUME IInv, Next PROVE Lifecycle!Next
  <2>1. phase' \in [AccountID -> Lifecycle!Phase]
    BY DEF PhaseOf, Lifecycle!Phase
  <2>2. ASSUME NEW a \in AccountID
        PROVE  phase'[a] = phase[a] \/ <<phase[a], phase'[a]>> \in Lifecycle!Moves
    BY <1>2, PhaseMoves
  <2>3. QED
    BY <2>1, <2>2 DEF Lifecycle!Next
<1>3. UNCHANGED vars => UNCHANGED phase
  BY DEF vars, PhaseOf
<1>4. IInv /\ [Next]_vars => [Lifecycle!Next]_phase
  BY <1>2, <1>3
<1>5. QED
  BY <1>1, <1>4, Invariance, PTL DEF Spec, LifecycleSpec, Lifecycle!Spec

-----------------------------------------------------------------------------
(* Passwords.                                                              *)

(* The row that has the email of a token is the token's account, or that   *)
(* account is gone.                                                        *)
LEMMA TokenRow ==
  ASSUME IInv, NEW a \in AccountID, NEW r \in rows, born[a] = r.email
  PROVE  a \in {r.id} \cup Gone
<1>1. r.email # None
  BY DEF IInv, TypeOK, Row
<1>2. CASE a \in IDs(rows)
  <2>1. PICK w \in rows : w.id = a
    BY <1>2 DEF IDs
  <2>2. w = r
    BY <2>1 DEF IInv, RowsBorn, RowsUnique
  <2>3. QED
    BY <2>1, <2>2
<1>3. CASE a \notin IDs(rows)
  BY <1>1, <1>3 DEF Gone
<1>4. QED
  BY <1>2, <1>3

(* A password changes only while a goroutine uses a token that was         *)
(* requested for the account, or for a deleted one that had its email.     *)
THEOREM PasswordsGuarded == Spec => PasswordOnlyByToken
<1> DEFINE Guarded(r) == \E c \in Call : /\ go[c].pc = "update"
                                         /\ born[go[c].id] = r.email
                                         /\ go[c].id \in {r.id} \cup Gone
<1>1. ASSUME IInv, Next, NEW r \in rows, NEW q \in rows', r.id = q.id, r.password # q.password
      PROVE  Guarded(r)
  <2>1. q \notin rows
    BY <1>1 DEF IInv, RowsUnique
  <2>2. CASE Register
    <3>1. PICK b \in AccountID, e \in Email, p \in Password :
            /\ born[b] = None
            /\ rows' = rows \cup {[id |-> b, email |-> e, password |-> p]}
      BY <2>2 DEF Register
    <3>2. q.id = b
      BY <2>1, <3>1
    <3>3. born[r.id] # None
      BY <1>1 DEF IInv, TypeOK, Row, RowsBorn
    <3>4. QED
      BY <1>1, <3>1, <3>2, <3>3
  <2>3. ASSUME NEW c \in Call, Commit(c) PROVE FALSE
    BY <1>1, <2>1, <2>3 DEF Commit, Deleted
  <2>4. ASSUME NEW c \in Call, UpdatePassword(c) PROVE Guarded(r)
    <3>1. PICK v \in rows : /\ q.id = v.id
                            /\ \/ q = v
                               \/ v.email = go[c].email
      BY <1>1, <2>4, RowsTraced
    <3>2. v = r
      BY <1>1, <3>1 DEF IInv, RowsUnique
    <3>3. r.email = go[c].email
      BY <2>1, <3>1, <3>2
    <3>4. go[c].pc = "update" /\ Sound(c) /\ go[c] \in Local
      BY <1>1, <2>4 DEF IInv, TypeOK, Goroutine, UpdatePassword
    <3>5. go[c].id \in AccountID /\ born[go[c].id] = r.email
      BY <3>3, <3>4 DEF Sound, SoundIn, Local
    <3>6. QED
      BY <1>1, <3>4, <3>5, TokenRow
  <2>5. QED
    BY <1>1, <2>1, <2>2, <2>3, <2>4, RowsWriters
<1>2. ASSUME IInv, UNCHANGED vars, NEW r \in rows, NEW q \in rows', r.id = q.id
      PROVE  r.password = q.password
  BY <1>2 DEF vars, IInv, RowsUnique
<1>3. IInv /\ [Next]_vars
        => [\A r \in rows, q \in rows' : (r.id = q.id /\ r.password # q.password)
              => \E c \in Call : /\ go[c].pc = "update"
                                  /\ born[go[c].id] = r.email
                                  /\ go[c].id \in {r.id} \cup Gone]_vars
  BY <1>1, <1>2
<1>4. QED
  BY <1>3, Invariance, PTL DEF Spec, PasswordOnlyByToken

(* Only its own statement, or a crash, takes a goroutine from "update".    *)
LEMMA UpdateMoves ==
  ASSUME IInv, Next, NEW c \in Call, go[c].pc = "update"
  PROVE  go'[c] = go[c] \/ go'[c] = Idle \/ UpdatePassword(c) \/ Finish(c, "error")
<1>1. /\ go \in [Goroutine -> Local] /\ c \in Goroutine /\ c \notin Task
      /\ Call \subseteq Goroutine /\ Task \subseteq Goroutine
  BY GoroutineAssumption DEF IInv, TypeOK, Goroutine
<1>2. CASE Register \/ Crash \/ ExpireToken
  BY <1>1, <1>2 DEF Register, Crash, ExpireToken
<1>3. ASSUME NEW g \in Goroutine, Write(g) PROVE go'[c] = go[c]
  BY <1>1, <1>3 DEF Write, SetKey, AddToList, Goto, Finish
<1>4. ASSUME NEW d \in Call, Start(d) PROVE go'[c] = go[c]
  <2>1. d # c
    BY <1>4 DEF Start, SignIn, RequestChangePasswordToken, ChangePassword, DeleteAccount
  <2>2. QED
    BY <1>1, <1>4, <2>1
       DEF Start, SignIn, RequestChangePasswordToken, ChangePassword, DeleteAccount
<1>5. ASSUME NEW d \in Call, ServeCall(d) PROVE go'[c] = go[c] \/ UpdatePassword(c)
  <2>1. d # c \/ UpdatePassword(c)
    BY <1>5 DEF ServeCall, DeliverToken, GetAccountEmail, DeleteRow, Rollback,
                AccountDeleted, Commit, Reply, RollbackAbandoned
  <2>2. CASE d # c /\ (DeliverToken(d) \/ UpdatePassword(d) \/ GetAccountEmail(d) \/ DeleteRow(d))
    BY <1>1, <2>2 DEF DeliverToken, UpdatePassword, GetAccountEmail, DeleteRow, Goto, Finish
  <2>3. CASE d # c /\ (Rollback(d) \/ AccountDeleted(d) \/ Reply(d) \/ RollbackAbandoned(d))
    BY <1>1, <2>3 DEF Rollback, AccountDeleted, Reply, RollbackAbandoned, Goto, Finish
  <2>4. CASE d # c /\ Commit(d)
    BY <1>1, <2>4 DEF Commit, Finish
  <2>5. QED
    BY <1>5, <2>1, <2>2, <2>3, <2>4 DEF ServeCall
<1>6. ASSUME NEW d \in Call, ContextEnds(d) \/ UpdatePasswordFails(d) \/ DeleteRowFails(d)
      PROVE  go'[c] = go[c] \/ Finish(c, "error")
  <2>1. CASE ContextEnds(d)
    BY <1>1, <2>1 DEF ContextEnds
  <2>2. CASE UpdatePasswordFails(d) \/ DeleteRowFails(d)
    BY <1>1, <2>2 DEF UpdatePasswordFails, DeleteRowFails, Goto, Finish
  <2>3. QED
    BY <1>6, <2>1, <2>2
<1>7. ASSUME NEW t \in Task, CheckAndUpdateSession(t) \/ ServeTask(t) PROVE go'[c] = go[c]
  BY <1>1, <1>7
     DEF CheckAndUpdateSession, ServeTask, SMembers, DelKeys, DelList, Retry, Goto, Finish
<1>8. QED
  BY <1>2, <1>3, <1>4, <1>5, <1>6, <1>7 DEF Next

(* A ChangePassword that is about to answer success has just written its   *)
(* password in the row of its email: the row of an account deleted after   *)
(* the check is missed by UPDATE and counted as missing.                   *)
THEOREM ChangesWritten == Spec => ChangedMeansWritten
<1> DEFINE Written(c) == \E r \in rows' : r.email = go[c].email /\ r.password = go[c].password
<1>1. ASSUME IInv, NEW c \in Call, Finish(c, "error") PROVE go'[c].res = "error"
  <2>1. go \in [Goroutine -> Local] /\ c \in Goroutine /\ c \notin Task
    BY <1>1, GoroutineAssumption DEF IInv, TypeOK, Goroutine
  <2>2. go'[c] = [go[c] EXCEPT !.pc = "done", !.res = "error"] /\ go[c] \in Local
    BY <1>1, <2>1 DEF Finish
  <2>3. QED
    BY <2>2 DEF Local
<1>2. ASSUME IInv, NEW c \in Call, UpdatePassword(c), ~Finish(c, "error") PROVE Written(c)
  <2>1. /\ rows \subseteq Row /\ go[c].password \in Password
    BY <1>2 DEF IInv, TypeOK, Sound, SoundIn, Local, Goroutine, UpdatePassword
  <2>2. PICK r \in rows : /\ r.email = go[c].email
                          /\ Rehashed(r, go[c].password) \in rows'
    BY <1>2 DEF UpdatePassword
  <2>3. QED
    BY <2>1, <2>2, Rehash
<1>3. ASSUME IInv, [Next]_vars, NEW c \in Call, go[c].pc = "update", go'[c].res = "ok"
      PROVE  Written(c)
  <2>1. go[c].res = "none"
    BY <1>3 DEF IInv, Sound, SoundIn, Goroutine
  <2>2. Next
    BY <1>3, <2>1 DEF vars
  <2>3. ~Finish(c, "error")
    BY <1>1, <1>3
  <2>4. UpdatePassword(c)
    BY <1>3, <2>1, <2>2, <2>3, UpdateMoves DEF Idle
  <2>5. QED
    BY <1>2, <1>3, <2>3, <2>4
<1>4. IInv /\ [Next]_vars
        => [\A c \in Call : (go[c].pc = "update" /\ go'[c].res = "ok") => Written(c)]_vars
  BY <1>3
<1>5. QED
  BY <1>4, Invariance, PTL DEF Spec, ChangedMeansWritten

-----------------------------------------------------------------------------
(* The sessions of deleted accounts.                                       *)

(* A session that a deletion may leave behind.                             *)
Loose(s) == s \in stray \/ \E g \in Goroutine : go[g].pc = "sadd" /\ go[g].sid = s

(* A goroutine that has still to end session s.                            *)
Covers(t, s) == /\ go[t].id = owner[s]
                /\ go[t].pc = "smembers" \/ (go[t].pc = "delkeys" /\ s \in go[t].ids)

(* Any other session is found: it is in its account's list, it is among    *)
(* what a goroutine that is about to delete keys has read of the list, and *)
(* none that has deleted them and is about to delete the list missed it.   *)
Found(s) ==
  /\ s \in list[owner[s]]
  /\ \A t \in Task : go[t].id = owner[s] => /\ go[t].pc = "delkeys" => s \in go[t].ids
                                            /\ go[t].pc # "dellist"
  /\ \/ owner[s] \notin Gone
     \/ owner[s] \in unfinished
     \/ \E t \in Task : Covers(t, s)

SInv == \A s \in keys : Loose(s) \/ Found(s)

LEMMA SInvEnds == SInv => SessionsEnd
BY DEF SInv, SessionsEnd, HalfWritten, BeingEnded, Loose, Found, Covers

(* A session stays found while nobody works on the sessions of its account.*)
LEMMA FoundQuiet ==
  ASSUME NEW s \in SessionID, Found(s), owner'[s] = owner[s],
         s \in list'[owner[s]], unfinished \subseteq unfinished',
         owner[s] \in Gone' => owner[s] \in Gone,
         \A t \in Task : \/ go'[t] = go[t]
                         \/ /\ go[t].pc \notin {"smembers", "delkeys"}
                            /\ go'[t].pc \notin {"delkeys", "dellist"}
  PROVE  Found(s)'
<1>1. \A t \in Task : go'[t].id = owner'[s] => /\ go'[t].pc = "delkeys" => s \in go'[t].ids
                                               /\ go'[t].pc # "dellist"
  BY DEF Found
<1>2. ASSUME NEW t \in Task, Covers(t, s) PROVE Covers(t, s)'
  BY <1>2 DEF Covers
<1>3. QED
  BY <1>1, <1>2 DEF Found

(* Steps of a request that write neither keys nor lists.                   *)
LEMMA CallMoves ==
  ASSUME IInv, NEW c \in Call,
         \/ Start(c) \/ ContextEnds(c) \/ (ServeCall(c) /\ ~Commit(c))
         \/ UpdatePasswordFails(c) \/ DeleteRowFails(c)
  PROVE  /\ \A g \in Goroutine : go'[g] = go[g] \/ (g = c /\ go[g].pc # "sadd")
         /\ UNCHANGED <<keys, list, stray, unfinished>>
         /\ Gone' = Gone
<1>1. go \in [Goroutine -> Local] /\ c \in Goroutine
  BY DEF IInv, TypeOK, Goroutine
<1>2. CASE Start(c)
  BY <1>1, <1>2 DEF Start, SignIn, RequestChangePasswordToken, ChangePassword, DeleteAccount,
                    stores, history, Gone
<1>3. CASE ContextEnds(c)
  BY <1>1, <1>3 DEF ContextEnds, stores, history, Gone
<1>4. CASE UpdatePassword(c)
  <2>1. IDs(rows') = IDs(rows)
    BY <1>4, RowsTraced DEF IDs
  <2>2. QED
    BY <1>1, <1>4, <2>1 DEF UpdatePassword, Finish, history, Gone
<1>5. CASE DeliverToken(c) \/ AccountDeleted(c) \/ GetAccountEmail(c)
  BY <1>1, <1>5 DEF DeliverToken, AccountDeleted, GetAccountEmail, Goto, Finish,
                    stores, history, Gone
<1>6. CASE DeleteRow(c)
  BY <1>1, <1>6 DEF DeleteRow, Goto, Finish, stores, history, Gone
<1>7. CASE Rollback(c) \/ Reply(c) \/ RollbackAbandoned(c)
  BY <1>1, <1>7 DEF Rollback, Reply, RollbackAbandoned, Goto, Finish, stores, history, Gone
<1>8. CASE UpdatePasswordFails(c) \/ DeleteRowFails(c)
  BY <1>1, <1>8 DEF UpdatePasswordFails, DeleteRowFails, Goto, Finish, stores, history, Gone
<1>9. QED
  BY <1>2, <1>3, <1>4, <1>5, <1>6, <1>7, <1>8 DEF ServeCall

LEMMA SInvCall ==
  ASSUME IInv, SInv, NEW c \in Call,
         \/ Start(c) \/ ContextEnds(c) \/ (ServeCall(c) /\ ~Commit(c))
         \/ UpdatePasswordFails(c) \/ DeleteRowFails(c)
  PROVE  SInv'
<1>1. Grows
  BY StepNext DEF Next
<1>2. SUFFICES ASSUME NEW s \in keys, ~Loose(s)' PROVE Found(s)'
  BY CallMoves DEF SInv
<1>3. ~Loose(s)
  BY <1>2, CallMoves DEF Loose
<1>4. s \in SessionID /\ Found(s) /\ owner'[s] = owner[s]
  BY <1>1, <1>2, <1>3 DEF SInv, IInv, TypeOK, KeysOwned, Grows
<1>5. c \notin Task /\ Task \subseteq Goroutine
  BY GoroutineAssumption DEF Goroutine
<1>6. s \in list'[owner[s]]
  BY <1>4, CallMoves DEF Found
<1>7. QED
  BY <1>4, <1>5, <1>6, CallMoves, FoundQuiet

(* The row of a session that is not stray goes with a goroutine to end it, *)
(* or the account counts as unfinished.                                    *)
LEMMA SInvCommit == ASSUME IInv, SInv, NEW c \in Call, Commit(c) PROVE SInv'
<1> DEFINE a == go[c].id
<1>1. /\ go \in [Goroutine -> Local] /\ c \in Goroutine /\ c \notin Task
      /\ Sound(c) /\ go[c] \in Local /\ go[c].pc = "commit" /\ Task \subseteq Goroutine
  BY GoroutineAssumption DEF IInv, TypeOK, Goroutine, Commit
<1>2. UNCHANGED <<keys, list, owner, born, stray>> /\ unfinished \subseteq unfinished'
  BY DEF Commit
<1>3. a \in AccountID /\ born[a] # None
  BY <1>1 DEF Sound, SoundIn, Local
<1>4. ASSUME NEW g \in Goroutine
      PROVE  \/ go'[g] = go[g]
             \/ g = c
             \/ /\ go[g].pc = "idle" /\ go'[g].pc = "smembers"
                /\ go'[g].id = a
  BY <1>1 DEF Commit, Finish, Idle
<1>5. \/ rows' = rows
      \/ rows' = Deleted(a) /\ a \in unfinished'
      \/ /\ rows' = Deleted(a)
         /\ \E t \in Task : go'[t].pc = "smembers" /\ go'[t].id = a
  BY <1>1 DEF Commit, Idle
<1>6. SUFFICES ASSUME NEW s \in keys, ~Loose(s)' PROVE Found(s)'
  BY <1>2 DEF SInv
<1>7. ~Loose(s)
  BY <1>1, <1>2, <1>4, <1>6 DEF Loose
<1>8. s \in SessionID /\ Found(s)
  BY <1>6, <1>7 DEF SInv, IInv, TypeOK
<1>9. \A t \in Task : \/ go'[t] = go[t]
                      \/ /\ go[t].pc \notin {"smembers", "delkeys"}
                         /\ go'[t].pc \notin {"delkeys", "dellist"}
  BY <1>1, <1>4
<1>10. CASE owner[s] \in Gone' => owner[s] \in Gone
  BY <1>2, <1>8, <1>9, <1>10, FoundQuiet DEF Found
<1>11. CASE owner[s] \in Gone' /\ owner[s] \notin Gone
  <2>1. rows' = Deleted(a) /\ owner[s] = a
    BY <1>2, <1>3, <1>5, <1>11, GoneGrows DEF Gone
  <2>2. a \in unfinished' \/ \E t \in Task : go'[t].pc = "smembers" /\ go'[t].id = a
    <3>1. rows' # rows
      BY <1>2, <1>11 DEF Gone
    <3>2. QED
      BY <1>5, <3>1
  <2>3. \A t \in Task : go'[t].id = a => /\ go'[t].pc = "delkeys" => s \in go'[t].ids
                                         /\ go'[t].pc # "dellist"
    BY <1>8, <1>9, <2>1 DEF Found
  <2>4. QED
    BY <1>2, <1>8, <2>1, <2>2, <2>3 DEF Found, Covers
<1>12. QED
  BY <1>10, <1>11

(* The process stops: what it was writing is stray, what it was ending is  *)
(* unfinished.                                                             *)
LEMMA SInvCrash == ASSUME IInv, SInv, Crash PROVE SInv'
<1>1. \A g \in Goroutine : go'[g] = Idle
  BY DEF Crash
<1>2. UNCHANGED <<keys, list, owner>> /\ Gone' = Gone /\ Task \subseteq Goroutine
  BY DEF Crash, stores, Gone, Goroutine
<1>3. SUFFICES ASSUME NEW s \in keys, ~Loose(s)' PROVE Found(s)'
  BY <1>2 DEF SInv
<1>4. ~Loose(s)
  BY <1>3 DEF Loose, Crash
<1>5. Found(s)
  BY <1>3, <1>4 DEF SInv
<1>6. owner[s] \notin Gone \/ owner[s] \in unfinished'
  BY <1>5 DEF Found, Covers, Crash
<1>7. QED
  BY <1>1, <1>2, <1>5, <1>6 DEF Found, Idle

LEMMA SInvSetKey == ASSUME IInv, SInv, NEW g \in Goroutine, SetKey(g) PROVE SInv'
<1>1. go \in [Goroutine -> Local] /\ go[g] \in Local /\ go[g].pc = "set" /\ Task \subseteq Goroutine
  BY DEF IInv, TypeOK, SetKey, Goroutine
<1>2. UNCHANGED <<list, owner, unfinished, stray>> /\ Gone' = Gone
  BY DEF SetKey, history, Gone
<1>3. /\ \A h \in Goroutine : h # g => go'[h] = go[h]
      /\ g \in Task => go'[g].pc \notin {"delkeys", "dellist"}
  BY <1>1 DEF SetKey, Goto, Finish, Idle, Local
<1>4. ASSUME NEW s \in keys', s \notin keys PROVE Loose(s)'
  <2>1. s = go[g].sid /\ Goto(g, "sadd")
    BY <1>4 DEF SetKey
  <2>2. go'[g].pc = "sadd" /\ go'[g].sid = s
    BY <1>1, <2>1 DEF Goto, Local
  <2>3. QED
    BY <2>2 DEF Loose
<1>5. SUFFICES ASSUME NEW s \in keys, ~Loose(s)' PROVE Found(s)'
  BY <1>4 DEF SInv
<1>6. ~Loose(s)
  BY <1>1, <1>2, <1>3, <1>5 DEF Loose
<1>7. s \in SessionID /\ Found(s)
  BY <1>5, <1>6 DEF SInv, IInv, TypeOK
<1>8. QED
  BY <1>1, <1>2, <1>3, <1>7, FoundQuiet DEF Found

(* A session that SADD wrote is in a list still to be read, or stray.       *)
LEMMA SInvAddToList == ASSUME IInv, SInv, NEW g \in Goroutine, AddToList(g) PROVE SInv'
<1> DEFINE n == go[g].sid
<1>1. /\ go \in [Goroutine -> Local] /\ go[g] \in Local /\ go[g].pc = "sadd" /\ Sound(g)
      /\ Task \subseteq Goroutine
  BY DEF IInv, TypeOK, AddToList, Goroutine
<1>2. n \in SessionID /\ go[g].id \in AccountID /\ owner[n] = go[g].id
  BY <1>1 DEF Sound, SoundIn, Local
<1>3. UNCHANGED <<keys, owner, unfinished>> /\ Gone' = Gone /\ stray \subseteq stray'
  BY DEF AddToList, StrayWrite, Gone
<1>4. /\ \A h \in Goroutine : h # g => go'[h] = go[h]
      /\ g \in Task => go'[g].pc \notin {"delkeys", "dellist"}
  BY <1>1 DEF AddToList, Finish, Idle
<1>5. /\ \A a \in AccountID : list[a] \subseteq list'[a]
      /\ \/ n \in stray'
         \/ /\ n \in list'[owner[n]]
            /\ owner[n] \notin Gone \/ Searched(owner[n])
  BY <1>2 DEF AddToList, StrayWrite, IInv, TypeOK
<1>6. SUFFICES ASSUME NEW s \in keys, ~Loose(s)' PROVE Found(s)'
  BY <1>3 DEF SInv
<1>7. s \in SessionID /\ owner[s] \in AccountID
  BY DEF IInv, TypeOK, KeysOwned
<1>8. CASE s = n
  <2>1. s \in list'[owner[s]] /\ (owner[s] \notin Gone \/ Searched(owner[s]))
    BY <1>5, <1>6, <1>8 DEF Loose
  <2>2. ASSUME NEW t \in Task, go'[t].pc \in {"delkeys", "dellist"} PROVE go'[t].id # owner[s]
    <3>1. go'[t] = go[t] /\ Sound(t)
      BY <1>1, <1>4, <2>2 DEF IInv
    <3>2. go[t].id \in Gone
      BY <2>2, <3>1 DEF Sound, SoundIn
    <3>3. QED
      BY <2>1, <2>2, <3>1, <3>2 DEF Searched
  <2>3. Searched(owner[s]) => \E t \in Task : Covers(t, s)'
    <3>1. ASSUME NEW t \in Task, go[t].pc = "smembers" PROVE go'[t] = go[t]
      BY <1>1, <1>4, <3>1
    <3>2. QED
      BY <1>3, <3>1 DEF Searched, Covers
  <2>4. QED
    BY <1>3, <2>1, <2>2, <2>3 DEF Found
<1>9. CASE s # n
  <2>1. ~Loose(s)
    BY <1>1, <1>3, <1>4, <1>6, <1>9 DEF Loose
  <2>2. Found(s) /\ s \in list'[owner[s]]
    BY <1>5, <1>7, <2>1 DEF SInv, Found
  <2>3. QED
    BY <1>1, <1>3, <1>4, <1>7, <2>2, FoundQuiet
<1>10. QED
  BY <1>8, <1>9

(* What a goroutine that ends sessions can find: all but the loose ones.   *)
LEMMA SInvTask == ASSUME IInv, SInv, NEW t \in Task, ServeTask(t) PROVE SInv'
<1> DEFINE a == go[t].id
<1>1. /\ go \in [Goroutine -> Local] /\ t \in Goroutine /\ go[t] \in Local /\ Sound(t)
      /\ go[t].pc \in {"smembers", "delkeys", "dellist"} /\ Task \subseteq Goroutine
  BY DEF IInv, TypeOK, Goroutine, ServeTask, SMembers, DelKeys, DelList
<1>2. a \in AccountID /\ a \in Gone
  BY <1>1 DEF Sound, SoundIn, Gone
<1>3. /\ UNCHANGED <<owner, stray>> /\ Gone' = Gone /\ keys' \subseteq keys
      /\ unfinished \subseteq unfinished'
  BY DEF ServeTask, SMembers, DelKeys, DelList, Retry, stores, Gone
<1>4. \A h \in Goroutine : h # t => go'[h] = go[h]
  BY <1>1 DEF ServeTask, SMembers, DelKeys, DelList, Retry, Goto, Finish
<1>5. SUFFICES ASSUME NEW s \in keys', ~Loose(s)' PROVE Found(s)'
  BY DEF SInv
<1>6. s \in keys /\ s \in SessionID /\ owner[s] \in AccountID
  BY <1>3, <1>5 DEF IInv, TypeOK, KeysOwned
<1>7. ~Loose(s)
  BY <1>1, <1>3, <1>4, <1>5 DEF Loose
<1>8. Found(s)
  BY <1>6, <1>7 DEF SInv
<1>9. \A b \in AccountID : b # a => list'[b] = list[b]
  BY <1>2 DEF ServeTask, SMembers, DelKeys, DelList, stores, IInv, TypeOK
<1>10. go'[t].id = a \/ go'[t] = Idle
  <2>1. CASE Goto(t, "dellist")
    BY <1>1, <2>1 DEF Goto, Local
  <2>2. CASE Finish(t, "ok")
    BY <1>1, <2>2 DEF Finish
  <2>3. CASE Retry(t)
    <3> DEFINE l == [Idle EXCEPT !.pc = "smembers", !.id = a, !.tries = go[t].tries + 1]
    <3>1. l.id = a
      BY DEF Idle
    <3>2. go'[t] = l \/ go'[t] = Idle
      BY <1>1, <2>3 DEF Retry
    <3>3. QED
      BY <3>1, <3>2
  <2>4. CASE go' = [go EXCEPT ![t].pc = "delkeys", ![t].ids = list[a]]
    BY <1>1, <2>4 DEF Local
  <2>5. QED
    BY <2>1, <2>2, <2>3, <2>4 DEF ServeTask, SMembers, DelKeys, DelList
<1>11. CASE owner[s] # a
  <2>1. \A u \in Task : go'[u].id = owner'[s] => /\ go'[u].pc = "delkeys" => s \in go'[u].ids
                                                 /\ go'[u].pc # "dellist"
    BY <1>1, <1>3, <1>4, <1>8, <1>10, <1>11 DEF Found, Idle
  <2>2. ASSUME NEW u \in Task, Covers(u, s) PROVE Covers(u, s)'
    BY <1>1, <1>3, <1>4, <1>11, <2>2 DEF Covers
  <2>3. QED
    BY <1>3, <1>6, <1>8, <1>9, <1>11, <2>1, <2>2 DEF Found
<1>12. CASE owner[s] = a
  <2>1. go[t].pc # "dellist" /\ UNCHANGED list
    BY <1>8, <1>12 DEF Found, ServeTask, SMembers, DelKeys, DelList, stores
  <2>2. /\ \/ go'[t].id = a /\ go'[t].pc = "smembers"
           \/ go'[t].id = a /\ go'[t].pc = "delkeys" /\ s \in go'[t].ids
           \/ go'[t] = Idle /\ a \in unfinished'
    <3>1. CASE SMembers(t)
      <4>1. s \in list[a]
        BY <1>8, <1>12 DEF Found
      <4>2. QED
        BY <1>1, <3>1, <4>1 DEF SMembers, Finish, Local
    <3>2. CASE DelKeys(t)
      <4>1. s \in go[t].ids
        BY <1>8, <1>12, <3>2 DEF Found, DelKeys
      <4>2. Retry(t)
        BY <1>5, <3>2, <4>1 DEF DelKeys
      <4>3. QED
        BY <1>1, <4>2 DEF Retry, Idle
    <3>3. QED
      BY <2>1, <3>1, <3>2 DEF ServeTask, DelList
  <2>3. ASSUME NEW u \in Task, go'[u].id = a
        PROVE  /\ go'[u].pc = "delkeys" => s \in go'[u].ids
               /\ go'[u].pc # "dellist"
    <3>1. CASE u = t
      BY <2>2, <3>1 DEF Idle
    <3>2. CASE u # t
      BY <1>1, <1>4, <1>8, <1>12, <2>3, <3>2 DEF Found
    <3>3. QED
      BY <3>1, <3>2
  <2>4. a \in unfinished' \/ Covers(t, s)'
    BY <1>3, <1>12, <2>2 DEF Covers
  <2>5. QED
    BY <1>3, <1>8, <1>12, <2>1, <2>3, <2>4 DEF Found
<1>13. QED
  BY <1>11, <1>12

LEMMA SInvNext == IInv /\ SInv /\ [Next]_vars => SInv'
<1>1. ASSUME IInv, SInv, Register PROVE SInv'
  <2>1. UNCHANGED <<keys, list, stray, unfinished, go, owner>>
    BY <1>1 DEF Register
  <2>2. Gone' = Gone
    <3>1. PICK a \in AccountID, e \in Email, p \in Password :
            /\ born[a] = None
            /\ rows' = rows \cup {[id |-> a, email |-> e, password |-> p]}
            /\ born' = [born EXCEPT ![a] = e]
      BY <1>1 DEF Register
    <3> DEFINE n == [id |-> a, email |-> e, password |-> p]
    <3>2. n.id = a
      OBVIOUS
    <3> HIDE DEF n
    <3>3. IDs(rows') = IDs(rows) \cup {a}
      BY <3>1, <3>2, IDsAdd DEF n
    <3>4. \A b \in AccountID : born'[b] = IF b = a THEN e ELSE born[b]
      BY <1>1, <3>1 DEF IInv, TypeOK
    <3>5. QED
      BY <3>1, <3>3, <3>4 DEF Gone
  <2>3. QED
    BY <1>1, <2>1, <2>2 DEF SInv, Loose, Found, Covers
<1>2. ASSUME SInv, ExpireToken \/ UNCHANGED vars PROVE SInv'
  BY <1>2 DEF ExpireToken, vars, history, SInv, Loose, Found, Covers, Gone
<1>3. ASSUME IInv, SInv, NEW t \in Task, CheckAndUpdateSession(t) PROVE SInv'
  <2>1. go \in [Goroutine -> Local] /\ t \in Goroutine /\ Task \subseteq Goroutine
    BY <1>3 DEF IInv, TypeOK, Goroutine
  <2>2. UNCHANGED <<keys, list, stray, unfinished, owner>> /\ Gone' = Gone
    BY <1>3 DEF CheckAndUpdateSession, stores, history, Gone
  <2>3. \A g \in Goroutine : \/ go'[g] = go[g]
                             \/ go[g].pc = "idle" /\ go'[g].pc = "set"
    BY <1>3, <2>1 DEF CheckAndUpdateSession, Idle
  <2>4. SUFFICES ASSUME NEW s \in keys, ~Loose(s)' PROVE Found(s)'
    BY <2>2 DEF SInv
  <2>5. ~Loose(s)
    BY <2>2, <2>3, <2>4 DEF Loose
  <2>6. s \in SessionID /\ Found(s)
    BY <1>3, <2>4, <2>5 DEF SInv, IInv, TypeOK
  <2>7. QED
    BY <2>1, <2>2, <2>3, <2>6, FoundQuiet DEF Found
<1>4. QED
  BY <1>1, <1>2, <1>3, SInvCall, SInvCommit, SInvCrash, SInvSetKey, SInvAddToList, SInvTask
     DEF Next, Write

(* Once the row is gone every session of the account is ended or about to  *)
(* be, those listed after a clean-up had read the list and those of an     *)
(* unfinished clean-up aside, whatever the number of sessions, requests,   *)
(* goroutines and attempts.                                                *)
THEOREM SessionsEnded == Spec => []SessionsEnd
<1>1. Init => SInv
  BY DEF Init, SInv
<1>2. QED
  BY <1>1, Invariance, SInvNext, SInvEnds, PTL DEF Spec
=============================================================================
