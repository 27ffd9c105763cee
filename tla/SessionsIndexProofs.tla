------------------------- MODULE SessionsIndexProofs -------------------------
(* Theorems about the lists of Sessions: what they say of the keys when    *)
(* Redis does not fail, with expiry and for any number of goroutines.      *)
EXTENDS SessionsProofs

USE TimeAssumption

-----------------------------------------------------------------------------
(* A list outlives the keys of its sessions.                               *)

(* No key lives longer than TTL from now, so an EXPIRE of a list puts its  *)
(* deadline past those of all keys.                                        *)
DeadlinesBounded == \A s \in SessionID : deadline[s] <= now + TTL

Outlives(a, s) == \/ store[s] = None
                  \/ indexDeadline[a] >= deadline[s]
                  \/ Renewing(s)

OInv == DeadlinesBounded /\ \A a \in AccountID : \A s \in index[a] : Outlives(a, s)

LEMMA OInvMeaning == OInv => IndexOutlivesKeys
BY DEF OInv, Outlives, IndexOutlivesKeys

(* The steps that leave Redis and the clock alone, and the goroutines that *)
(* have an EXPIRE still to do.                                             *)
LEMMA OInvQuiet ==
  ASSUME TypeOK, OInv, UNCHANGED <<redis, now>>,
         \A g \in Goroutine : go[g].pc \in {"sadd", "expire"} => go'[g] = go[g]
  PROVE  OInv'
<1>1. \A s \in SessionID : Renewing(s) => Renewing(s)'
  BY DEF Renewing
<1>2. QED
  BY <1>1 DEF TypeOK, OInv, Outlives, DeadlinesBounded, redis

(* Only its own SetSession moves a goroutine past SADD or EXPIRE.          *)
LEMMA RenewalKept ==
  ASSUME TypeOK, NEW c \in Call,
         \/ SignIn(c) \/ SignInRejected(c) \/ \E op \in Ops : Request(c, op)
         \/ Serve(c)
  PROVE  \A g \in Goroutine : go[g].pc \in {"sadd", "expire"} => go'[g] = go[g]
<1> c \in Goroutine
  BY DEF Goroutine
<1>1. go[c].pc \notin {"sadd", "expire"}
  BY DEF SignIn, SignInRejected, Request, Serve, CheckRejected, CheckedLogout,
     CheckedAndUpdated, MGetKeys, PruneIndex, DelKeys, RemoveFromIndex, SMembers,
     ListSessions, Reply
<1>2. CASE CheckedAndUpdated(c)
  BY <1>1, <1>2 DEF CheckedAndUpdated
<1>3. CASE CheckRejected(c) \/ CheckedLogout(c)
  BY <1>1, <1>3 DEF CheckRejected, CheckedLogout, Finish, TypeOK
<1>4. CASE \/ SignIn(c) \/ SignInRejected(c) \/ \E op \in Ops : Request(c, op)
           \/ MGetKeys(c) \/ PruneIndex(c) \/ DelKeys(c) \/ RemoveFromIndex(c)
           \/ SMembers(c) \/ ListSessions(c) \/ Reply(c)
  BY <1>1, <1>4, OthersKept
<1>5. QED
  BY <1>2, <1>3, <1>4 DEF Serve

(* Members that leave a list, and keys that go, cost nothing.              *)
LEMMA OInvFewer ==
  ASSUME TypeOK, OInv, UNCHANGED now,
         \A a \in AccountID : index'[a] \subseteq index[a],
         \A a \in AccountID : index'[a] # {} => indexDeadline'[a] = indexDeadline[a],
         \A s \in SessionID : \/ store'[s] = None /\ deadline'[s] = 0
                              \/ store'[s] = store[s] /\ deadline'[s] = deadline[s],
         \A s \in SessionID : Renewing(s) => Renewing(s)'
  PROVE  OInv'
<1>1. DeadlinesBounded'
  <2>1. 0 <= now + TTL
    BY DEF TypeOK
  <2>2. QED
    BY <2>1 DEF OInv, DeadlinesBounded
<1>2. ASSUME NEW a \in AccountID, NEW s \in index'[a] PROVE Outlives(a, s)'
  <2>1. s \in index[a] /\ s \in SessionID /\ indexDeadline'[a] = indexDeadline[a]
    BY <1>2 DEF TypeOK
  <2>2. QED
    BY <2>1 DEF OInv, Outlives
<1>3. QED
  BY <1>1, <1>2 DEF OInv

LEMMA OInvTick == ASSUME TypeOK, OInv, Tick PROVE OInv'
<1> DEFINE gone  == {s \in SessionID : store[s] # None /\ deadline[s] <= now + 1}
           empty == {a \in AccountID : indexDeadline[a] # NoTTL /\ indexDeadline[a] <= now + 1}
<1>1. /\ now' = now + 1 /\ Del(gone)
      /\ \A a \in AccountID :
           /\ index'[a] = IF a \in empty THEN {} ELSE index[a]
           /\ indexDeadline'[a] = IF a \in empty THEN NoTTL ELSE indexDeadline[a]
  BY DEF Tick
<1>2. \A s \in SessionID : IF s \in gone THEN store'[s] = None /\ deadline'[s] = 0
                           ELSE store'[s] = store[s] /\ deadline'[s] = deadline[s]
  BY <1>1 DEF Del
<1>3. DeadlinesBounded'
  <2>1. /\ now \in Nat /\ \A s \in SessionID : deadline[s] \in Nat
        /\ \A s \in SessionID : deadline'[s] \in {0, deadline[s]}
    BY <1>2 DEF TypeOK
  <2>2. QED
    BY <1>1, <2>1 DEF OInv, DeadlinesBounded
<1>4. ASSUME NEW a \in AccountID, NEW s \in index'[a] PROVE Outlives(a, s)'
  <2>1. a \notin empty /\ s \in index[a] /\ s \in SessionID
    BY <1>1, <1>4 DEF TypeOK
  <2>2. indexDeadline'[a] = indexDeadline[a] /\ (Renewing(s) => Renewing(s)')
    BY <1>1, <2>1 DEF Tick, Renewing
  <2>3. QED
    BY <1>2, <2>1, <2>2 DEF OInv, Outlives
<1>5. QED
  BY <1>3, <1>4 DEF OInv

(* SET: from now on the goroutine is renewing the list for its session.    *)
LEMMA OInvSetKey == ASSUME IInv, OInv, NEW g \in Goroutine, SetKey(g) PROVE OInv'
<1> DEFINE n == go[g].sid
<1>1. TypeOK /\ go[g] \in Local /\ Sound(go[g]) /\ go[g].pc = "set"
  BY DEF IInv, TypeOK, SetKey
<1>2. n \in SessionID /\ go[g].rec # None
  BY <1>1 DEF Sound, BoundTo, Local
<1>3. /\ deadline'[n] = now + TTL
      /\ \A s \in SessionID : s # n => store'[s] = store[s] /\ deadline'[s] = deadline[s]
      /\ UNCHANGED <<index, indexDeadline, now>>
  BY <1>1, <1>2 DEF SetKey, Set, TypeOK
<1>4. /\ go'[g].pc = "sadd" /\ go'[g].sid = go[g].sid
      /\ \A h \in Goroutine : h # g => go'[h] = go[h]
  BY <1>1 DEF SetKey, Goto, TypeOK, Local
<1>5. \A s \in SessionID : Renewing(s) => Renewing(s)'
  BY <1>1, <1>4 DEF Renewing
<1>6. \A s \in SessionID : s = go[g].sid => Renewing(s)'
  BY <1>1, <1>4 DEF Renewing
<1>7. DeadlinesBounded'
  BY <1>1, <1>3 DEF OInv, DeadlinesBounded, TypeOK
<1>8. ASSUME NEW a \in AccountID, NEW s \in index'[a] PROVE Outlives(a, s)'
  <2>1. s \in index[a] /\ s \in SessionID
    BY <1>1, <1>3, <1>8 DEF TypeOK
  <2>2. CASE s = n
    BY <1>6, <2>1, <2>2 DEF Outlives
  <2>3. CASE s # n
    <3>1. Outlives(a, s)
      BY <2>1 DEF OInv
    <3>2. /\ store'[s] = store[s] /\ deadline'[s] = deadline[s]
          /\ indexDeadline'[a] = indexDeadline[a]
      BY <1>3, <2>1, <2>3
    <3>3. Renewing(s) => Renewing(s)'
      BY <1>5, <2>1
    <3>4. QED
      BY <3>1, <3>2, <3>3 DEF Outlives
  <2>4. QED
    BY <2>2, <2>3
<1>9. QED
  BY <1>7, <1>8 DEF OInv

LEMMA OInvAddToIndex == ASSUME IInv, OInv, NEW g \in Goroutine, AddToIndex(g) PROVE OInv'
<1>1. TypeOK /\ go[g] \in Local /\ Sound(go[g]) /\ go[g].pc = "sadd"
  BY DEF IInv, TypeOK, AddToIndex
<1>2. go[g].rec.account \in AccountID /\ go[g].sid \in SessionID
  BY <1>1 DEF Sound, Local, Session
<1>3. UNCHANGED <<store, deadline, now>>
  BY DEF AddToIndex
<1>4. /\ go'[g].pc = "expire" /\ go'[g].sid = go[g].sid
      /\ \A h \in Goroutine : h # g => go'[h] = go[h]
  BY <1>1 DEF AddToIndex, Goto, TypeOK, Local
<1>5. \A s \in SessionID : Renewing(s) => Renewing(s)'
  BY <1>1, <1>4 DEF Renewing
<1>6. \A s \in SessionID : s = go[g].sid => Renewing(s)'
  BY <1>1, <1>4 DEF Renewing
<1>7. ASSUME NEW a \in AccountID, NEW s \in index'[a] PROVE Outlives(a, s)'
  <2>1. CASE s = go[g].sid
    BY <1>2, <1>6, <2>1 DEF Outlives
  <2>2. CASE s # go[g].sid
    <3>1. s \in index[a] /\ s \in SessionID
      BY <1>1, <1>2, <1>7, <2>2 DEF AddToIndex, SAdd, SetIndex, TypeOK
    <3>2. indexDeadline'[a] = indexDeadline[a] /\ UNCHANGED <<store, deadline>>
      BY <1>1, <1>2, <1>7 DEF AddToIndex, SAdd, SetIndex, TypeOK
    <3>3. Outlives(a, s) /\ (Renewing(s) => Renewing(s)')
      BY <1>5, <3>1 DEF OInv
    <3>4. QED
      BY <3>2, <3>3 DEF Outlives
  <2>3. QED
    BY <2>1, <2>2
<1>8. QED
  BY <1>3, <1>7 DEF OInv, DeadlinesBounded

LEMMA OInvExpireIndex == ASSUME IInv, OInv, NEW g \in Goroutine, ExpireIndex(g) PROVE OInv'
<1> DEFINE b == go[g].rec.account
<1>1. TypeOK /\ go[g] \in Local /\ Sound(go[g]) /\ go[g].pc = "expire"
  BY DEF IInv, TypeOK, ExpireIndex
<1>2. b \in AccountID
  BY <1>1 DEF Sound, Local, Session
<1>3. /\ UNCHANGED <<store, deadline, index, now>>
      /\ index[b] # {} => indexDeadline'[b] = now + TTL
      /\ \A a \in AccountID : a # b => indexDeadline'[a] = indexDeadline[a]
  BY <1>1, <1>2 DEF ExpireIndex, Expire, TypeOK
<1>4. \A h \in Goroutine : h # g => go'[h] = go[h]
  BY <1>1 DEF ExpireIndex, Finish, TypeOK
<1>5. \A s \in SessionID : s # go[g].sid /\ Renewing(s) => Renewing(s)'
  BY <1>4 DEF Renewing
<1>6. ASSUME NEW a \in AccountID, NEW s \in index'[a] PROVE Outlives(a, s)'
  <2>1. s \in index[a] /\ s \in SessionID
    BY <1>1, <1>3, <1>6 DEF TypeOK
  <2>2. CASE a = b
    <3>1. deadline[s] <= now + TTL
      BY <2>1 DEF OInv, DeadlinesBounded
    <3>2. QED
      BY <1>1, <1>3, <2>1, <2>2, <3>1 DEF Outlives, TypeOK
  <2>3. CASE a # b
    <3>1. s # go[g].sid
      BY <1>1, <2>1, <2>3 DEF IInv, OfAccount, Sound, BoundTo
    <3>2. QED
      BY <1>3, <1>5, <2>1, <2>3, <3>1 DEF OInv, Outlives
  <2>4. QED
    BY <2>2, <2>3
<1>7. QED
  BY <1>3, <1>6 DEF OInv, DeadlinesBounded

(* SREM takes ids away; a list it empties has no deadline to keep.         *)
LEMMA SRemFewer ==
  ASSUME TypeOK, NEW b, NEW S, SRem(b, S)
  PROVE  /\ \A a \in AccountID : index'[a] \subseteq index[a]
         /\ \A a \in AccountID : index'[a] # {} => indexDeadline'[a] = indexDeadline[a]
BY DEF SRem, SetIndex, TypeOK

LEMMA OInvTerminate ==
  ASSUME IInv, OInv, NEW c \in Call, PruneIndex(c) \/ DelKeys(c) \/ RemoveFromIndex(c)
  PROVE  OInv'
<1>1. TypeOK
  BY DEF IInv
<1>2. \A s \in SessionID : Renewing(s) => Renewing(s)'
  BY <1>1, RenewalKept DEF Serve, Renewing
<1>3. \/ /\ UNCHANGED <<store, deadline>>
         /\ (\E b, S : SRem(b, S)) \/ UNCHANGED <<index, indexDeadline>>
      \/ /\ UNCHANGED <<index, indexDeadline>>
         /\ (\E S : Del(S)) \/ UNCHANGED <<store, deadline>>
  BY DEF PruneIndex, DelKeys, RemoveFromIndex
<1>4. /\ \A a \in AccountID : index'[a] \subseteq index[a]
      /\ \A a \in AccountID : index'[a] # {} => indexDeadline'[a] = indexDeadline[a]
  BY <1>1, <1>3, SRemFewer
<1>5. \A s \in SessionID : \/ store'[s] = None /\ deadline'[s] = 0
                           \/ store'[s] = store[s] /\ deadline'[s] = deadline[s]
  BY <1>3 DEF Del
<1>6. UNCHANGED now
  BY DEF PruneIndex, DelKeys, RemoveFromIndex
<1>7. QED
  BY <1>1, <1>2, <1>4, <1>5, <1>6, OInvFewer

LEMMA OInvNext == ~Faults => (IInv /\ OInv /\ [Next]_vars => OInv')
<1> SUFFICES ASSUME ~Faults, IInv, OInv, [Next]_vars PROVE OInv'
  OBVIOUS
<1> TypeOK
  BY DEF IInv
<1>1. CASE UNCHANGED vars
  BY <1>1, OInvQuiet DEF vars, redis
<1>2. ASSUME NEW g \in Goroutine, SetSession(g) PROVE OInv'
  BY <1>2, OInvSetKey, OInvAddToIndex, OInvExpireIndex DEF SetSession, SetSessionFails
<1>3. ASSUME NEW c \in Call,
             SignIn(c) \/ SignInRejected(c) \/ \E op \in Ops : Request(c, op)
      PROVE  OInv'
  <2>1. UNCHANGED <<redis, now>>
    BY <1>3 DEF SignIn, SignInRejected, Request
  <2>2. QED
    BY <1>3, <2>1, RenewalKept, OInvQuiet
<1>4. ASSUME NEW c \in Call, Serve(c) PROVE OInv'
  <2>1. CASE PruneIndex(c) \/ DelKeys(c) \/ RemoveFromIndex(c)
    BY <2>1, OInvTerminate
  <2>2. CASE \/ CheckRejected(c) \/ CheckedLogout(c) \/ CheckedAndUpdated(c)
             \/ MGetKeys(c) \/ SMembers(c) \/ ListSessions(c) \/ Reply(c)
    <3>1. UNCHANGED <<redis, now>>
      BY <2>2 DEF CheckRejected, CheckedLogout, CheckedAndUpdated, MGetKeys, SMembers,
         ListSessions, Reply
    <3>2. QED
      BY <1>4, <3>1, RenewalKept, OInvQuiet
  <2>3. QED
    BY <1>4, <2>1, <2>2 DEF Serve
<1>5. QED
  BY <1>1, <1>2, <1>3, <1>4, OInvTick DEF Next

(* If Redis does not fail, a list that has the id of a live session does   *)
(* not expire before its key, unless a SetSession of that very session has *)
(* still to do its SADD or its EXPIRE; in that window it may.              *)
THEOREM ListsOutlive == ~Faults => (Spec => []IndexOutlivesKeys)
<1> SUFFICES ASSUME ~Faults PROVE Spec => []IndexOutlivesKeys
  OBVIOUS
<1>1. Init => OInv
  BY DEF Init, OInv, DeadlinesBounded
<1>2. IInv /\ OInv /\ [Next]_vars => OInv'
  BY OInvNext
<1>3. QED
  BY <1>1, <1>2, Invariance, OInvMeaning, PTL DEF Spec
=============================================================================
