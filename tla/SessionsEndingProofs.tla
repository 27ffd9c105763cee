------------------------ MODULE SessionsEndingProofs ------------------------
(* Theorems about Sessions: what a Logout or a TerminateSessions that      *)
(* answered with success has done, whatever requests and updates           *)
(* interleave and whatever commands fail.                                  *)
EXTENDS SessionsProofs

USE GoroutineAssumption

-----------------------------------------------------------------------------
(* The requests that are past the deletion of what they name.              *)

Closing(r) == /\ r.op \in {"Logout", "TerminateSessions"} /\ ~r.missed
              /\ r.pc \in {"prune", "srem"} \/ (r.pc = "done" /\ r.ok)

(* Among the requests only a SignIn writes a session; updates are tasks.   *)
Closed(c) == /\ go[c].pc \in {"set", "sadd", "expire"} => go[c].op = "SignIn"
             /\ Closing(go[c]) => \A s \in go[c].ids : PhaseOf(s) = "ended"

EInv == \A c \in Call : Closed(c)

LEMMA EInvMeaning == EInv => EndingsLast
BY DEF EInv, Closed, Closing, EndingsLast

LEMMA EInvInit == Init => EInv
BY DEF Init, EInv, Closed, Closing, Idle, Goroutine

(* Locals that are at no DEL, or whose ids had all ended before the step.  *)
LEMMA ClosedKept ==
  ASSUME IInv, Next, NEW c \in Call,
         go'[c].pc \in {"set", "sadd", "expire"} => go'[c].op = "SignIn",
         Closing(go'[c]) =>
           \A s \in go'[c].ids : s \in SessionID /\ PhaseOf(s) = "ended"
  PROVE  Closed(c)'
BY EndedStep DEF Closed

(* A step that ends the request's work, well or not.                       *)
LEMMA ClosedFinish ==
  ASSUME IInv, EInv, Next, NEW c \in Call, NEW ok \in BOOLEAN, Finish(c, ok),
         go[c].op \in {"Logout", "TerminateSessions"} /\ ok
           => go[c].pc \in {"prune", "srem"}
  PROVE  Closed(c)'
<1> c \in Goroutine /\ go[c] \in Local /\ TypeOK
  BY DEF Goroutine, IInv, TypeOK
<1>1. CASE ~ok
  <2>1. go'[c] = [Idle EXCEPT !.pc = "done"]
    BY <1>1 DEF Finish, TypeOK
  <2>2. go'[c].op = "none" /\ go'[c].pc = "done"
    BY <2>1 DEF Idle
  <2>3. QED
    BY <2>2, ClosedKept DEF Closing
<1>2. CASE ok
  <2>1. /\ go'[c].op = go[c].op /\ go'[c].pc = "done" /\ go'[c].ids = go[c].ids
        /\ go'[c].missed = go[c].missed
    BY <1>2 DEF Finish, TypeOK, Local
  <2>2. go[c].ids \subseteq SessionID
    BY DEF Local
  <2>3. Closing(go'[c]) => \A s \in go'[c].ids : PhaseOf(s) = "ended"
    BY <1>2, <2>1 DEF Closing, EInv, Closed
  <2>4. QED
    BY <2>1, <2>2, <2>3, ClosedKept
<1>3. QED
  BY <1>1, <1>2

(* MGET: a request that goes on to prune the list notes what it passes by. *)
LEMMA ClosedMGet == ASSUME IInv, EInv, Next, NEW c \in Call, MGetKeys(c) PROVE Closed(c)'
<1> c \in Goroutine /\ go[c] \in Local /\ go[c].pc = "mget" /\ TypeOK
  BY DEF Goroutine, IInv, TypeOK, MGetKeys
<1> DEFINE Late == {s \in go[c].ids : PhaseOf(s) # "ended"}
<1>1. CASE Finish(c, FALSE)
  BY <1>1, ClosedFinish
<1>2. CASE Goto(c, "del")
  <2>1. go'[c].pc = "del"
    BY <1>2 DEF Goto, TypeOK, Local
  <2>2. QED
    BY <2>1, ClosedKept DEF Closing
<1>3. CASE GotoMissing(c, "prune", Late)
  <2>1. /\ go'[c].pc = "prune" /\ go'[c].ids = go[c].ids
        /\ go'[c].missed = (Late # {})
    BY <1>3 DEF GotoMissing, TypeOK, Local
  <2>2. Closing(go'[c]) => \A s \in go'[c].ids : s \in SessionID /\ PhaseOf(s) = "ended"
    BY <2>1 DEF Closing, Local
  <2>3. QED
    BY <2>1, <2>2, ClosedKept
<1>4. CASE MGetDropped(c)
  <2>1. go'[c].pc = "done" /\ go'[c].missed
    BY <1>4 DEF MGetDropped, TypeOK, Local
  <2>2. QED
    BY <2>1, ClosedKept DEF Closing
<1>5. QED
  BY <1>1, <1>2, <1>3, <1>4 DEF MGetKeys

(* DEL: the keys are gone, and an id that nobody is about to SET has ended.*)
LEMMA ClosedDel == ASSUME IInv, EInv, Next, NEW c \in Call, DelKeys(c) PROVE Closed(c)'
<1> c \in Goroutine /\ go[c] \in Local /\ go[c].pc = "del" /\ Sound(go[c]) /\ TypeOK
  BY DEF Goroutine, IInv, TypeOK, DelKeys
<1> DEFINE Late == {s \in go[c].ids : Pending(s)}
<1>1. CASE Finish(c, FALSE)
  BY <1>1, ClosedFinish
<1>2. CASE Del(go[c].ids) /\ GotoMissing(c, "srem", Late)
  <2>1. /\ go'[c].pc = "srem" /\ go'[c].ids = go[c].ids
        /\ go'[c].missed = (Late # {})
        /\ \A g \in Goroutine : g # c => go'[g] = go[g]
    BY <1>2 DEF GotoMissing, TypeOK, Local
  <2>2. ASSUME ~go'[c].missed, NEW s \in go[c].ids PROVE PhaseOf(s)' = "ended"
    <3>1. s \in SessionID /\ issued'[s] # None
      BY <2>2 DEF Sound, Local, DelKeys
    <3>2. store'[s] = None
      BY <1>2, <2>2, <3>1 DEF Del
    <3>3. ~Pending(s)'
      BY <2>1, <2>2 DEF Pending
    <3>4. QED
      BY <3>1, <3>2, <3>3 DEF PhaseOf
  <2>3. QED
    BY <2>1, <2>2 DEF Closed, Closing
<1>3. QED
  BY <1>1, <1>2 DEF DelKeys

(* The steps of a request that has not come to MGET, or never does.        *)
LEMMA ClosedOther ==
  ASSUME IInv, EInv, Next, NEW c \in Call,
         \/ SignIn(c) \/ \E op \in Ops : Request(c, op)
         \/ CheckedLogout(c) \/ CheckedAndUpdated(c)
         \/ SMembers(c) \/ ListSessions(c) \/ Reply(c)
  PROVE  Closed(c)'
<1> c \in Goroutine /\ go[c] \in Local /\ Sound(go[c]) /\ TypeOK
  BY DEF Goroutine, IInv, TypeOK
<1>1. CASE SignIn(c)
  <2>1. PICK n \in Fresh, a \in AccountID, m \in MachineID :
          go' = [go EXCEPT ![c] =
                   [Idle EXCEPT !.pc = "set", !.op = "SignIn", !.sid = n, !.machine = m,
                                !.rec = [account |-> a, machine |-> m, last |-> now]]]
    BY <1>1 DEF SignIn
  <2>2. go'[c].pc = "set" /\ go'[c].op = "SignIn"
    BY <2>1 DEF TypeOK, Idle
  <2>3. QED
    BY <2>2, ClosedKept DEF Closing
<1>2. CASE CheckedLogout(c) \/ Reply(c)
  <2>1. go'[c] = [go[c] EXCEPT !.pc = "mget", !.rec = store[go[c].sid]] \/ go'[c] = Idle
    BY <1>2 DEF CheckedLogout, Reply, TypeOK
  <2>2. [go[c] EXCEPT !.pc = "mget", !.rec = store[go[c].sid]].pc = "mget"
    BY DEF Local
  <2>3. Idle.pc = "idle"
    BY DEF Idle
  <2>4. go'[c].pc \in {"mget", "idle"}
    BY <2>1, <2>2, <2>3
  <2>5. QED
    BY <2>4, ClosedKept DEF Closing
<1>3. CASE CheckedAndUpdated(c)
  <2>1. go'[c] = [go[c] EXCEPT !.pc = AfterCheck(go[c].op), !.rec = store[go[c].sid],
                               !.ok = AfterCheck(go[c].op) = "done"]
    BY <1>3 DEF CheckedAndUpdated
  <2>2. go'[c].pc = AfterCheck(go[c].op) /\ go'[c].op = go[c].op /\ go[c].op # "Logout"
    BY <1>3, <2>1 DEF Local, CheckedAndUpdated
  <2>3. /\ go'[c].pc \in {"mget", "smembers", "done"}
        /\ go'[c].op = "TerminateSessions" => go'[c].pc = "mget"
    BY <2>2 DEF AfterCheck
  <2>4. QED
    BY <2>2, <2>3, ClosedKept DEF Closing
<1>4. CASE SMembers(c) \/ ListSessions(c)
  <2>1. go[c].op = "GetAllSessions"
    BY <1>4 DEF SMembers, ListSessions, Sound
  <2>2. CASE Finish(c, FALSE)
    BY <2>2, ClosedFinish
  <2>3. CASE ~Finish(c, FALSE)
    <3>1. \/ go'[c] = [go[c] EXCEPT !.pc = "list", !.ids = index[go[c].rec.account]]
          \/ go'[c] = [go[c] EXCEPT !.pc = "done", !.ok = TRUE, !.ids = Live(go[c].ids)]
      BY <1>4, <2>3 DEF SMembers, ListSessions, TypeOK
    <3>2. go'[c].pc \in {"list", "done"} /\ go'[c].op = go[c].op
      BY <3>1 DEF Local
    <3>3. QED
      BY <2>1, <3>2, ClosedKept DEF Closing
  <2>4. QED
    BY <2>2, <2>3
<1>5. ASSUME NEW op \in Ops, Request(c, op) PROVE Closed(c)'
  <2>1. PICK n \in known, m \in MachineID, dup \in BOOLEAN :
          \E ids \in Named(op, n) :
             go' = [go EXCEPT ![c] = [Idle EXCEPT !.pc = "get", !.op = op, !.sid = n,
                                                  !.machine = m, !.ids = ids, !.dup = dup]]
    BY <1>5 DEF Request
  <2>2. go'[c].pc = "get"
    BY <2>1 DEF TypeOK, Idle
  <2>3. QED
    BY <2>2, ClosedKept DEF Closing
<1>6. QED
  BY <1>1, <1>2, <1>3, <1>4, <1>5

(* SetSession of a SignIn; a task is no request.                           *)
LEMMA ClosedSetSession ==
  ASSUME IInv, EInv, Next, NEW c \in Call, SetSession(c)
  PROVE  Closed(c)'
<1> c \in Goroutine /\ go[c] \in Local /\ TypeOK
  BY DEF Goroutine, IInv, TypeOK
<1>1. go[c].pc \in {"set", "sadd", "expire"} /\ go[c].op = "SignIn"
  BY DEF SetSession, SetKey, AddToIndex, ExpireIndex, SetSessionFails, EInv, Closed
<1>2. CASE Goto(c, "sadd") \/ Goto(c, "expire")
  <2>1. go'[c].op = "SignIn"
    BY <1>1, <1>2 DEF Goto, TypeOK, Local
  <2>2. QED
    BY <2>1, ClosedKept DEF Closing
<1>3. CASE \E ok \in BOOLEAN : Finish(c, ok)
  BY <1>1, <1>3, ClosedFinish
<1>4. QED
  BY <1>2, <1>3 DEF SetSession, SetKey, AddToIndex, ExpireIndex, SetSessionFails, Outcome

(* Whoever does not move keeps what it has ended.                          *)
LEMMA ClosedUnmoved ==
  ASSUME IInv, EInv, Next, NEW c \in Call, go'[c] = go[c]
  PROVE  Closed(c)'
<1>1. Closed(c) /\ go[c].ids \subseteq SessionID
  BY DEF EInv, IInv, TypeOK, Goroutine, Local
<1>2. QED
  BY <1>1, ClosedKept DEF Closed

LEMMA EInvNext == IInv /\ EInv /\ [Next]_vars => EInv'
<1> SUFFICES ASSUME IInv, EInv, [Next]_vars, NEW c \in Call PROVE Closed(c)'
  BY DEF EInv
<1> c \in Goroutine /\ TypeOK
  BY DEF Goroutine, IInv
<1>1. CASE UNCHANGED vars
  BY <1>1 DEF vars, EInv, Closed, Closing, PhaseOf, Pending
<1>2. CASE Tick
  BY <1>2, ClosedUnmoved DEF Tick, Next
<1>3. ASSUME NEW g \in Goroutine, SetSession(g) PROVE Closed(c)'
  <2>1. Next
    BY <1>3 DEF Next
  <2>2. CASE g = c
    BY <1>3, <2>1, <2>2, ClosedSetSession
  <2>3. CASE g # c
    BY <1>3, <2>1, <2>3, OthersKept, ClosedUnmoved
  <2>4. QED
    BY <2>2, <2>3
<1>4. ASSUME NEW d \in Call, SignIn(d) \/ SignInRejected(d) \/ \E op \in Ops : Request(d, op)
      PROVE  Closed(c)'
  <2>1. Next /\ d \in Goroutine
    BY <1>4 DEF Next, Goroutine
  <2>2. CASE d = c /\ SignInRejected(d)
    BY <2>1, <2>2, ClosedFinish DEF SignInRejected
  <2>3. CASE d = c /\ ~SignInRejected(d)
    BY <1>4, <2>1, <2>3, ClosedOther
  <2>4. CASE d # c
    BY <1>4, <2>1, <2>4, OthersKept, ClosedUnmoved
  <2>5. QED
    BY <2>2, <2>3, <2>4
<1>5. ASSUME NEW d \in Call, Serve(d), d # c PROVE Closed(c)'
  <2>1. Next /\ d \in Goroutine /\ c \notin Task
    BY <1>5 DEF Next, Goroutine
  <2>2. go'[c] = go[c]
    <3>1. CASE CheckRejected(d) \/ CheckedLogout(d)
      BY <1>5, <3>1 DEF CheckRejected, CheckedLogout, Finish, TypeOK
    <3>2. CASE CheckedAndUpdated(d)
      BY <1>5, <2>1, <3>2 DEF CheckedAndUpdated
    <3>3. QED
      BY <1>5, <2>1, <3>1, <3>2, OthersKept DEF Serve
  <2>3. QED
    BY <2>1, <2>2, ClosedUnmoved
<1>6. CASE Serve(c)
  <2>1. Next
    BY <1>6 DEF Next
  <2>2. CASE CheckRejected(c)
    BY <2>1, <2>2, ClosedFinish DEF CheckRejected
  <2>3. CASE PruneIndex(c) \/ RemoveFromIndex(c)
    <3>1. PICK ok \in BOOLEAN : Finish(c, ok)
      BY <2>3 DEF PruneIndex, RemoveFromIndex, Outcome
    <3>2. go[c].pc \in {"prune", "srem"}
      BY <2>3 DEF PruneIndex, RemoveFromIndex
    <3>3. QED
      BY <2>1, <3>1, <3>2, ClosedFinish
  <2>4. QED
    BY <1>6, <2>1, <2>2, <2>3, ClosedMGet, ClosedDel, ClosedOther DEF Serve
<1>7. QED
  BY <1>1, <1>2, <1>3, <1>4, <1>5, <1>6 DEF Next

(* Once a Logout or a TerminateSessions has answered with success, the     *)
(* sessions it named have ended and stay so, with any updates about, any   *)
(* expiry and any failure of Redis, unless MGET made it pass one by or an  *)
(* update was about to SET one when its DEL came.                          *)
THEOREM EndingsHold == Spec => []EndingsLast
BY EInvInit, EInvNext, EInvMeaning, Invariance, PTL DEF Spec
=============================================================================
