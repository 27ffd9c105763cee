--------------------------- MODULE OutcomesProofs ---------------------------
(* Theorems about Outcomes: what each of the three translations lets pass, *)
(* and what the order of an operation's calls makes of it.                 *)
EXTENDS Outcomes, SequenceTheorems, TLAPS

-----------------------------------------------------------------------------
(* The programs.                                                           *)

(* The two operations that end in the repository's TerminateSessions, their *)
(* calls in one tuple.                                                     *)
LEMMA ProgramIs ==
  /\ Logout = <<"GetSession", "removeNonexistantKeys", "DelKeys">>
  /\ TerminateSessions = <<"GetSession", "CheckIds", "removeNonexistantKeys", "DelKeys">>
<1> DEFINE S == {"GetSession", "CheckIds", "removeNonexistantKeys", "DelKeys"}
<1>1. /\ Terminate \in Seq(S) /\ Len(Terminate) = 2
      /\ Terminate[1] = "removeNonexistantKeys" /\ Terminate[2] = "DelKeys"
  BY DEF Terminate
<1>2. /\ <<"GetSession">> \in Seq(S) /\ Len(<<"GetSession">>) = 1
      /\ <<"GetSession">>[1] = "GetSession"
  OBVIOUS
<1>3. /\ <<"GetSession", "CheckIds">> \in Seq(S) /\ Len(<<"GetSession", "CheckIds">>) = 2
      /\ <<"GetSession", "CheckIds">>[1] = "GetSession"
      /\ <<"GetSession", "CheckIds">>[2] = "CheckIds"
  OBVIOUS
<1>4. Logout = <<"GetSession", "removeNonexistantKeys", "DelKeys">>
  <2> DEFINE q == <<"GetSession", "removeNonexistantKeys", "DelKeys">>
  <2>1. /\ q \in Seq(S) /\ Len(q) = 3
        /\ q[1] = "GetSession" /\ q[2] = "removeNonexistantKeys" /\ q[3] = "DelKeys"
    OBVIOUS
  <2>2. Logout \in Seq(S) /\ Len(Logout) = 3
    BY <1>1, <1>2, ConcatProperties DEF Logout
  <2>3. \A i \in 1..3 : Logout[i] = IF i <= 1 THEN <<"GetSession">>[i] ELSE Terminate[i - 1]
    BY <1>1, <1>2, ConcatProperties DEF Logout
  <2>4. \A i \in 1..3 : Logout[i] = q[i]
    BY <1>1, <1>2, <2>1, <2>3
  <2>5. QED
    BY <2>1, <2>2, <2>4, SeqEqual
<1>5. TerminateSessions = <<"GetSession", "CheckIds", "removeNonexistantKeys", "DelKeys">>
  <2> DEFINE h == <<"GetSession", "CheckIds">>
             q == <<"GetSession", "CheckIds", "removeNonexistantKeys", "DelKeys">>
  <2>1. /\ q \in Seq(S) /\ Len(q) = 4 /\ q[1] = "GetSession" /\ q[2] = "CheckIds"
        /\ q[3] = "removeNonexistantKeys" /\ q[4] = "DelKeys"
    OBVIOUS
  <2>2. TerminateSessions \in Seq(S) /\ Len(TerminateSessions) = 4
    <3>1. /\ h \o Terminate \in Seq(S)
          /\ Len(h \o Terminate) = Len(h) + Len(Terminate)
      <4> HIDE DEF h
      <4>1. h \in Seq(S)
        BY <1>3 DEF h
      <4>2. QED
        BY <1>1, <4>1, ConcatProperties
    <3>2. QED
      BY <1>1, <1>3, <3>1 DEF TerminateSessions
  <2>3. \A i \in 1..4 : TerminateSessions[i] = IF i <= 2 THEN h[i] ELSE Terminate[i - 2]
    BY <1>1, <1>3, ConcatProperties DEF TerminateSessions
  <2>4. \A i \in 1..4 : TerminateSessions[i] = q[i]
    BY <1>1, <1>3, <2>1, <2>3
  <2>5. QED
    BY <2>1, <2>2, <2>4, SeqEqual
<1>6. QED
  BY <1>4, <1>5

(* The calls that may say that the request is at fault.                    *)
Refusers == {"ParseToken", "CompareHashAndPassword", "GetSession", "GetAccount",
             "GetAccountByEmail", "GetAccountEmail", "CheckIds",
             "IsAccountWithEmailExist", "IsAccountExist"}

(* What holds of the calls p of an operation o: none that refuses follows   *)
(* one that writes; a transaction is begun once, and Commit follows;       *)
(* nothing but DelKeys follows removeNonexistantKeys.                      *)
WellOrdered(p) ==
  /\ Len(p) \in Nat \ {0} /\ DOMAIN p = 1..Len(p)
  /\ \A i, j \in DOMAIN p : i <= j /\ p[j] \in Refusers => p[i] \notin Writes
  /\ \A i, j \in DOMAIN p : p[i] \in InTransaction /\ p[j] \in InTransaction => i = j
  /\ \A i \in DOMAIN p : p[i] \in InTransaction => \E j \in DOMAIN p : i < j /\ p[j] = "Commit"
  /\ \A i, j \in DOMAIN p : p[i] = "removeNonexistantKeys"
                              => /\ j > i => p[j] = "DelKeys"
                                 /\ p[j] \notin InTransaction

Owned(o, p) ==
  /\ \A i \in DOMAIN p : p[i] = "GenerateToken"
       => o \in {"RequestAccountVerificationToken", "RequestChangePasswordToken"}
  /\ \A i \in DOMAIN p : o \in SessionOps
       => p[i] \notin {"GetAccount", "GetAccountByEmail"}
  /\ \A i \in DOMAIN p : p[i] = "GetSession" => i = 1
  /\ \A i \in DOMAIN p : p[i] = "CheckIds" => o = "TerminateSessions"
  /\ \A i \in DOMAIN p : o \in Updating /\ p[i] \in Refusers
       => p[i] \in {"GetSession", "CheckIds"}
  /\ \A i \in DOMAIN p : o = "DeleteAccount" /\ p[i] = "Commit" => i = Len(p)

LEMMA ProgramOrdered ==
  ASSUME NEW o \in Ops
  PROVE  WellOrdered(Program[o]) /\ Owned(o, Program[o])
<1> USE DEF WellOrdered, Owned, Refusers, Writes, InTransaction, SessionOps, Updating
<1>1. CASE o = "CreateAccount"
  <2>1. Program[o] = CreateAccount
    BY <1>1 DEF Program
  <2>2. QED
    BY <1>1, <2>1 DEF CreateAccount
<1>2. CASE o = "DeleteAccount"
  <2>1. Program[o] = DeleteAccount
    BY <1>2 DEF Program
  <2>2. QED
    BY <1>2, <2>1 DEF DeleteAccount
<1>3. CASE o = "RequestAccountVerificationToken"
  <2>1. Program[o] = RequestAccountVerificationToken
    BY <1>3 DEF Program
  <2>2. QED
    BY <1>3, <2>1 DEF RequestAccountVerificationToken
<1>4. CASE o = "VerifyAccount"
  <2>1. Program[o] = VerifyAccount
    BY <1>4 DEF Program
  <2>2. QED
    BY <1>4, <2>1 DEF VerifyAccount
<1>5. CASE o = "SignIn"
  <2>1. Program[o] = SignIn
    BY <1>5 DEF Program
  <2>2. QED
    BY <1>5, <2>1 DEF SignIn
<1>6. CASE o = "GetAccountID"
  <2>1. Program[o] = GetAccountID
    BY <1>6 DEF Program
  <2>2. QED
    BY <1>6, <2>1 DEF GetAccountID
<1>7. CASE o = "RequestChangePasswordToken"
  <2>1. Program[o] = RequestChangePasswordToken
    BY <1>7 DEF Program
  <2>2. QED
    BY <1>7, <2>1 DEF RequestChangePasswordToken
<1>8. CASE o = "ChangePassword"
  <2>1. Program[o] = ChangePassword
    BY <1>8 DEF Program
  <2>2. QED
    BY <1>8, <2>1 DEF ChangePassword
<1>9. CASE o = "GetAllSessions"
  <2>1. Program[o] = GetAllSessions
    BY <1>9 DEF Program
  <2>2. QED
    BY <1>9, <2>1 DEF GetAllSessions
<1>10. CASE o = "Logout"
  <2>1. Program[o] = Logout
    BY <1>10 DEF Program
  <2>2. QED
    BY <1>10, <2>1, ProgramIs
<1>11. CASE o = "TerminateSessions"
  <2>1. Program[o] = TerminateSessions
    BY <1>11 DEF Program
  <2>2. QED
    BY <1>11, <2>1, ProgramIs
<1>12. QED
  BY <1>1, <1>2, <1>3, <1>4, <1>5, <1>6, <1>7, <1>8, <1>9, <1>10, <1>11 DEF Ops, Program
-----------------------------------------------------------------------------
(* The inductive invariant.                                                *)

(* The calls before the next one.                                          *)
Past == {Program[op][i] : i \in 1..(next - 1)}

(* The errors that do not stop an operation.                               *)
Forgiven == {"SetAccount", "DeleteRegistration", "removeNonexistantKeys"}

Refusing == {"InvalidArgument", "Unauthenticated", "NotFound", "Conflict"}

BeforeInv ==
  /\ stage # "idle" => op \in Ops
  /\ stage # "replied" => reply = "none"
  /\ stage \in {"idle", "arrived", "decode", "handle"}
       => answers = {} /\ wrote = {} /\ counted = {} /\ tx = "none" /\ background = {}
  /\ stage \in {"arrived", "decode", "handle"} => next = 1

(* While calls are made, those before the next one are made, and no others *)
(* but the goroutines' U; one that failed is forgiven, or a goroutine's, or *)
(* was the transaction's, which is not open then, and without a            *)
(* transaction there is no Commit.                                         *)
MadeAre(P, U) ==
  /\ \A c \in P : \E raw \in Raw : <<c, raw>> \in answers
  /\ \A c \in Calls, raw \in Raw : <<c, raw>> \in answers =>
       /\ c \in P \cup U
       /\ raw # "nil" => c \in Forgiven \cup U \/ (c \in InTransaction /\ tx = "none")
  /\ tx = "open" => P \cap InTransaction # {}
  /\ "Commit" \in P => tx = "open"
  /\ wrote \subseteq P \cup U

(* What goroutines begun before the next call may call: an update begins   *)
(* after the first call, and the clean-up after the last.                  *)
Begun == IF op \in Updating /\ next > 1 THEN {"SetSession"} ELSE {}

CallsInv ==
  stage = "calls" => /\ MadeAre(Past, Begun)
                     /\ \A g \in background : GoCall(g) \in Begun

(* Nothing was written and nothing is still at work, but for the one       *)
(* refusal that comes after an update began.                               *)
Clean(k) ==
  \/ wrote = {} /\ background = {}
  \/ op = "TerminateSessions" /\ k = "InvalidArgument" /\ wrote \subseteq {"SetSession"}

BackInv == /\ \A g \in background : GoCall(g) \in Unheeded
           /\ (stage = "replied" /\ reply \in Refusal) => Clean(reply)

(* What success, a refusal and each of the codes a property names say of   *)
(* the calls.                                                              *)
Done == /\ \A i \in DOMAIN Program[op] : Program[op][i] \in Made \cup {"DelKeys"}
        /\ \A raw \in Raw \ {"nil"} : Answered(raw) \subseteq Forgiven \cup Unheeded

ReturnInv ==
  stage = "return" =>
    /\ code = "nil" => Done
    /\ code \in Refusing => Clean(code)
    /\ code = "raw" => /\ op = "RequestAccountVerificationToken"
                       /\ "GenerateToken" \in Answered("broken")
    /\ "GetSession" \in Answered("absent")
         => code \in {"Unauthenticated", "Canceled", "DeadlineExceeded"}
    /\ (code = "NotFound" /\ op \in SessionOps) => "GetAccountEmail" \in Answered("absent")

OInv == /\ TypeOK /\ BeforeInv /\ CallsInv /\ BackInv /\ ReturnInv
        /\ OkMeansDone /\ RefusalMeansUntouched /\ UnknownSessionIsUnauthenticated
        /\ Classified /\ CacheMetricsTrue

-----------------------------------------------------------------------------
(* The three translations.                                                 *)

(* What the repository or writer makes of an answer.                       *)
LEMMA RepositoryTranslates ==
  ASSUME ctx \in {"live", "Canceled", "DeadlineExceeded"},
         NEW c, NEW raw \in Raws(c), NEW e, e = RepositoryCode(c, raw)
  PROVE  /\ raw \in Raw
         /\ e \in Code \ {"Unauthenticated", "Conflict", "PermissionDenied"}
         /\ e = "nil" /\ raw # "nil" =>
              c \in Forgiven \/ (c \in InTransaction /\ raw = "swallowed")
         /\ e = "NotFound" => c \in Absent /\ raw = "absent"
         /\ e = "InvalidArgument" => c = "CheckIds"
         /\ e = "raw" => c \in InProcess \cup {"Commit"} /\ raw = "broken"
         /\ c \in Absent /\ raw = "absent" => e = IF ctx = "live" THEN "NotFound" ELSE ctx
<1> USE DEF Absent, InTransaction, Forgiven, InProcess, Dropped, SuccessUnseen, Code,
            ErrorCode, Raw, ContextError
<1>1. /\ raw \in {"nil", "broken", "absent", "swallowed", "InvalidArgument"}
      /\ raw = "absent" => c \in Absent
      /\ raw = "swallowed" => c \in InTransaction
      /\ raw = "InvalidArgument" => c = "CheckIds"
  BY DEF Raws
<1>2. CASE raw = "nil"
  BY <1>2 DEF RepositoryCode, HandleError
<1>3. CASE raw = "broken"
  BY <1>3 DEF RepositoryCode, HandleError
<1>4. CASE raw = "absent"
  BY <1>1, <1>4 DEF RepositoryCode, HandleError
<1>5. CASE raw = "swallowed"
  BY <1>1, <1>5 DEF RepositoryCode, HandleError
<1>6. CASE raw = "InvalidArgument"
  BY <1>1, <1>6 DEF RepositoryCode, HandleError
<1>7. QED
  BY <1>1, <1>2, <1>3, <1>4, <1>5, <1>6

(* What the service makes of that: a refusal comes from a call that may     *)
(* refuse, an error without a code from GenerateToken only, and an unknown  *)
(* session is Unauthenticated.                                             *)
LEMMA ServiceTranslates ==
  ASSUME ctx \in {"live", "Canceled", "DeadlineExceeded"},
         NEW c, NEW raw \in Raws(c), NEW k, k = ServiceCode(c, RepositoryCode(c, raw))
  PROVE  /\ k \in Code
         /\ k = "nil" /\ raw # "nil" =>
              c \in Forgiven \/ (c \in InTransaction /\ raw = "swallowed")
         /\ k \in Refusing => c \in Refusers
         /\ k = "raw" => /\ c = "GenerateToken" /\ raw = "broken"
                         /\ op # "RequestChangePasswordToken"
         /\ c = "GetSession" /\ raw = "absent"
              => k \in {"Unauthenticated", "Canceled", "DeadlineExceeded"}
         /\ k = "NotFound" => /\ c \in {"GetAccount", "GetAccountByEmail", "GetAccountEmail"}
                              /\ raw = "absent"
         /\ c = "CheckIds" /\ k \in Refusing => k = "InvalidArgument"
<1>1. PICK e : e = RepositoryCode(c, raw)
  OBVIOUS
<1>2. /\ e \in Code \ {"Unauthenticated", "Conflict", "PermissionDenied"}
      /\ e = "nil" /\ raw # "nil" =>
           c \in Forgiven \/ (c \in InTransaction /\ raw = "swallowed")
      /\ e = "NotFound" => c \in Absent /\ raw = "absent"
      /\ e = "InvalidArgument" => c = "CheckIds"
      /\ e = "raw" => c \in InProcess \cup {"Commit"} /\ raw = "broken"
      /\ c \in Absent /\ raw = "absent" => e = IF ctx = "live" THEN "NotFound" ELSE ctx
  BY <1>1, RepositoryTranslates
<1>3. k = ServiceCode(c, e)
  BY <1>1
<1>4. QED
  BY <1>2, <1>3 DEF ServiceCode, CheckSession, Code, ErrorCode, Refusing, Refusers, Absent,
     Forgiven, InProcess

LEMMA ServiceRefuses ==
  ASSUME NEW c, NEW k \in Refusals(c)
  PROVE  /\ k \in Refusing /\ c \in Refusers /\ c # "CheckIds"
         /\ k = "NotFound" => op \notin SessionOps
BY DEF Refusals, Refusing, Refusers, SessionOps

(* What the handler makes of the service's code.                           *)
LEMMA HandlerTranslates ==
  ASSUME NEW k \in Code, NEW r, r = ReplyCode(k)
  PROVE  /\ r \in GrpcCode
         /\ r = "OK" => k = "nil"
         /\ r \in {"InvalidArgument", "Unauthenticated", "NotFound", "AlreadyExists"}
              => k \in Refusing
         /\ r = "Unknown" => k = "raw"
         /\ r = "NotFound" => k = "NotFound"
         /\ k = "InvalidArgument" => r = k
         /\ k \in {"Unauthenticated", "Canceled", "DeadlineExceeded"} => r = k
BY DEF ReplyCode, ConvertServiceErrCodeToGrpc, GrpcCode, Code, ErrorCode, Refusing
-----------------------------------------------------------------------------
(* A call.                                                                 *)

LEMMA ProgramFacts ==
  ASSUME TypeOK, op \in Ops
  PROVE  /\ DOMAIN Program[op] = 1..Len(Program[op]) /\ Len(Program[op]) \in Nat \ {0}
         /\ next \in 1..Len(Program[op])
         /\ WellOrdered(Program[op]) /\ Owned(op, Program[op])
         /\ \A i \in 1..Len(Program[op]) : Program[op][i] \in Calls
<1>1. WellOrdered(Program[op]) /\ Owned(op, Program[op])
  BY ProgramOrdered
<1>2. op # "none"
  BY DEF Ops, Program
<1>3. \A i \in DOMAIN Program[op] : Program[op][i] \in Calls
  BY DEF Calls
<1>4. QED
  BY <1>1, <1>2, <1>3 DEF TypeOK, WellOrdered

(* The five ways a call can end: on to the next one; success of the last;  *)
(* nothing left to remove; an answer the service refuses; an error. Only   *)
(* the first two start goroutines.                                         *)
Ending(c, k) ==
  \/ /\ k = "nil" /\ \E started \in Started(c) : background' = background \cup started
     /\ \/ stage' = "calls" /\ next < Len(Program[op]) /\ next' = next + 1 /\ code' = code
        \/ stage' = "return" /\ next = Len(Program[op]) /\ next' = next /\ code' = "nil"
  \/ /\ stage' = "return" /\ next' = next /\ background' = background
     /\ \/ k = "nil" /\ c = "removeNonexistantKeys"
            /\ code' \in {"nil", "Canceled", "DeadlineExceeded"}
        \/ k = "nil" /\ code' \in Refusals(c)
        \/ k # "nil" /\ code' = k

(* A goroutine is one of an operation that has it, and is begun by the     *)
(* first call of that operation or by its last.                            *)
LEMMA StartedIs ==
  ASSUME TypeOK, op \in Ops, NEW c \in Calls, c = Program[op][next],
         NEW started \in Started(c), NEW g \in started
  PROVE  /\ g \in Goroutines /\ GoCall(g) \in Unheeded
         /\ \/ op \in Updating /\ GoCall(g) = "SetSession"
            \/ op = "DeleteAccount" /\ next = Len(Program[op])
<1>1. \/ /\ c = "GetSession" /\ op \in Updating
         /\ g \in {"checkAndUpdateSession", "TerminateSessions"}
      \/ c = "Commit" /\ op = "DeleteAccount" /\ g = "DeleteAccount"
  BY DEF Started, Updating
<1>2. g \in Goroutines /\ GoCall(g) \in Unheeded
  BY <1>1 DEF Goroutines, GoCall, Unheeded, Updating
<1>3. next \in DOMAIN Program[op] /\ Owned(op, Program[op])
  BY ProgramFacts
<1>4. QED
  BY <1>1, <1>2, <1>3 DEF Owned, GoCall

LEMMA DoIs ==
  ASSUME TypeOK, op \in Ops, Do
  PROVE  \E c \in Calls, raw \in Raw, k \in Code :
           /\ raw \in Raws(c)
           /\ c = Program[op][next] /\ k = ServiceCode(c, RepositoryCode(c, raw))
           /\ stage = "calls" /\ (c = "Commit" => tx = "open")
           /\ answers' = answers \cup {<<c, raw>>}
           /\ wrote' = wrote \/ (c \in Writes /\ wrote' = wrote \cup {c})
           /\ counted' = counted \cup Count(c, RepositoryCode(c, raw))
           /\ tx' = IF c \in InTransaction /\ raw = "nil" THEN "open" ELSE tx
           /\ UNCHANGED <<op, via, ctx, reply>>
           /\ Ending(c, k)
<1>1. PICK c \in Calls : c = Program[op][next]
  BY ProgramFacts
<1>2. PICK raw \in Raws(c) :
        /\ answers' = answers \cup {<<c, raw>>}
        /\ TakesEffect(c, raw)
        /\ counted' = counted \cup Count(c, RepositoryCode(c, raw))
        /\ tx' = IF c \in InTransaction /\ raw = "nil" THEN "open" ELSE tx
        /\ IF ServiceCode(c, RepositoryCode(c, raw)) = "nil" THEN GoesOn(c, raw)
           ELSE Return(ServiceCode(c, RepositoryCode(c, raw))) /\ UNCHANGED background
  BY <1>1 DEF Do
<1>3. ctx \in {"live", "Canceled", "DeadlineExceeded"} /\ tx \in {"none", "open"}
  BY DEF TypeOK
<1>4. PICK k \in Code : k = ServiceCode(c, RepositoryCode(c, raw)) /\ raw \in Raw
  BY <1>3, ServiceTranslates, RepositoryTranslates
<1>5. /\ stage = "calls" /\ (c = "Commit" => tx = "open")
      /\ UNCHANGED <<op, via, ctx, reply>>
  BY <1>1, <1>3 DEF Do, request
<1>6. wrote' = wrote \/ (c \in Writes /\ wrote' = wrote \cup {c})
  BY <1>2 DEF TakesEffect
<1>7. Ending(c, k)
  <2>1. CASE k # "nil"
    BY <1>2, <1>4, <2>1 DEF Return, Ending
  <2>2. CASE k = "nil" /\ GoOn(c)
    BY <1>5, <2>2, ProgramFacts DEF GoOn, Return, Ending
  <2>3. CASE k = "nil" /\ c = "removeNonexistantKeys" /\ Return(HandleError("nil"))
             /\ UNCHANGED background
    BY <1>3, <2>3 DEF Return, HandleError, ContextError, Ending
  <2>4. CASE k = "nil" /\ (\E z \in Refusals(c) : Return(z)) /\ UNCHANGED background
    BY <2>4 DEF Return, Ending
  <2>5. QED
    BY <1>2, <1>4, <2>1, <2>2, <2>3, <2>4 DEF GoesOn
<1>8. QED
  BY <1>1, <1>2, <1>4, <1>5, <1>6, <1>7

(* The calls made, after a call that stopped nothing.                      *)
LEMMA MadeGrows ==
  ASSUME TypeOK, op \in Ops, NEW U, MadeAre(Past, U),
         NEW c \in Calls, NEW raw \in Raws(c), c = Program[op][next],
         NEW P, P = Past \cup {c},
         ServiceCode(c, RepositoryCode(c, raw)) = "nil",
         c = "Commit" => tx = "open",
         answers' = answers \cup {<<c, raw>>},
         wrote' = wrote \/ wrote' = wrote \cup {c},
         tx' = IF c \in InTransaction /\ raw = "nil" THEN "open" ELSE tx
  PROVE  MadeAre(P, U)'
<1>1. ctx \in {"live", "Canceled", "DeadlineExceeded"} /\ tx \in {"none", "open"}
  BY DEF TypeOK
<1>2. /\ raw \in Raw
      /\ raw # "nil" => c \in Forgiven \/ (c \in InTransaction /\ raw = "swallowed")
  BY <1>1, RepositoryTranslates, ServiceTranslates
<1>3. \A d \in Past : ~(c \in InTransaction /\ d \in InTransaction)
  <2> SUFFICES ASSUME NEW i \in 1..(next - 1), c \in InTransaction,
                      Program[op][i] \in InTransaction
               PROVE  FALSE
    BY DEF Past
  <2>1. i \in DOMAIN Program[op] /\ next \in DOMAIN Program[op] /\ i # next
    BY ProgramFacts
  <2>2. QED
    BY <2>1, ProgramFacts DEF WellOrdered
<1>4. "Commit" \notin InTransaction /\ tx' \in {tx, "open"}
  BY DEF InTransaction
<1>5. \A d \in P : \E r \in Raw : <<d, r>> \in answers'
  BY <1>2 DEF MadeAre
<1>6. ASSUME NEW d \in Calls, NEW r \in Raw, <<d, r>> \in answers'
      PROVE  /\ d \in P \cup U
             /\ r # "nil" => d \in Forgiven \cup U \/ (d \in InTransaction /\ tx' = "none")
  <2>1. CASE <<d, r>> = <<c, raw>>
    <3>1. c \in InTransaction => tx = "none"
      BY <1>1, <1>3 DEF MadeAre
    <3>2. QED
      BY <1>2, <2>1, <3>1
  <2>2. CASE <<d, r>> \in answers
    <3>1. /\ d \in Past \cup U
          /\ r # "nil" => d \in Forgiven \cup U \/ (d \in InTransaction /\ tx = "none")
      BY <2>2 DEF MadeAre
    <3>2. d \in InTransaction /\ d \in Past /\ tx = "none" => tx' = "none"
      BY <1>3
    <3>3. (d \in InTransaction /\ d \in U \ Past) => d \in Forgiven \cup U
      OBVIOUS
    <3>4. QED
      BY <3>1, <3>2, <3>3
  <2>3. QED
    BY <1>6, <2>1, <2>2
<1>7. tx' = "open" => P \cap InTransaction # {}
  BY DEF MadeAre
<1>8. "Commit" \in P => tx' = "open"
  BY <1>4 DEF MadeAre
<1>9. wrote' \subseteq P \cup U
  BY DEF MadeAre
<1>10. QED
  BY <1>5, <1>6, <1>7, <1>8, <1>9 DEF MadeAre

(* A call that refuses writes nothing, and nothing is written before it    *)
(* but by the update that precedes CheckIds.                               *)
LEMMA RefusedUnwritten ==
  ASSUME TypeOK, op \in Ops, MadeAre(Past, Begun), \A g \in background : GoCall(g) \in Begun,
         NEW c \in Refusers, c = Program[op][next],
         wrote' = wrote \/ (c \in Writes /\ wrote' = wrote \cup {c})
  PROVE  \/ wrote' = {} /\ background = {}
         \/ /\ op = "TerminateSessions" /\ c = "CheckIds"
            /\ wrote' \subseteq {"SetSession"}
<1>1. ASSUME NEW i \in 1..next PROVE Program[op][i] \notin Writes
  <2>1. i \in DOMAIN Program[op] /\ next \in DOMAIN Program[op] /\ i <= next
    BY ProgramFacts
  <2>2. QED
    BY <2>1, ProgramFacts DEF WellOrdered
<1>2. next \in 1..next /\ \A i \in 1..(next - 1) : i \in 1..next
  BY ProgramFacts
<1>3. c \notin Writes /\ Past \cap Writes = {}
  BY <1>1, <1>2 DEF Past
<1>4. wrote \subseteq Past \cup Begun /\ wrote \subseteq Writes
  BY DEF MadeAre, TypeOK
<1>5. wrote' \subseteq Begun
  BY <1>3, <1>4
<1>6. CASE Begun = {}
  BY <1>5, <1>6
<1>7. CASE Begun # {}
  <2>1. op \in Updating /\ next > 1 /\ Begun = {"SetSession"}
    BY <1>7 DEF Begun
  <2>2. next \in DOMAIN Program[op] /\ Owned(op, Program[op])
    BY ProgramFacts
  <2>3. c = "CheckIds" /\ op = "TerminateSessions"
    BY <2>1, <2>2 DEF Owned
  <2>4. QED
    BY <1>5, <2>1, <2>3
<1>8. QED
  BY <1>6, <1>7
-----------------------------------------------------------------------------
(* Every step keeps the invariant.                                         *)

LEMMA OInvInit == Init => OInv
<1> SUFFICES ASSUME Init PROVE OInv
  OBVIOUS
<1>1. TypeOK
  BY DEF Init, TypeOK, Code
<1>2. BeforeInv /\ CallsInv /\ ReturnInv
  BY DEF Init, BeforeInv, CallsInv, ReturnInv
<1>2b. BackInv
  BY DEF Init, BackInv
<1>3. CacheMetricsTrue
  BY DEF Init, CacheMetricsTrue, Answered
<1>4. OkMeansDone /\ RefusalMeansUntouched /\ UnknownSessionIsUnauthenticated /\ Classified
  BY DEF Init, OkMeansDone, RefusalMeansUntouched, Refusal, UnknownSessionIsUnauthenticated, Classified
<1>5. QED
  BY <1>1, <1>2, <1>2b, <1>3, <1>4 DEF OInv

LEMMA OInvArrive == ASSUME OInv, Arrive PROVE OInv'
<1>1. /\ op' \in Ops /\ via' \in {"grpc", "rest"} /\ stage' = "arrived" /\ next' = 1
      /\ ctx' = "live" /\ tx' = "none" /\ code' = "nil" /\ reply' = "none"
      /\ answers' = {} /\ wrote' = {} /\ counted' = {} /\ background' = {}
  BY DEF Arrive
<1>2. next' \in DOMAIN Program[op']
  BY <1>1, ProgramOrdered DEF WellOrdered
<1>3. TypeOK'
  BY <1>1, <1>2 DEF TypeOK, Code
<1>4. BeforeInv' /\ CallsInv' /\ BackInv' /\ ReturnInv'
  BY <1>1 DEF BeforeInv, CallsInv, BackInv, ReturnInv
<1>5. CacheMetricsTrue'
  BY <1>1 DEF CacheMetricsTrue, Answered
<1>6. OkMeansDone' /\ RefusalMeansUntouched' /\ UnknownSessionIsUnauthenticated' /\ Classified'
  BY <1>1 DEF OkMeansDone, RefusalMeansUntouched, Refusal,
     UnknownSessionIsUnauthenticated, Classified
<1>7. QED
  BY <1>3, <1>4, <1>5, <1>6 DEF OInv

(* The steps before the first call: on to the next stage, or an answer.    *)
LEMMA OInvEarly ==
  ASSUME OInv, RestRequest \/ LocalRequest \/ GrpcRequest \/ Handle
  PROVE  OInv'
<1>1. /\ stage \in {"arrived", "decode", "handle"} /\ op \in Ops /\ next = 1 /\ tx = "none"
      /\ answers = {} /\ wrote = {} /\ counted = {} /\ background = {} /\ reply = "none"
  BY DEF RestRequest, LocalRequest, GrpcRequest, Handle, OInv, BeforeInv
<1>2. /\ UNCHANGED <<op, via, next, ctx, tx, background, code, answers, wrote, counted>>
      /\ \/ stage' \in {"decode", "handle", "calls"} /\ reply' = "none"
         \/ stage' = "replied" /\ reply' \in {"InvalidArgument", "Unauthenticated", "Internal"}
  BY <1>1 DEF RestRequest, LocalRequest, GrpcRequest, Handle, Answer, request, effects
<1>3. TypeOK'
  BY <1>2 DEF OInv, TypeOK, GrpcCode, ErrorCode
<1>4. BeforeInv' /\ BackInv' /\ ReturnInv'
  BY <1>1, <1>2 DEF BeforeInv, BackInv, Clean, ReturnInv
<1>5. CallsInv'
  <2>1. Past' = {}
    BY <1>1, <1>2 DEF Past
  <2>2. QED
    BY <1>1, <1>2, <2>1 DEF CallsInv, MadeAre, Begun
<1>6. CacheMetricsTrue'
  BY <1>1, <1>2 DEF CacheMetricsTrue, Answered
<1>7. OkMeansDone' /\ RefusalMeansUntouched' /\ UnknownSessionIsUnauthenticated' /\ Classified'
  BY <1>1, <1>2 DEF OkMeansDone, RefusalMeansUntouched, UnknownSessionIsUnauthenticated,
     Refusal, Classified, Answered
<1>8. QED
  BY <1>3, <1>4, <1>5, <1>6, <1>7 DEF OInv

LEMMA OInvContextEnds == ASSUME OInv, ContextEnds PROVE OInv'
<1>1. /\ ctx' \in {"Canceled", "DeadlineExceeded"} /\ stage # "replied" /\ reply = "none"
      /\ UNCHANGED <<stage, op, via, next, tx, background, code, reply, answers, wrote,
                     counted>>
  BY DEF ContextEnds, request, effects, OInv, BeforeInv
<1>2. TypeOK'
  BY <1>1 DEF OInv, TypeOK
<1>3. BeforeInv'
  BY <1>1 DEF OInv, BeforeInv
<1>4. CallsInv' /\ BackInv' /\ ReturnInv'
  <2>1. stage \in {"handle", "calls"}
    BY DEF ContextEnds
  <2>2. Past' = Past /\ Begun' = Begun /\ Unheeded' = Unheeded
    BY <1>1 DEF Past, Begun, Unheeded
  <2>3. CallsInv' /\ ReturnInv'
    BY <1>1, <2>1, <2>2 DEF OInv, CallsInv, MadeAre, ReturnInv
  <2>4. BackInv'
    BY <1>1, <2>1, <2>2 DEF OInv, BackInv
  <2>5. QED
    BY <2>3, <2>4
<1>5. CacheMetricsTrue'
  BY <1>1 DEF OInv, CacheMetricsTrue, Answered
<1>6. OkMeansDone' /\ RefusalMeansUntouched' /\ UnknownSessionIsUnauthenticated' /\ Classified'
  BY <1>1 DEF OkMeansDone, RefusalMeansUntouched, Refusal,
     UnknownSessionIsUnauthenticated, Classified
<1>7. QED
  BY <1>2, <1>3, <1>4, <1>5, <1>6 DEF OInv

LEMMA OInvReply == ASSUME OInv, Reply PROVE OInv'
<1>1. /\ stage = "return" /\ stage' = "replied" /\ reply' = ReplyCode(code) /\ code \in Code
      /\ UNCHANGED <<op, via, next, ctx, tx, background, code, answers, wrote, counted>>
  BY DEF Reply, Answer, request, effects, OInv, TypeOK
<1>2. PICK r \in GrpcCode : r = ReplyCode(code)
  BY <1>1, HandlerTranslates
<1>3. /\ r = "OK" => code = "nil"
      /\ r \in {"InvalidArgument", "Unauthenticated", "NotFound", "AlreadyExists"}
           => code \in Refusing
      /\ r = "Unknown" => code = "raw"
      /\ r = "NotFound" => code = "NotFound"
      /\ code = "InvalidArgument" => r = code
      /\ code \in {"Unauthenticated", "Canceled", "DeadlineExceeded"} => r = code
  BY <1>1, <1>2, HandlerTranslates
<1>4. ReturnInv /\ BackInv /\ BeforeInv /\ op \in Ops
  BY <1>1 DEF OInv, BeforeInv
<1>5. reply' = r
  BY <1>1, <1>2
<1>6. TypeOK'
  BY <1>1, <1>5 DEF OInv, TypeOK
<1>7. BeforeInv' /\ CallsInv' /\ ReturnInv'
  BY <1>1, <1>4 DEF BeforeInv, CallsInv, ReturnInv
<1>8. CacheMetricsTrue'
  BY <1>1 DEF OInv, CacheMetricsTrue, Answered
<1>9. OkMeansDone'
  <2>1. Unheeded' = Unheeded
    BY <1>1 DEF Unheeded
  <2>2. Made' = Made /\ \A raw \in Raw : Answered(raw)' = Answered(raw)
    BY <1>1 DEF Made, Answered
  <2>3. reply' = "OK" => Done
    BY <1>1, <1>3, <1>4, <1>5 DEF ReturnInv
  <2>4. QED
    BY <1>1, <2>1, <2>2, <2>3 DEF Done, OkMeansDone, Forgiven
<1>10. BackInv' /\ RefusalMeansUntouched' /\ Classified'
  <2>1. Unheeded' = Unheeded
    BY <1>1 DEF Unheeded
  <2>2. reply' \in Refusal => Clean(reply)'
    BY <1>1, <1>3, <1>4, <1>5 DEF ReturnInv, Refusal, Clean, Refusing
  <2>3. BackInv'
    BY <1>1, <1>4, <2>1, <2>2 DEF BackInv
  <2>4. RefusalMeansUntouched'
    BY <2>2 DEF RefusalMeansUntouched, Clean
  <2>5. Classified'
    BY <1>1, <1>3, <1>4, <1>5 DEF ReturnInv, Classified, Answered
  <2>6. QED
    BY <2>3, <2>4, <2>5
<1>11. UnknownSessionIsUnauthenticated'
  BY <1>1, <1>3, <1>4, <1>5 DEF ReturnInv, UnknownSessionIsUnauthenticated, Answered
<1>12. QED
  BY <1>6, <1>7, <1>8, <1>9, <1>10, <1>11 DEF OInv

(* A panic says nothing; but no unknown session lets a request come to it. *)
LEMMA OInvPanic == ASSUME OInv, CommitPanics PROVE OInv'
<1>1. /\ stage = "calls" /\ stage' = "replied" /\ reply' = "panic"
      /\ UNCHANGED <<op, via, next, ctx, tx, background, code, answers, wrote, counted>>
  BY DEF CommitPanics, Answer, request, effects
<1>2. MadeAre(Past, Begun) /\ op \in Ops /\ BackInv
  BY <1>1 DEF OInv, CallsInv, BeforeInv
<1>3. "GetSession" \notin Answered("absent")
  BY <1>2 DEF MadeAre, Begun, Answered, Raw, Forgiven, InTransaction
<1>4. TypeOK'
  BY <1>1 DEF OInv, TypeOK
<1>5. BeforeInv' /\ CallsInv' /\ BackInv' /\ ReturnInv'
  <2>1. Unheeded' = Unheeded
    BY <1>1 DEF Unheeded
  <2>2. QED
    BY <1>1, <1>2, <2>1 DEF BeforeInv, CallsInv, BackInv, Refusal, ReturnInv
<1>6. CacheMetricsTrue'
  BY <1>1 DEF OInv, CacheMetricsTrue, Answered
<1>7. OkMeansDone' /\ RefusalMeansUntouched' /\ Classified'
  BY <1>1 DEF OkMeansDone, RefusalMeansUntouched, Refusal, Classified
<1>8. UnknownSessionIsUnauthenticated'
  BY <1>1, <1>3 DEF UnknownSessionIsUnauthenticated, Answered
<1>9. QED
  BY <1>4, <1>5, <1>6, <1>7, <1>8 DEF OInv
(* The counter of hits and misses follows each call's answer.              *)
LEMMA MetricsDo ==
  ASSUME TypeOK, CacheMetricsTrue, NEW c \in Calls, NEW raw \in Raws(c),
         answers' = answers \cup {<<c, raw>>},
         counted' = counted \cup Count(c, RepositoryCode(c, raw)),
         UNCHANGED ctx
  PROVE  CacheMetricsTrue'
<1>1. ctx \in {"live", "Canceled", "DeadlineExceeded"}
  BY DEF TypeOK
<1>2. PICK e : e = RepositoryCode(c, raw)
  OBVIOUS
<1>3. /\ e = "nil" /\ raw # "nil" =>
           c \in Forgiven \/ (c \in InTransaction /\ raw = "swallowed")
      /\ e = "NotFound" => raw = "absent"
      /\ c \in Absent /\ raw = "absent" => e = IF ctx = "live" THEN "NotFound" ELSE ctx
  BY <1>1, <1>2, RepositoryTranslates
<1>4. raw = "absent" => c \in Absent
  BY DEF Raws
<1>5. ASSUME NEW d \in SessionCalls
      PROVE  /\ <<d, "hit">> \in counted' => d \in Answered("nil")'
             /\ <<d, "miss">> \in counted' => d \in Answered("absent")'
             /\ (d \in Answered("absent")' /\ ctx' = "live") => <<d, "miss">> \in counted'
  <2>1. CASE d # c
    <3>1. \A m : <<d, m>> \in counted' <=> <<d, m>> \in counted
      BY <2>1 DEF Count, UpdateMetrics, RegistrationMetrics
    <3>2. \A r : <<d, r>> \in answers' <=> <<d, r>> \in answers
      BY <2>1
    <3>3. QED
      BY <3>1, <3>2 DEF CacheMetricsTrue, Answered
  <2>2. CASE d = c
    <3>1. c \notin Forgiven /\ c \notin InTransaction
      BY <2>2 DEF SessionCalls, Forgiven, InTransaction
    <3>2. counted' = counted \cup UpdateMetrics(c, e)
      BY <1>2, <2>2 DEF Count, SessionCalls, RegistrationCalls
    <3>3. /\ <<c, "hit">> \in counted' => <<c, "hit">> \in counted \/ raw = "nil"
          /\ <<c, "miss">> \in counted' => <<c, "miss">> \in counted \/ raw = "absent"
          /\ raw = "absent" /\ ctx = "live" => <<c, "miss">> \in counted'
          /\ counted \subseteq counted'
      BY <1>3, <1>4, <3>1, <3>2 DEF UpdateMetrics
    <3>4. QED
      BY <2>2, <3>3 DEF CacheMetricsTrue, Answered
  <2>3. QED
    BY <2>1, <2>2
<1>6. QED
  BY <1>5 DEF CacheMetricsTrue

LEMMA OInvDo == ASSUME OInv, Do PROVE OInv'
<1>1. /\ TypeOK /\ CacheMetricsTrue /\ BackInv /\ stage = "calls" /\ op \in Ops
      /\ MadeAre(Past, Begun) /\ \A g \in background : GoCall(g) \in Begun
      /\ reply = "none"
  BY DEF Do, OInv, CallsInv, BeforeInv
<1>2. PICK c \in Calls, raw \in Raw, k \in Code :
        /\ raw \in Raws(c)
        /\ c = Program[op][next] /\ k = ServiceCode(c, RepositoryCode(c, raw))
        /\ stage = "calls" /\ (c = "Commit" => tx = "open")
        /\ answers' = answers \cup {<<c, raw>>}
        /\ wrote' = wrote \/ (c \in Writes /\ wrote' = wrote \cup {c})
        /\ counted' = counted \cup Count(c, RepositoryCode(c, raw))
        /\ tx' = IF c \in InTransaction /\ raw = "nil" THEN "open" ELSE tx
        /\ UNCHANGED <<op, via, ctx, reply>>
        /\ Ending(c, k)
  BY <1>1, DoIs
<1>3. ctx \in {"live", "Canceled", "DeadlineExceeded"} /\ tx \in {"none", "open"}
  BY <1>1 DEF TypeOK
<1>4. /\ raw \in Raw
      /\ k \in Refusing => c \in Refusers
      /\ k = "raw" => /\ c = "GenerateToken" /\ raw = "broken"
                      /\ op # "RequestChangePasswordToken"
      /\ c = "GetSession" /\ raw = "absent"
           => k \in {"Unauthenticated", "Canceled", "DeadlineExceeded"}
      /\ k = "NotFound" => /\ c \in {"GetAccount", "GetAccountByEmail", "GetAccountEmail"}
                           /\ raw = "absent"
      /\ c = "CheckIds" /\ k \in Refusing => k = "InvalidArgument"
  BY <1>2, <1>3, ServiceTranslates, RepositoryTranslates
<1>5. /\ DOMAIN Program[op] = 1..Len(Program[op]) /\ Len(Program[op]) \in Nat \ {0}
      /\ next \in 1..Len(Program[op])
      /\ WellOrdered(Program[op]) /\ Owned(op, Program[op])
  BY <1>1, ProgramFacts
<1>6. PICK P, U : P = Past \cup {c} /\ U = Begun
  OBVIOUS
<1>6a. /\ \A g \in background : GoCall(g) \in Unheeded
       /\ U \subseteq Unheeded /\ Unheeded' = Unheeded
       /\ U \subseteq {"SetSession"}
  <2>1. Unheeded' = Unheeded
    BY <1>2 DEF Unheeded
  <2>2. U \subseteq Unheeded /\ U \subseteq {"SetSession"}
    <3>1. CASE U = {}
      BY <3>1
    <3>2. CASE U # {}
      BY <1>6, <3>2 DEF Begun, Unheeded, Updating
    <3>3. QED
      BY <3>1, <3>2
  <2>3. QED
    BY <1>1, <2>1, <2>2 DEF BackInv
<1>7. k = "nil" => MadeAre(P, U)'
  BY <1>1, <1>2, <1>6, MadeGrows
<1>8. P = {Program[op][i] : i \in 1..next}
  BY <1>2, <1>5, <1>6 DEF Past
<1>9. c \in Refusers => \/ wrote' = {} /\ background = {}
                        \/ /\ op = "TerminateSessions" /\ c = "CheckIds"
                           /\ wrote' \subseteq {"SetSession"}
  BY <1>1, <1>2, RefusedUnwritten
<1>10. "GetSession" \notin Answered("absent")
  BY <1>1 DEF MadeAre, Begun, Answered, Raw, Forgiven, InTransaction
<1>11. k = "nil" => "GetSession" \notin Answered("absent")'
  <2> SUFFICES ASSUME k = "nil", "GetSession" \in Calls,
                      <<"GetSession", "absent">> \in answers'
               PROVE  FALSE
    BY DEF Answered
  <2>1. "GetSession" \in Forgiven \cup U \/ "GetSession" \in InTransaction
    BY <1>7 DEF MadeAre, Raw
  <2>2. QED
    BY <1>6a, <2>1 DEF Forgiven, InTransaction
<1>12. /\ stage' \in {"calls", "return"} /\ next' \in 1..Len(Program[op])
       /\ code' \in Code
  <2>1. Refusals(c) \subseteq Code
    BY ServiceRefuses DEF Refusing, Code, ErrorCode
  <2>2. QED
    BY <1>1, <1>2, <1>5, <2>1 DEF Ending, TypeOK, Code, ErrorCode
<1>13. TypeOK'
  <2>1. counted' \in SUBSET (Calls \X {"hit", "miss"})
    BY <1>1, <1>2 DEF TypeOK, Count, UpdateMetrics, RegistrationMetrics
  <2>2. answers' \in SUBSET (Calls \X Raw) /\ wrote' \in SUBSET Writes
    BY <1>1, <1>2, <1>4 DEF TypeOK
  <2>3. background' \in SUBSET Goroutines
    <3>1. \A started \in Started(c) : started \subseteq Goroutines
      BY <1>1, <1>2, StartedIs
    <3>2. QED
      BY <1>1, <1>2, <3>1 DEF Ending, TypeOK
  <2>4. QED
    BY <1>1, <1>2, <1>3, <1>5, <1>12, <2>1, <2>2, <2>3 DEF TypeOK
<1>14. BeforeInv'
  BY <1>1, <1>2, <1>12 DEF BeforeInv
<1>15. CallsInv'
  <2> SUFFICES ASSUME stage' = "calls"
               PROVE  /\ MadeAre(Past, Begun)'
                      /\ \A g \in background' : GoCall(g) \in Begun'
    BY DEF CallsInv
  <2>1. k = "nil" /\ next' = next + 1 /\ next < Len(Program[op])
    BY <1>2 DEF Ending
  <2>2. Past' = P
    BY <1>2, <1>5, <1>8, <2>1 DEF Past
  <2>3. U \subseteq Begun' /\ Begun' = IF op \in Updating THEN {"SetSession"} ELSE {}
    BY <1>2, <1>5, <1>6, <2>1 DEF Begun
  <2>4. MadeAre(P, Begun)'
    BY <1>7, <2>1, <2>3 DEF MadeAre
  <2>5. ASSUME NEW g \in background' PROVE GoCall(g) \in Begun'
    <3>1. CASE g \in background
      BY <1>1, <1>6, <2>3, <3>1
    <3>2. CASE g \notin background
      <4>1. PICK started \in Started(c) : g \in started
        BY <1>2, <2>1, <2>5, <3>2 DEF Ending
      <4>2. \/ op \in Updating /\ GoCall(g) = "SetSession"
            \/ op = "DeleteAccount" /\ next = Len(Program[op])
        BY <1>1, <1>2, <4>1, StartedIs
      <4>3. QED
        BY <1>5, <2>1, <2>3, <4>2
    <3>3. QED
      BY <3>1, <3>2
  <2>6. QED
    BY <2>2, <2>4, <2>5 DEF MadeAre
<1>15a. BackInv'
  <2>1. stage' # "replied"
    BY <1>12
  <2>2. ASSUME NEW g \in background' PROVE GoCall(g) \in Unheeded
    <3>1. CASE g \in background
      BY <1>6a, <3>1
    <3>2. CASE g \notin background
      <4>1. PICK started \in Started(c) : g \in started
        BY <1>2, <2>2, <3>2 DEF Ending
      <4>2. QED
        BY <1>1, <1>2, <4>1, StartedIs
    <3>3. QED
      BY <3>1, <3>2
  <2>3. QED
    BY <1>6a, <2>1, <2>2 DEF BackInv
<1>16. ReturnInv'
  <2> SUFFICES ASSUME stage' = "return" PROVE ReturnInv'
    BY DEF ReturnInv
  <2>1. CASE /\ k = "nil"
             /\ \/ next = Len(Program[op]) /\ code' = "nil"
                \/ c = "removeNonexistantKeys" /\ code' \in {"nil", "Canceled", "DeadlineExceeded"}
    <3>1. \A i \in DOMAIN Program[op] : Program[op][i] \in P \cup {"DelKeys"}
      BY <1>2, <1>5, <1>8, <2>1 DEF WellOrdered
    <3>2. P \subseteq Made'
      <4>1. P \subseteq Calls
        BY <1>1, <1>5, <1>8, ProgramFacts
      <4>2. ASSUME NEW d \in P PROVE \E r \in Raw : d \in Answered(r)'
        BY <1>7, <2>1, <4>1 DEF MadeAre, Answered
      <4>3. QED
        BY <4>2 DEF Made
    <3>3. \A d \in P : d \in InTransaction => tx' = "open"
      <4> SUFFICES ASSUME NEW i \in 1..next, Program[op][i] \in InTransaction
                   PROVE  tx' = "open"
        BY <1>8
      <4>1. c # "removeNonexistantKeys"
        BY <1>2, <1>5 DEF WellOrdered
      <4>2. PICK j \in DOMAIN Program[op] : Program[op][j] = "Commit"
        BY <1>5 DEF WellOrdered
      <4>3. "Commit" \in P
        BY <1>5, <1>8, <2>1, <4>1, <4>2
      <4>4. QED
        BY <1>7, <2>1, <4>3 DEF MadeAre
    <3>4. ASSUME NEW r \in Raw \ {"nil"} PROVE Answered(r)' \subseteq Forgiven \cup Unheeded
      <4>1. \A d \in Calls : <<d, r>> \in answers' =>
              /\ d \in P \cup U
              /\ d \in Forgiven \cup U \/ (d \in InTransaction /\ tx' = "none")
        BY <1>7, <2>1, <3>4 DEF MadeAre
      <4>2. QED
        BY <1>6a, <3>3, <4>1 DEF Answered
    <3>5. Done'
      BY <1>2, <1>6a, <3>1, <3>2, <3>4 DEF Done
    <3>6. QED
      BY <1>11, <2>1, <3>5 DEF ReturnInv, Refusing
  <2>2. CASE k = "nil" /\ code' \in Refusals(c) /\ background' = background
    <3>1. /\ code' \in Refusing /\ c \in Refusers /\ c # "CheckIds"
          /\ code' = "NotFound" => op \notin SessionOps
      BY <2>2, ServiceRefuses
    <3>2. Clean(code)'
      BY <1>9, <2>2, <3>1 DEF Clean
    <3>3. QED
      BY <1>2, <1>11, <2>2, <3>1, <3>2 DEF ReturnInv, Refusing
  <2>3. CASE k # "nil" /\ code' = k /\ background' = background
    <3>1. code' \in Refusing => Clean(code)'
      BY <1>2, <1>4, <1>9, <2>3 DEF Clean
    <3>2. code' = "raw" => /\ op' = "RequestAccountVerificationToken"
                           /\ "GenerateToken" \in Answered("broken")'
      BY <1>2, <1>4, <1>5, <2>3 DEF Owned, Answered
    <3>3. "GetSession" \in Answered("absent")'
            => code' \in {"Unauthenticated", "Canceled", "DeadlineExceeded"}
      BY <1>2, <1>4, <1>10, <2>3 DEF Answered
    <3>4. (code' = "NotFound" /\ op' \in SessionOps) => "GetAccountEmail" \in Answered("absent")'
      BY <1>2, <1>4, <1>5, <2>3 DEF Owned, Answered
    <3>5. QED
      BY <2>3, <3>1, <3>2, <3>3, <3>4 DEF ReturnInv
  <2>4. QED
    BY <1>2, <2>1, <2>2, <2>3 DEF Ending
<1>17. CacheMetricsTrue'
  BY <1>1, <1>2, MetricsDo
<1>18. OkMeansDone' /\ RefusalMeansUntouched' /\ UnknownSessionIsUnauthenticated' /\ Classified'
  BY <1>1, <1>2, <1>12 DEF OkMeansDone, RefusalMeansUntouched, Refusal,
     UnknownSessionIsUnauthenticated, Classified
<1>19. QED
  BY <1>13, <1>14, <1>15, <1>15a, <1>16, <1>17, <1>18 DEF OInv

(* A goroutine's step disturbs what is said of the calls and of the writes, *)
(* but only by a call that Unheeded names.                                 *)
LEMMA OInvBackground == ASSUME OInv, Background PROVE OInv'
<1>1. PICK g \in background, raw \in {"nil", "broken"} :
        /\ answers' = answers \cup {<<GoCall(g), raw>>}
        /\ TakesEffect(GoCall(g), raw)
        /\ counted' = counted \cup
             Count(GoCall(g), IF raw = "nil" THEN "nil" ELSE "Internal")
        /\ background' \in {background, background \ {g}}
  BY DEF Background
<1>2. UNCHANGED <<stage, op, via, next, ctx, tx, code, reply>>
  BY DEF Background, request
<1>3. /\ TypeOK /\ BeforeInv /\ CallsInv /\ BackInv /\ ReturnInv /\ OkMeansDone
      /\ RefusalMeansUntouched /\ UnknownSessionIsUnauthenticated /\ Classified
      /\ CacheMetricsTrue
  BY DEF OInv
<1>4. PICK c : c = GoCall(g)
  OBVIOUS
<1>5. c \in Calls /\ c \in Writes /\ c \in {"SetSession", "TerminateAllSessions"}
  <2>1. g \in Goroutines
    BY <1>3 DEF TypeOK
  <2>2. QED
    BY <1>4, <2>1 DEF Calls, Writes, GoCall
<1>6. /\ c \in Unheeded /\ Unheeded' = Unheeded
      /\ wrote' \in {wrote, wrote \cup {c}}
      /\ answers' = answers \cup {<<c, raw>>} /\ raw \in Raw
  BY <1>1, <1>2, <1>3, <1>4 DEF BackInv, Unheeded, TakesEffect, Raw
<1>7. TypeOK'
  <2>1. counted' \in SUBSET (Calls \X {"hit", "miss"})
    BY <1>1, <1>3, <1>4, <1>5 DEF TypeOK, Count, UpdateMetrics, RegistrationMetrics
  <2>2. answers' \in SUBSET (Calls \X Raw) /\ wrote' \in SUBSET Writes
    BY <1>3, <1>5, <1>6 DEF TypeOK
  <2>3. QED
    BY <1>1, <1>2, <1>3, <2>1, <2>2 DEF TypeOK
<1>8. BeforeInv'
  BY <1>1, <1>2, <1>3 DEF BeforeInv
<1>9. CallsInv'
  <2> SUFFICES ASSUME stage = "calls" PROVE CallsInv'
    BY <1>2 DEF CallsInv
  <2>1. /\ MadeAre(Past, Begun) /\ c \in Begun /\ Past' = Past /\ Begun' = Begun
        /\ \A h \in background : GoCall(h) \in Begun
    BY <1>1, <1>2, <1>3, <1>4 DEF CallsInv, Past, Begun
  <2>2. MadeAre(Past, Begun)'
    BY <1>2, <1>6, <2>1 DEF MadeAre
  <2>3. QED
    BY <1>1, <2>1, <2>2 DEF CallsInv
<1>10. ASSUME NEW k PROVE Clean(k) => Clean(k)'
  <2>1. op = "TerminateSessions" => c = "SetSession"
    BY <1>6 DEF Unheeded, Updating
  <2>2. background # {}
    BY <1>1
  <2>3. QED
    BY <1>2, <1>6, <2>1, <2>2 DEF Clean
<1>11. BackInv'
  BY <1>1, <1>2, <1>3, <1>6, <1>10 DEF BackInv, Clean
<1>12. /\ \A r \in Raw : Answered(r) \subseteq Answered(r)'
       /\ \A r \in Raw : Answered(r)' \subseteq Answered(r) \cup {c}
       /\ Answered("absent")' = Answered("absent")
  BY <1>1, <1>6 DEF Answered
<1>13. Made \subseteq Made'
  BY <1>12 DEF Made
<1>14. Done => Done'
  BY <1>2, <1>6, <1>12, <1>13 DEF Done
<1>15. ReturnInv'
  <2>1. "broken" \in Raw
    BY DEF Raw
  <2>2. QED
    BY <1>2, <1>3, <1>10, <1>12, <1>14, <2>1 DEF ReturnInv, Clean
<1>16. OkMeansDone'
  BY <1>2, <1>3, <1>6, <1>12, <1>13 DEF OkMeansDone
<1>17. RefusalMeansUntouched'
  BY <1>2, <1>3, <1>11 DEF BeforeInv, BackInv, Clean, RefusalMeansUntouched, Refusal
<1>18. UnknownSessionIsUnauthenticated' /\ Classified'
  <2>1. "broken" \in Raw
    BY DEF Raw
  <2>2. QED
    BY <1>2, <1>3, <1>12, <2>1 DEF UnknownSessionIsUnauthenticated, Classified
<1>19. CacheMetricsTrue'
  <2>1. counted' = counted \cup IF c = "SetSession" /\ raw = "nil"
                                THEN {<<c, "hit">>} ELSE {}
    BY <1>1, <1>4, <1>5 DEF Count, SessionCalls, RegistrationCalls, UpdateMetrics
  <2>2. QED
    BY <1>2, <1>3, <1>5, <1>6, <1>12, <2>1 DEF CacheMetricsTrue, Answered
<1>20. QED
  BY <1>7, <1>8, <1>9, <1>11, <1>15, <1>16, <1>17, <1>18, <1>19 DEF OInv

LEMMA OInvNext == OInv /\ [Next]_vars => OInv'
<1> SUFFICES ASSUME OInv, [Next]_vars PROVE OInv'
  OBVIOUS
<1>1. CASE UNCHANGED vars
  <2>1. UNCHANGED <<stage, op, via, next, ctx, tx, background, code, reply, answers, wrote,
                    counted>>
    BY <1>1 DEF vars
  <2>2. Past' = Past /\ Made' = Made /\ Begun' = Begun /\ Unheeded' = Unheeded
    BY <2>1 DEF Past, Made, Answered, Begun, Unheeded
  <2>3. TypeOK' /\ BeforeInv'
    BY <2>1 DEF OInv, TypeOK, BeforeInv
  <2>4. CallsInv' /\ BackInv' /\ ReturnInv'
    BY <2>1, <2>2 DEF OInv, CallsInv, MadeAre, BackInv, Clean, ReturnInv, Done, Answered
  <2>5. OkMeansDone' /\ RefusalMeansUntouched' /\ Classified'
    BY <2>1, <2>2 DEF OInv, OkMeansDone, RefusalMeansUntouched, Classified, Answered
  <2>6. UnknownSessionIsUnauthenticated' /\ CacheMetricsTrue'
    BY <2>1 DEF OInv, UnknownSessionIsUnauthenticated, CacheMetricsTrue, Answered
  <2>7. QED
    BY <2>3, <2>4, <2>5, <2>6 DEF OInv
<1>2. CASE RestRequest \/ LocalRequest \/ GrpcRequest \/ Handle
  BY <1>2, OInvEarly
<1>3. CASE Arrive \/ ContextEnds \/ Do \/ Background \/ CommitPanics \/ Reply
  BY <1>3, OInvArrive, OInvContextEnds, OInvDo, OInvBackground, OInvPanic, OInvReply
<1>4. QED
  BY <1>1, <1>2, <1>3 DEF Next

LEMMA OInvAlways == Spec => []OInv
BY OInvInit, OInvNext, PTL DEF Spec

-----------------------------------------------------------------------------
(* The theorems.                                                           *)

(* Every variable has its type: in particular no code of the service and   *)
(* no error of a library gets out as a reply, through any of the three     *)
(* translations.                                                           *)
THEOREM RepliesAreCodes == Spec => []TypeOK
<1>1. OInv => TypeOK
  BY DEF OInv
<1>2. QED
  BY <1>1, OInvAlways, PTL

(* A client that is told OK had every call of its operation made, and each *)
(* of them succeeded but for the three whose errors the code drops and for *)
(* what a goroutine does; no early return and no error a Rollback          *)
(* swallowed leads to OK otherwise.                                        *)
THEOREM OkIsDone == Spec => []OkMeansDone
<1>1. OInv => OkMeansDone
  BY DEF OInv
<1>2. QED
  BY <1>1, OInvAlways, PTL

(* A client that is told its request was at fault left nothing changed,    *)
(* and started nothing that will change anything: the calls that can say   *)
(* so come before the first that writes, and before the goroutines, except *)
(* that TerminateSessions renews the session before it looks at the ids.   *)
THEOREM RefusalsAreClean == Spec => []RefusalMeansUntouched
<1>1. OInv => RefusalMeansUntouched
  BY DEF OInv
<1>2. QED
  BY <1>1, OInvAlways, PTL

(* A session that is not there is told as Unauthenticated, unless the      *)
(* request's context was over, and NotFound is left to the account.        *)
THEOREM UnknownSessionsAreTold == Spec => []UnknownSessionIsUnauthenticated
<1>1. OInv => UnknownSessionIsUnauthenticated
  BY DEF OInv
<1>2. QED
  BY <1>1, OInvAlways, PTL

(* Unknown is told for one error only, a verification token that could not *)
(* be signed: every other one is made a models.Error on its way up.        *)
THEOREM ErrorsKeepMeaning == Spec => []Classified
<1>1. OInv => Classified
  BY DEF OInv
<1>2. QED
  BY <1>1, OInvAlways, PTL

(* The counter of the cache tells a session found from one not found and   *)
(* both from a failure, also when the context ends between the calls.      *)
THEOREM CacheCountsTrue == Spec => []CacheMetricsTrue
<1>1. OInv => CacheMetricsTrue
  BY DEF OInv
<1>2. QED
  BY <1>1, OInvAlways, PTL
=============================================================================
