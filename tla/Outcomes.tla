------------------------------ MODULE Outcomes ------------------------------
(***************************************************************************)
(* What a client is told. One request goes from the gateway or the gRPC    *)
(* server through its handler and the service to the calls of the          *)
(* repositories and of Kafka, and the error of the first call that stops   *)
(* it comes back through three translations: handleError of the repository *)
(* or writer, the service's own, and handleError of the handler.           *)
(*                                                                         *)
(* Some operations also start goroutines, which nobody waits for: they run *)
(* beside the request and after its reply, in a context of their own.      *)
(*                                                                         *)
(* What the stores hold is in Sessions, Registration and Accounts. Here a  *)
(* call has any answer its store can give, whatever was answered before.   *)
(***************************************************************************)
EXTENDS Naturals, Sequences

VARIABLES
  stage,    \* how far the request is
  op, via,  \* its operation, and whether it came by "grpc" or by "rest"
  next,     \* the call to make next, an index into Program[op]
  ctx,      \* its context: "live", or why it is over
  tx,       \* the transaction a repository returned, "open" or "none"
  background, \* the goroutines started and not ended, by where they started
  code,     \* what the service returned
  reply,    \* what the client is told
  answers,  \* history: the calls made, with what their store answered
  wrote,    \* history: the calls that took effect
  counted   \* history: the cache hits and misses the calls counted

request == <<op, via>>
effects == <<background, answers, wrote, counted>>
vars == <<stage, op, via, next, ctx, tx, background, code, reply, answers, wrote,
          counted>>

(* models.ErrorCode; "nil" is no error, "raw" an error that was not made   *)
(* by models.Error.                                                        *)
ErrorCode == {"Internal", "InvalidArgument", "Unauthenticated", "Conflict",
              "NotFound", "Canceled", "DeadlineExceeded", "PermissionDenied"}
Code == ErrorCode \cup {"nil", "raw"}

GrpcCode == (ErrorCode \ {"Conflict"}) \cup {"OK", "AlreadyExists", "Unknown"}

-----------------------------------------------------------------------------
(* The calls each operation makes, in order, when nothing stops it.        *)

CreateAccount ==
  <<"IsAccountWithEmailExist", "IsAccountExist", "GenerateFromPassword", "SetAccount">>

RequestAccountVerificationToken ==
  <<"IsAccountWithEmailExist", "IsAccountExist", "GenerateToken", "DeliverToken">>

VerifyAccount ==
  <<"ParseToken", "GetAccount", "CreateAccount", "Commit", "AccountCreated",
    "DeleteRegistration">>

SignIn == <<"GetAccountByEmail", "CompareHashAndPassword", "SetSession">>

GetAccountID == <<"GetSession", "SetHeader">>

(* The repository's TerminateSessions.                                     *)
Terminate == <<"removeNonexistantKeys", "DelKeys">>

Logout == <<"GetSession">> \o Terminate

RequestChangePasswordToken ==
  <<"IsAccountWithEmailExist", "GenerateToken", "DeliverToken">>

ChangePassword ==
  <<"ParseToken", "IsAccountWithEmailExist", "GenerateFromPassword", "ChangePassword">>

GetAllSessions == <<"GetSession", "SMembers", "MGet">>

TerminateSessions == <<"GetSession", "CheckIds">> \o Terminate

DeleteAccount ==
  <<"GetSession", "GetAccountEmail", "DeleteAccount", "AccountDeleted", "Commit">>

(* AccountsServiceV1_ServiceDesc: the operations and what serves them.     *)
Program == [CreateAccount |-> CreateAccount,
            DeleteAccount |-> DeleteAccount,
            RequestAccountVerificationToken |-> RequestAccountVerificationToken,
            VerifyAccount |-> VerifyAccount,
            SignIn |-> SignIn,
            GetAccountID |-> GetAccountID,
            Logout |-> Logout,
            RequestChangePasswordToken |-> RequestChangePasswordToken,
            ChangePassword |-> ChangePassword,
            GetAllSessions |-> GetAllSessions,
            TerminateSessions |-> TerminateSessions]

Ops == DOMAIN Program

(* The goroutines, named for the functions with their `go` statement, and  *)
(* the repository call each makes.                                         *)
Goroutines == {"checkAndUpdateSession", "TerminateSessions", "DeleteAccount"}
GoCall(g) == IF g = "DeleteAccount" THEN "TerminateAllSessions" ELSE "SetSession"

Calls == (UNION {{Program[o][i] : i \in DOMAIN Program[o]} : o \in Ops})
         \cup {GoCall(g) : g \in Goroutines}

(* Calls that change what outlives the request. What CreateAccount and     *)
(* DeleteAccount do in their transaction takes effect with its Commit.     *)
Writes == {"SetAccount", "DeliverToken", "Commit", "AccountCreated",
           "DeleteRegistration", "SetSession", "removeNonexistantKeys",
           "DelKeys", "ChangePassword", "AccountDeleted", "TerminateAllSessions"}

InProcess == {"GenerateFromPassword", "CompareHashAndPassword", "ParseToken",
              "GenerateToken"}

-----------------------------------------------------------------------------
(* What a store or a library answers: "nil" for success, "absent" for      *)
(* redis.Nil and sql.ErrNoRows, "broken" for every other error, or a code  *)
(* the repository chose. "swallowed": a statement failed and the Rollback  *)
(* whose result replaced its error did not.                                *)

Absent == {"GetAccount", "GetAccountByEmail", "GetSession", "GetAccountEmail"}
InTransaction == {"CreateAccount", "DeleteAccount"}

Raws(c) == IF c = "CheckIds" THEN {"nil", "InvalidArgument"}
           ELSE {"nil", "broken"}
                \cup (IF c \in Absent THEN {"absent"} ELSE {})
                \cup (IF c \in InTransaction THEN {"swallowed"} ELSE {})

Raw == {"nil", "absent", "broken", "swallowed", "InvalidArgument"}

-----------------------------------------------------------------------------
(* The first translation.                                                  *)

(* Mutants: one more error that `return nil` drops.                        *)
DroppedMore == {"SetAccount", "SetSession"}

(* The repository has an error and returns nil.                            *)
Dropped == {"SetAccount"}

ContextError == ctx

(* The redis repositories and the accounts repository; the writers of      *)
(* internal/events differ in having no answer "absent".                    *)
HandleError(raw) ==
  CASE ctx # "live" -> ContextError
    [] ctx = "live" /\ raw \in {"nil", "swallowed"} -> "nil"
    [] ctx = "live" /\ raw = "absent" -> "NotFound"
    [] ctx = "live" /\ raw = "broken" -> "Internal"
    [] OTHER -> raw

(* Calls whose success handleError does not see: IsAccountWithEmailExist   *)
(* has it only for a query that failed, the others come before the end of  *)
(* their method.                                                           *)
SuccessUnseen == {"IsAccountWithEmailExist", "CheckIds", "SMembers"}

(* Commit and what runs in the process have no such translation; grpc.     *)
(* SetHeader fails with a status of its own; TerminateSessions goes by the *)
(* ids removeNonexistantKeys returned and not by its error.                *)
RepositoryCode(c, raw) ==
  CASE c \in Dropped -> HandleError("nil")
    [] c \in InProcess \cup {"Commit"} -> IF raw = "nil" THEN "nil" ELSE "raw"
    [] c = "SetHeader" -> IF raw = "nil" THEN "nil" ELSE "Internal"
    [] c \in SuccessUnseen /\ raw = "nil" -> "nil"
    [] c = "removeNonexistantKeys" -> "nil"
    [] OTHER -> HandleError(raw)

-----------------------------------------------------------------------------
(* The second translation, by the service.                                 *)

(* Mutant: the error of GetSession is handed on.                           *)
CheckSessionUntranslated(e) == e

CheckSession(e) == IF e = "NotFound" THEN "Unauthenticated" ELSE e

(* RequestAccountVerificationToken returns the error of GenerateToken as   *)
(* it is; createAccount logs the error of DeleteAccount and goes on.       *)
ServiceCode(c, e) ==
  CASE e = "nil" \/ c = "DeleteRegistration" -> "nil"
    [] c \in {"GenerateFromPassword", "Commit", "AccountCreated"} -> "Internal"
    [] c \in {"ParseToken", "CompareHashAndPassword"} -> "InvalidArgument"
    [] c = "GenerateToken" /\ op = "RequestChangePasswordToken" -> "Internal"
    [] c = "GetSession" -> CheckSession(e)
    [] OTHER -> e

(* What the service makes of an answer it cannot go on with.               *)
Refusals(c) ==
  CASE op = "CreateAccount" /\ c \in {"IsAccountWithEmailExist", "IsAccountExist"}
         -> {"Conflict"}
    [] op = "RequestAccountVerificationToken" /\ c = "IsAccountWithEmailExist"
         -> {"InvalidArgument"}
    [] op = "RequestAccountVerificationToken" /\ c = "IsAccountExist"
         -> {"NotFound"}
    [] op \in {"RequestChangePasswordToken", "ChangePassword"}
         /\ c = "IsAccountWithEmailExist"
         -> {"NotFound"}
    [] c = "GetSession" -> {"Unauthenticated"}
    [] OTHER -> {}

-----------------------------------------------------------------------------
(* The third translation, by the handler.                                  *)

(* Mutant: the case of Conflict is missing.                                *)
ConvertWithoutConflict(e) ==
  IF e \in ErrorCode \ {"Conflict"} THEN e ELSE "Unknown"

ConvertServiceErrCodeToGrpc(e) ==
  CASE e = "Conflict" -> "AlreadyExists"
    [] e \in ErrorCode \ {"Conflict"} -> e
    [] OTHER -> "Unknown"

(* Mutant: the handler returns the service's error.                        *)
ReplyCodeUntranslated(e) == e

(* handleError; an error without a code becomes Unknown.                   *)
ReplyCode(e) == IF e = "nil" THEN "OK" ELSE ConvertServiceErrCodeToGrpc(e)

-----------------------------------------------------------------------------
(* Metrics of the cache.                                                   *)

(* Mutant: the error is read when `defer` is evaluated.                    *)
UpdateMetricsEarly(c, e) == {<<c, "hit">>}

UpdateMetrics(c, e) == CASE e = "nil" -> {<<c, "hit">>}
                         [] e = "NotFound" -> {<<c, "miss">>}
                         [] OTHER -> {}

(* The registration repository hands updateMetrics its error by value, so  *)
(* it always counts a hit.                                                 *)
RegistrationCalls == {"IsAccountExist", "SetAccount", "GetAccount", "DeleteRegistration"}
RegistrationMetrics(c) == {<<c, "hit">>}

(* Of the sessions repository the methods that are one command or one      *)
(* pipeline; the others count in the same way.                             *)
SessionCalls == {"GetSession", "SetSession"}

Count(c, e) == CASE c \in SessionCalls -> UpdateMetrics(c, e)
                 [] c \in RegistrationCalls -> RegistrationMetrics(c)
                 [] OTHER -> {}

-----------------------------------------------------------------------------
(* A request arrives and is decoded. What the goroutines of an earlier one *)
(* still do is no part of it.                                              *)

Arrive ==
  /\ stage \in {"idle", "replied"}
  /\ op' \in Ops /\ via' \in {"grpc", "rest"}
  /\ stage' = "arrived" /\ next' = 1 /\ ctx' = "live" /\ tx' = "none"
  /\ code' = "nil" /\ reply' = "none" /\ background' = {}
  /\ answers' = {} /\ wrote' = {} /\ counted' = {}

Answer(r) == stage' = "replied" /\ reply' = r

(* Where the gateway takes the fields of a request from; the others have   *)
(* none. The path of VerifyAccount holds its token.                        *)
FromPath == {"VerifyAccount"}
FromBody == {"CreateAccount", "VerifyAccount", "SignIn", "ChangePassword",
             "TerminateSessions"}
FromQuery == {"RequestAccountVerificationToken", "RequestChangePasswordToken"}

(* AnnotateIncomingContext, which fails for a header it cannot read.       *)
RestRequest ==
  /\ stage = "arrived" /\ via = "rest"
  /\ \/ stage' = "decode" /\ UNCHANGED reply
     \/ Answer("InvalidArgument")
  /\ UNCHANGED <<request, next, ctx, tx, code, effects>>

(* The local_request functions: they decode and call the handler.          *)
LocalRequest ==
  /\ stage = "decode"
  /\ \/ stage' = "handle" /\ UNCHANGED reply
     \/ op \in FromPath \cup FromBody \cup FromQuery /\ Answer("InvalidArgument")
  /\ UNCHANGED <<request, next, ctx, tx, code, effects>>

(* The codec of grpc-go fails with Internal.                               *)
GrpcRequest ==
  /\ stage = "arrived" /\ via = "grpc"
  /\ \/ stage' = "handle" /\ UNCHANGED reply
     \/ Answer("Internal")
  /\ UNCHANGED <<request, next, ctx, tx, code, effects>>

(* The client goes away, or its deadline passes.                           *)
ContextEnds == /\ stage \in {"handle", "calls"} /\ ctx = "live"
               /\ ctx' \in {"Canceled", "DeadlineExceeded"}
               /\ UNCHANGED <<stage, request, next, tx, code, reply, effects>>

-----------------------------------------------------------------------------
(* The handler.                                                            *)

(* The operations whose fields are validated: lengths, the form of an      *)
(* email, equal passwords, the client's IP address.                        *)
Validated == {"CreateAccount", "RequestAccountVerificationToken", "SignIn",
              "ChangePassword"}

(* The operations that read X-Session-Id, X-Machine-Id or both.            *)
SessionOps == {"GetAccountID", "Logout", "GetAllSessions", "TerminateSessions",
               "DeleteAccount"}
ReadHeaders == SessionOps \cup {"SignIn"}

Handle ==
  /\ stage = "handle"
  /\ \/ stage' = "calls" /\ UNCHANGED reply
     \/ op \in Validated /\ Answer("InvalidArgument")
     \/ op \in ReadHeaders /\ Answer("Unauthenticated")
  /\ UNCHANGED <<request, next, ctx, tx, code, effects>>

-----------------------------------------------------------------------------
(* The service and its calls.                                              *)

(* Mutant: Logout and DeleteAccount use it too.                            *)
UpdatingAll == SessionOps

(* The operations that use checkAndUpdateSession.                          *)
Updating == {"GetAccountID", "GetAllSessions", "TerminateSessions"}

(* The goroutines the service starts when it goes on from a call.          *)
(* TerminateSessions starts a second update unless it ends its own session.*)
Started(c) ==
  CASE c = "GetSession" /\ op = "TerminateSessions"
         -> {{"checkAndUpdateSession"}, {"checkAndUpdateSession", "TerminateSessions"}}
    [] c = "GetSession" /\ op \in Updating \ {"TerminateSessions"}
         -> {{"checkAndUpdateSession"}}
    [] c = "Commit" /\ op = "DeleteAccount" -> {{"DeleteAccount"}}
    [] OTHER -> {{}}

Return(e) == stage' = "return" /\ code' = e /\ UNCHANGED next

GoOn(c) == /\ \E started \in Started(c) : background' = background \cup started
           /\ IF next = Len(Program[op]) THEN Return("nil")
              ELSE next' = next + 1 /\ UNCHANGED <<stage, code>>

(* removeNonexistantKeys leaves nothing to delete when it pruned the list, *)
(* and when it failed.                                                     *)
GoesOn(c, raw) ==
  \/ ~(c = "removeNonexistantKeys" /\ raw # "nil") /\ GoOn(c)
  \/ c = "removeNonexistantKeys" /\ Return(HandleError("nil")) /\ UNCHANGED background
  \/ \E e \in Refusals(c) : Return(e) /\ UNCHANGED background

(* These write nothing when there is nothing to remove.                    *)
MayFindNothing == {"removeNonexistantKeys", "DelKeys", "TerminateAllSessions"}

(* A failed write may have taken effect.                                   *)
TakesEffect(c, raw) ==
  \/ c \in Writes /\ wrote' = wrote \cup {c}
  \/ (c \in Writes => raw # "nil" \/ c \in MayFindNothing) /\ wrote' = wrote

Do ==
  LET c == Program[op][next]
  IN /\ stage = "calls" /\ ~(c = "Commit" /\ tx = "none")
     /\ \E raw \in Raws(c) :
          LET e == RepositoryCode(c, raw)
          IN /\ answers' = answers \cup {<<c, raw>>}
             /\ TakesEffect(c, raw)
             /\ counted' = counted \cup Count(c, e)
             /\ tx' = IF c \in InTransaction /\ raw = "nil" THEN "open" ELSE tx
             /\ IF ServiceCode(c, e) = "nil" THEN GoesOn(c, raw)
                ELSE Return(ServiceCode(c, e)) /\ UNCHANGED background
     /\ UNCHANGED <<request, ctx, reply>>

(* A goroutine makes its call, in context.Background, and ends; its error  *)
(* is at most logged. The one of DeleteAccount may try once more.          *)
Background ==
  /\ \E g \in background, raw \in {"nil", "broken"} :
       LET c == GoCall(g)
       IN /\ answers' = answers \cup {<<c, raw>>}
          /\ TakesEffect(c, raw)
          /\ counted' = counted \cup Count(c, IF raw = "nil" THEN "nil" ELSE "Internal")
          /\ \/ background' = background \ {g}
             \/ g = "DeleteAccount" /\ raw = "broken" /\ UNCHANGED background
  /\ UNCHANGED <<stage, request, next, ctx, tx, code, reply>>

(* Commit is called on a nil interface; the server library recovers.       *)
CommitPanics ==
  /\ stage = "calls" /\ Program[op][next] = "Commit" /\ tx = "none"
  /\ Answer("panic")
  /\ UNCHANGED <<request, next, ctx, tx, code, effects>>

Reply == /\ stage = "return"
         /\ Answer(ReplyCode(code))
         /\ UNCHANGED <<request, next, ctx, tx, code, effects>>

Init ==
  /\ stage = "idle" /\ op = "none" /\ via = "none" /\ next = 1
  /\ ctx = "live" /\ tx = "none" /\ code = "nil" /\ reply = "none"
  /\ background = {} /\ answers = {} /\ wrote = {} /\ counted = {}

Next == \/ Arrive \/ RestRequest \/ LocalRequest \/ GrpcRequest
        \/ ContextEnds \/ Handle \/ Do \/ Background \/ CommitPanics \/ Reply

Spec == Init /\ [][Next]_vars

-----------------------------------------------------------------------------
(* Properties.                                                             *)

(* Every variable has its type; a reply is a gRPC code and never an error  *)
(* of the service or of a library.                                         *)
TypeOK ==
  /\ stage \in {"idle", "arrived", "decode", "handle", "calls", "return", "replied"}
  /\ op \in Ops \cup {"none"}
  /\ via \in {"grpc", "rest", "none"}
  /\ op # "none" => next \in DOMAIN Program[op]
  /\ ctx \in {"live", "Canceled", "DeadlineExceeded"}
  /\ tx \in {"none", "open"}
  /\ background \in SUBSET Goroutines
  /\ code \in Code
  /\ reply \in GrpcCode \cup {"none", "panic"}
  /\ answers \in SUBSET (Calls \X Raw)
  /\ wrote \in SUBSET Writes
  /\ counted \in SUBSET (Calls \X {"hit", "miss"})

Answered(raw) == {c \in Calls : <<c, raw>> \in answers}
Made == UNION {Answered(raw) : raw \in Raw}

(* The calls of an operation whose errors no one hears of.                 *)
Unheeded == CASE op \in Updating -> {"SetSession"}
              [] op = "DeleteAccount" -> {"TerminateAllSessions"}
              [] OTHER -> {}

(* Success means that every call was made and succeeded, through all the   *)
(* early returns and overwritten errors, with these exceptions: storing a  *)
(* registration, forgetting it, ending sessions when one of the ids was    *)
(* stale or could not be looked up, and what a goroutine does.             *)
OkMeansDone ==
  reply = "OK" =>
    /\ \A i \in DOMAIN Program[op] :
         Program[op][i] \in Made \cup {"DelKeys"}
    /\ \A raw \in Raw \ {"nil"} :
         Answered(raw) \subseteq
           {"SetAccount", "DeleteRegistration", "removeNonexistantKeys"}
             \cup Unheeded

Refusal == {"InvalidArgument", "Unauthenticated", "NotFound", "AlreadyExists"}

(* A client that is told its request was at fault may correct and repeat   *)
(* it: nothing was changed, and nothing will be by a goroutine still at    *)
(* work. Only a request to end no sessions at all renews its own session   *)
(* before it is refused. Internal, Canceled, DeadlineExceeded and a panic  *)
(* leave it open what was done.                                            *)
RefusalMeansUntouched ==
  reply \in Refusal =>
    \/ wrote = {} /\ background = {}
    \/ /\ op = "TerminateSessions" /\ reply = "InvalidArgument"
       /\ wrote \subseteq {"SetSession"}

(* A session that is not there is told as Unauthenticated by every         *)
(* operation that needs one, and NotFound is left to say that an account   *)
(* or a registration is not there.                                         *)
UnknownSessionIsUnauthenticated ==
  /\ (stage = "replied" /\ op \in SessionOps /\ "GetSession" \in Answered("absent"))
       => reply \in {"Unauthenticated", "Canceled", "DeadlineExceeded"}
  /\ (reply = "NotFound" /\ op \in SessionOps)
       => "GetAccountEmail" \in Answered("absent")

(* What the published interface says of these operations: 404 is returned  *)
(* "when session with specified id not found".                             *)
UnknownSessionIsNotFound ==
  (/\ stage = "replied" /\ op \in SessionOps /\ ctx = "live"
   /\ "GetSession" \in Answered("absent"))
    => reply = "NotFound"

(* The client is told Unknown in one case only: a verification token that  *)
(* could not be signed. Every other error keeps its meaning through the    *)
(* three translations.                                                     *)
Classified ==
  reply = "Unknown" => /\ op = "RequestAccountVerificationToken"
                       /\ "GenerateToken" \in Answered("broken")

(* A session found is a hit, one not found a miss, a failure neither.      *)
CacheMetricsTrue ==
  \A c \in SessionCalls :
    /\ <<c, "hit">> \in counted => c \in Answered("nil")
    /\ <<c, "miss">> \in counted => c \in Answered("absent")
    /\ (c \in Answered("absent") /\ ctx = "live") => <<c, "miss">> \in counted
=============================================================================
