----------------------------- MODULE ApiHandlers -----------------------------
(***************************************************************************)
(* The checks of chapter2/hw1/api_handlers.go, which stand between an HTTP *)
(* request and the methods of MyApi and OtherApi: each is a function of    *)
(* the request.  A request is a record of its path, its method, the text   *)
(* of its X-Auth header ("" if it has none) and the sequence of its        *)
(* parameters, <<key, value>> or <<key>> for one without "=": those of the *)
(* body if the method is POST, those of the URL otherwise.  Texts are left *)
(* abstract up to what the code asks of them: their length, the number     *)
(* they spell, their percent-decoding, and what precedes a "=" in them.    *)
(***************************************************************************)
EXTENDS Integers, Sequences

CONSTANTS
  Length(_),      \* len of a text
  IsInt(_),       \* whether strconv.Atoi accepts a text
  Atoi(_),        \* the number that it then gives
  Unescape(_),    \* the percent-decoding of a text
  UpToEq(_)       \* a text up to its first "="

ASSUME TextsAssumption == UpToEq("") = "" /\ Length("bad_user") < 10

-----------------------------------------------------------------------------
(* A query keeps each parameter at its place in the request.                *)
(*                                                                          *)
(* The body is split at "&" and "=" and taken as it stands: a part without  *)
(* "=" and what follows a second one are dropped, and nothing is decoded.   *)
Assigned(r) == {i \in DOMAIN r.params : Len(r.params[i]) > 1}
BodyQuery(r) == [i \in Assigned(r) |-> <<r.params[i][1], UpToEq(r.params[i][2])>>]

(* r.URL.Query() decodes, and takes a part without "=" as an empty value    *)
(* (it would drop one that is not well encoded, which no instance has).     *)
URLQuery(r) ==
  [i \in DOMAIN r.params |->
     <<Unescape(r.params[i][1]),
       IF Len(r.params[i]) > 1 THEN Unescape(r.params[i][2]) ELSE "">>]

Places(q, key) == {i \in DOMAIN q : q[i][1] = key}
Has(q, key) == Places(q, key) # {}

(* params[0]: the first value counts.                                       *)
First(q, key) == q[CHOOSE i \in Places(q, key) : \A k \in Places(q, key) : i <= k][2]
TextOf(q, key) == IF Has(q, key) THEN First(q, key) ELSE ""

BadInt(q, key) == Has(q, key) /\ ~IsInt(First(q, key))
IntOf(q, key) == IF Has(q, key) /\ IsInt(First(q, key)) THEN Atoi(First(q, key)) ELSE 0

(* An error is the sequence of what its message is put together from.  The  *)
(* checks of a validator come in their order: the first that fails is the   *)
(* error.                                                                   *)
NoError == <<>>
FirstError(checks) ==
  LET failed == {i \in DOMAIN checks : checks[i][1]}
  IN IF failed = {} THEN NoError
     ELSE checks[CHOOSE i \in failed : \A k \in failed : i <= k][2]

Roles == <<"user", "moderator", "admin">>
Classes == <<"warrior", "sorcerer", "rouge">>
Among(allowedVals, text) == \E i \in DOMAIN allowedVals : allowedVals[i] = text

Validated(error, p) == [error |-> error, params |-> p]

ValidateProfileParams(q) ==
  LET login == TextOf(q, "login")
  IN Validated(FirstError(<< <<login = "", <<"login", "must me not empty">>>> >>),
               [Login |-> login])

ValidateCreateParams(q) ==
  LET login == TextOf(q, "login")
      status == IF TextOf(q, "status") = "" THEN "user" ELSE TextOf(q, "status")
      age == IntOf(q, "age")
  IN Validated(
       FirstError(<<
         <<login = "", <<"login", "must me not empty">>>>,
         <<Length(login) < 10, <<"login", "len must be >=", 10>>>>,
         <<~Among(Roles, status), <<"status", "must be one of", Roles>>>>,
         <<BadInt(q, "age"), <<"age", "must be int">>>>,
         <<age < 0, <<"age", "must be >=", 0>>>>,
         <<age > 128, <<"age", "must be <=", 128>>>> >>),
       [Login |-> login, Name |-> TextOf(q, "full_name"), Status |-> status, Age |-> age])

ValidateOtherCreateParams(q) ==
  LET username == TextOf(q, "username")
      class == IF TextOf(q, "class") = "" THEN "warrior" ELSE TextOf(q, "class")
      level == IntOf(q, "level")
  IN Validated(
       FirstError(<<
         <<username = "", <<"username", "must me not empty">>>>,
         <<Length(username) < 3, <<"username", "len must be >=", 3>>>>,
         <<~Among(Classes, class), <<"class", "must be one of", Classes>>>>,
         <<BadInt(q, "level"), <<"level", "must be int">>>>,
         <<level < 1, <<"level", "must be >=", 1>>>>,
         <<level > 50, <<"level", "must be <=", 50>>>> >>),
       [Username |-> username, Name |-> TextOf(q, "account_name"),
        Class |-> class, Level |-> level])

-----------------------------------------------------------------------------
(* What a handler comes to: an error answer, or the call of a method of its *)
(* server.                                                                  *)
Fail(status, error) == [call |-> "", status |-> status, error |-> error]
Call(method, params) == [call |-> method, params |-> params]

CallIfValid(method, v) == IF v.error # NoError THEN Fail(400, v.error) ELSE Call(method, v.params)

(* A profile may be asked with any method; only GET and POST give it        *)
(* parameters.                                                              *)
HandleProfile(r) ==
  CallIfValid("Profile",
    ValidateProfileParams(CASE r.method = "POST" -> BodyQuery(r)
                            [] r.method = "GET" -> URLQuery(r)
                            [] OTHER -> <<>>))

(* Mutant: who asks is checked before the method.                           *)
GuardedPostAuthFirst(r, afterwards) ==
  IF r.token = "" THEN Fail(403, <<"unauthorized">>)
  ELSE IF r.method # "POST" THEN Fail(406, <<"bad method">>)
  ELSE afterwards

(* Both creating handlers check the method, then the header (which may hold *)
(* anything), then the parameters.                                          *)
GuardedPost(r, afterwards) ==
  IF r.method # "POST" THEN Fail(406, <<"bad method">>)
  ELSE IF r.token = "" THEN Fail(403, <<"unauthorized">>)
  ELSE afterwards

HandleCreate(r) == GuardedPost(r, CallIfValid("Create", ValidateCreateParams(BodyQuery(r))))
HandleOtherCreate(r) ==
  GuardedPost(r, CallIfValid("Create", ValidateOtherCreateParams(BodyQuery(r))))

(* ServeHTTP of MyApi and of OtherApi.                                      *)
ServeMyApi(r) ==
  CASE r.path = "/user/profile" -> HandleProfile(r)
    [] r.path = "/user/create" -> HandleCreate(r)
    [] OTHER -> Fail(404, <<"unknown method">>)

ServeOtherApi(r) ==
  CASE r.path = "/user/create" -> HandleOtherCreate(r)
    [] OTHER -> Fail(404, <<"unknown method">>)

(* OtherApi.Create, which answers from its parameters alone.                *)
OtherCreate(p) ==
  [ID |-> 12, Login |-> p.Username, FullName |-> p.Name, Level |-> p.Level]
=============================================================================
