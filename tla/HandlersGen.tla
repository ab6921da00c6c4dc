----------------------------- MODULE HandlersGen -----------------------------
(***************************************************************************)
(* The generator of chapter2/hw1/handlers_gen/codegen.go: what the code    *)
(* that it writes for the declarations of a Go file does with a request.   *)
(* ApiHandlers is the file that the repository keeps as its output for     *)
(* api.go.                                                                 *)
(*                                                                         *)
(* A function declaration has a name, the receiver's type if it is a       *)
(* pointer ("" otherwise), the parameters whose type is an identifier, and *)
(* a doc comment: the fields of its JSON, or NoDoc.  A type declaration    *)
(* has fields, each with a type and a tag: a function from the tag's rules *)
(* to their values, or NoTag if the tag has no apivalidator.               *)
(***************************************************************************)
EXTENDS ApiHandlers

CONSTANT Lower(_)      \* strings.ToLower

ASSUME LowerAssumption ==
  /\ Lower("Login") = "login" /\ Lower("Status") = "status" /\ Lower("Age") = "age"
  /\ Lower("Username") = "username" /\ Lower("Class") = "class" /\ Lower("Level") = "level"

VARIABLE request       \* what is sent to the two servers

NoDoc == [url |-> ""]
NoTag == [none |-> <<>>]
NoValue == <<"">>      \* a rule without "="

-----------------------------------------------------------------------------
(* generateValidator: for each field whose tag has an apivalidator, code    *)
(* that reads its parameter, fills in the default, and makes the checks of  *)
(* the tag.  They are written in this order, and the first that fails       *)
(* returns.  The code of a field uses no other one.                         *)
Tagged(f, rule) == rule \in DOMAIN f.tag
Param(f) == IF Tagged(f, "paramname") THEN f.tag.paramname[1] ELSE Lower(f.name)
Zero(type) == IF type = "string" THEN "" ELSE 0

FieldValue(f, q) ==
  LET read == IF f.tag = NoTag \/ ~Has(q, Param(f)) THEN Zero(f.type)
              ELSE IF f.type = "string" THEN First(q, Param(f)) ELSE IntOf(q, Param(f))
  IN IF Tagged(f, "default") /\ read = Zero(f.type) THEN f.tag.default[1] ELSE read

FieldError(f, q) ==
  LET val == FieldValue(f, q)
      size == IF f.type = "string" THEN Length(val) ELSE val
      What(text, number) == IF f.type = "string" THEN text ELSE number
  IN IF f.tag # NoTag /\ f.type = "int" /\ BadInt(q, Param(f)) THEN <<Param(f), "must be int">>
     ELSE IF Tagged(f, "required") /\ val = Zero(f.type)
          THEN <<Param(f), What("must me not empty", "must me not 0")>>
     ELSE IF Tagged(f, "enum") /\ ~Among(f.tag.enum, val)
          THEN <<Param(f), "must be one of", f.tag.enum>>
     ELSE IF Tagged(f, "min") /\ size < f.tag.min[1]
          THEN <<Param(f), What("len must be >=", "must be >="), f.tag.min[1]>>
     ELSE IF Tagged(f, "max") /\ size > f.tag.max[1]
          THEN <<Param(f), What("len must be <=", "must be <="), f.tag.max[1]>>
     ELSE NoError

(* The written function returns at the first field that is wrong; what it   *)
(* has then filled in nobody looks at.                                      *)
Validate(struct, q) ==
  LET fields == struct.fields
      wrong == {i \in DOMAIN fields : FieldError(fields[i], q) # NoError}
      Named(n) == fields[CHOOSE i \in DOMAIN fields : fields[i].name = n]
  IN Validated(IF wrong = {} THEN NoError
               ELSE FieldError(fields[CHOOSE i \in wrong : \A k \in wrong : i <= k], q),
               [n \in {fields[i].name : i \in DOMAIN fields} |-> FieldValue(Named(n), q)])

Struct(decls, name) ==
  decls[CHOOSE i \in DOMAIN decls : decls[i].kind = "struct" /\ decls[i].name = name]

-----------------------------------------------------------------------------
(* generateHandler: the method's handler, whose blocks come in this order.  *)
(* Without a method in the doc comment the request's own decides where the  *)
(* parameters are; a method other than GET and POST would not compile.      *)
Handle(decls, f, r) ==
  LET from == IF f.doc.method = "" THEN r.method ELSE f.doc.method
      query == CASE from = "POST" -> BodyQuery(r) [] from = "GET" -> URLQuery(r) [] OTHER -> <<>>
      v == Validate(Struct(decls, f.params[1]), query)
  IN IF f.doc.method # "" /\ r.method # f.doc.method THEN Fail(406, <<"bad method">>)
     ELSE IF f.doc.auth /\ r.token = "" THEN Fail(403, <<"unauthorized">>)
     ELSE IF v.error # NoError THEN Fail(400, v.error)
     ELSE Call(f.name, v.params)

(* srvs[recv]: the methods of a receiver; a function without a doc comment  *)
(* that is JSON is none.                                                    *)
Methods(decls, recv) ==
  {i \in DOMAIN decls : decls[i].kind = "func" /\ decls[i].recv = recv /\ decls[i].doc # NoDoc}

(* generateSrvs: the ServeHTTP of a receiver, a switch over the URLs of its *)
(* methods, which differ (the file would not compile otherwise).            *)
Served(decls, recv, r) ==
  LET hit == {i \in Methods(decls, recv) : decls[i].doc.url = r.path}
  IN IF hit = {} THEN Fail(404, <<"unknown method">>)
     ELSE Handle(decls, decls[CHOOSE i \in hit : TRUE], r)

-----------------------------------------------------------------------------
(* The declarations of api.go; of the struct types without a tag, of which  *)
(* nothing is written, one.                                                 *)
Field(name, type, tag) == [name |-> name, type |-> type, tag |-> tag]
TypeDecl(name, fields) == [kind |-> "struct", name |-> name, fields |-> fields]
Func(name, recv, params, doc) ==
  [kind |-> "func", name |-> name, recv |-> recv, params |-> params, doc |-> doc]

Undocumented(name) == Func(name, "", <<>>, NoDoc)
Api(url, auth, method) == [url |-> url, auth |-> auth, method |-> method]

ApiErrorDecl ==
  TypeDecl("ApiError", <<Field("HTTPStatus", "int", NoTag), Field("Err", "error", NoTag)>>)
ProfileParamsDecl ==
  TypeDecl("ProfileParams", <<Field("Login", "string", [required |-> NoValue])>>)
CreateParamsDecl ==
  TypeDecl("CreateParams", <<
    Field("Login", "string", [required |-> NoValue, min |-> <<10>>]),
    Field("Name", "string", [paramname |-> <<"full_name">>]),
    Field("Status", "string", [enum |-> <<"user", "moderator", "admin">>, default |-> <<"user">>]),
    Field("Age", "int", [min |-> <<0>>, max |-> <<128>>])>>)
OtherCreateParamsDecl ==
  TypeDecl("OtherCreateParams", <<
    Field("Username", "string", [required |-> NoValue, min |-> <<3>>]),
    Field("Name", "string", [paramname |-> <<"account_name">>]),
    Field("Class", "string", [enum |-> <<"warrior", "sorcerer", "rouge">>, default |-> <<"warrior">>]),
    Field("Level", "int", [min |-> <<1>>, max |-> <<50>>])>>)
ProfileDecl == Func("Profile", "MyApi", <<"ProfileParams">>, Api("/user/profile", FALSE, ""))
CreateDecl == Func("Create", "MyApi", <<"CreateParams">>, Api("/user/create", TRUE, "POST"))
OtherCreateDecl ==
  Func("Create", "OtherApi", <<"OtherCreateParams">>, Api("/user/create", TRUE, "POST"))

ApiGo ==
  <<ApiErrorDecl, Undocumented("Error"), Undocumented("NewMyApi"), ProfileParamsDecl,
    CreateParamsDecl, ProfileDecl, CreateDecl, Undocumented("NewOtherApi"),
    OtherCreateParamsDecl, OtherCreateDecl>>

(* The file that is kept answers a request as the one that the generator    *)
(* writes for api.go: same order of checks, same error, same call.          *)
HandlersAsGenerated ==
  /\ ServeMyApi(request) = Served(ApiGo, "MyApi", request)
  /\ ServeOtherApi(request) = Served(ApiGo, "OtherApi", request)
=============================================================================
