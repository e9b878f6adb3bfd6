------------------------------ MODULE Dispatch -----------------------------
(***************************************************************************)
(* A resource from its registration by a plugin to the answer of a request: *)
(* add_resource, parse_params, the two crossings of the plugin boundary    *)
(* that every request makes, and the errors that dispatch() answers itself. *)
(*                                                                         *)
(* Requests do not share anything here: buffers are the locals of one call  *)
(* of dispatch(), so that one request at a time is enough.  What a handler  *)
(* does to its board is in Game.tla; here it returns some result, and       *)
(* "calls" counts how often it has had its effects.                        *)
(***************************************************************************)
EXTENDS Bytestream

CONSTANTS
    Resources,         \* what the plugins register
    Declared,          \* for each, [board, params]: whether it wants a board, and its
                       \*   parameters, each [name, type, required, default]
    RawValues,         \* what a query string may give for a parameter: each has a text,
                       \*   and the integers (at most one) and booleans it parses as
    Results,           \* what handlers return
    InitialCapacity,   \* store_growing's first buffer,
    MaxCapacity,       \*   and the largest
    OutputCapacity     \* handler_output_capacity

Key == [name |-> <<1>>, type |-> <<2>>, required |-> <<3>>, default |-> <<4>>,
        params |-> <<5>>, ok |-> <<6>>, body |-> <<7>>, code |-> <<8>>, message |-> <<9>>]

OK == 2
BadRequest == 4
Unauthorized == 5
Forbidden == 6
InternalServerError == 7

Codes == {OK, BadRequest, Unauthorized, Forbidden, InternalServerError}

Types == <<"string", "integer", "boolean">>

(* The sizes that store_growing tries, in twelve doublings.                *)
Capacities == {InitialCapacity * 2 ^ k : k \in 0..12} \cap 1..MaxCapacity

ASSUME CapacitiesAssumption ==
    /\ InitialCapacity \in Nat \ {0} /\ MaxCapacity \in Nat \ {0} /\ OutputCapacity \in Nat
    /\ MaxCapacity \in Capacities

(* Every default fits three levels deep in its resource's envelope; no two  *)
(* parameters of a resource have one name.                                 *)
ASSUME PluginsAssumption ==
    /\ Nesting >= 3 /\ {Key[k] : k \in DOMAIN Key} \subseteq Names
    /\ \A r \in Resources :
           LET specs == Declared[r].params IN
           /\ Declared[r].board \in BOOLEAN
           /\ specs \in Seq([name : Names, type : {"string", "integer", "boolean"},
                              required : BOOLEAN, default : Params[Nesting - 3]])
           /\ Len(specs) < Half
           /\ \A i, j \in DOMAIN specs : specs[i].name = specs[j].name => i = j

(* A text parses as one number and one truth value at most.                *)
ASSUME RequestsAssumption ==
    \A raw \in RawValues :
        /\ raw.text \in Strings /\ raw.integer \subseteq Int64s /\ raw.boolean \subseteq BOOLEAN
        /\ \A a, b \in raw.integer : a = b
        /\ \A a, b \in raw.boolean : a = b

ASSUME ResultsAssumption ==
    /\ Codes \subseteq Int64s
    /\ \A result \in Results :
           \/ /\ result.ok = TRUE
              /\ DOMAIN result.body \subseteq Names /\ Map(result.body) \in Params[Nesting - 1]
           \/ /\ result.ok = FALSE
              /\ result.code \in Int64s /\ result.message \in Strings

VARIABLES
    registered,   \* which resources add_resource has been called for
    resources,    \* resources_: what the host has of those it could decode
    pc,           \* where dispatch() is
    request,      \* [resource, raw, authorized, known]
    params,       \* the parsed parameters
    paramsBytes,  \* what the handler's adapter is given
    seen,         \* the parameters the handler has been called with
    calls,        \* how many times it has been called
    returned,     \* its result
    out,          \* the bytes its adapter has written
    answer        \* [code, content]

vars == <<registered, resources, pc, request, params, paramsBytes, seen, calls,
          returned, out, answer>>

Init ==
    /\ registered = {} /\ resources = <<>>
    /\ pc = "register"
    /\ request = None /\ params = None /\ seen = None /\ returned = None /\ answer = None
    /\ paramsBytes = NoBytes /\ out = NoBytes
    /\ calls = 0

(* Pure serialization, tried with larger and larger buffers: from 4 KiB to  *)
(* 16 MiB in twelve doublings.                                             *)
StoreGrowing(p) ==
    LET enough == {c \in Capacities : Store(p, c) # NoBytes}
    IN  IF enough = {} THEN NoBytes ELSE Store(p, CHOOSE c \in enough : TRUE)

-----------------------------------------------------------------------------
(* Registration                                                            *)

(* A map with a key for each field of a record.                            *)
Envelope(fields) ==
    Map([k \in {Key[name] : name \in DOMAIN fields} |->
            fields[CHOOSE name \in DOMAIN fields : Key[name] = k]])

SpecToWire(spec) ==
    Envelope([name |-> Text(spec.name),
              type |-> Int64((CHOOSE i \in 1..3 : Types[i] = spec.type) - 1),
              required |-> Bool(spec.required),
              default |-> spec.default])

SpecFromWire(m) ==
    [name |-> m[Key.name].value,
     type |-> Types[m[Key.type].value + 1],
     required |-> m[Key.required].value,
     default |-> m[Key.default]]

(* The path and the method cross with the parameters and are left out.     *)
ResourceToWire(specs) ==
    Envelope([params |-> List([i \in DOMAIN specs |-> SpecToWire(specs[i])])])

ResourceFromWire(m) ==
    LET items == m[Key.params].value IN [i \in DOMAIN items |-> SpecFromWire(items[i].value)]

(* A resource that does not fit the largest buffer is dropped with a line   *)
(* in the log.                                                             *)
AddResource(r) ==
    LET wire == Load(StoreGrowing(ResourceToWire(Declared[r].params))) IN
    /\ pc = "register"
    /\ r \notin registered
    /\ registered' = registered \cup {r}
    /\ resources' = IF wire.ok
                    THEN [s \in DOMAIN resources \cup {r} |->
                             IF s = r THEN [board |-> Declared[r].board,
                                            params |-> ResourceFromWire(wire.value.value)]
                             ELSE resources[s]]
                    ELSE resources
    /\ UNCHANGED <<pc, request, params, paramsBytes, seen, calls, returned, out, answer>>

Publish ==
    /\ pc = "register"
    /\ registered = Resources
    /\ pc' = "idle"
    /\ UNCHANGED <<registered, resources, request, params, paramsBytes, seen, calls,
                   returned, out, answer>>

-----------------------------------------------------------------------------
(* One request                                                             *)

TakeRequest(r) ==
    /\ pc \in {"idle", "sent"}
    /\ \E raw \in [DOMAIN resources[r].params -> RawValues], authorized, known \in BOOLEAN :
           request' = [resource |-> r, raw |-> raw, authorized |-> authorized, known |-> known]
    /\ pc' = "parse"
    /\ params' = None /\ seen' = None /\ returned' = None /\ answer' = None
    /\ paramsBytes' = NoBytes /\ out' = NoBytes
    /\ calls' = 0
    /\ UNCHANGED <<registered, resources>>

Send(code, content) ==
    /\ answer' = [code |-> code, content |-> content]
    /\ pc' = "sent"

SendError(code) == Send(code, Text(<<>>))

(* The values that a raw parameter parses as: none, or one.                 *)
Parsed(spec, raw) ==
    CASE raw.text = <<>> /\ spec.required  -> {}
      [] raw.text = <<>> /\ ~spec.required -> {spec.default}
      [] raw.text # <<>> /\ spec.type = "string"  -> {Text(raw.text)}
      [] raw.text # <<>> /\ spec.type = "integer" -> {Int64(n) : n \in raw.integer}
      [] raw.text # <<>> /\ spec.type = "boolean" -> {Bool(b) : b \in raw.boolean}

ParseParams ==
    LET specs == resources[request.resource].params
        values(i) == Parsed(specs[i], request.raw[i])
        names == {specs[i].name : i \in DOMAIN specs}
    IN
    /\ pc = "parse"
    /\ \/ /\ \E i \in DOMAIN specs : values(i) = {}
          /\ SendError(BadRequest)
          /\ UNCHANGED params
       \/ /\ \A i \in DOMAIN specs : values(i) # {}
          /\ params' = Map([k \in names |->
                              CHOOSE v \in values(CHOOSE i \in DOMAIN specs : specs[i].name = k)
                                  : TRUE])
          /\ pc' = "store"
          /\ UNCHANGED answer
    /\ UNCHANGED <<registered, resources, request, paramsBytes, seen, calls, returned, out>>

StoreParams ==
    /\ pc = "store"
    /\ paramsBytes' = StoreGrowing(params)
    /\ \/ /\ paramsBytes' = NoBytes
          /\ SendError(InternalServerError)
       \/ /\ paramsBytes' # NoBytes
          /\ pc' = IF resources[request.resource].board THEN "authorize" ELSE "call"
          /\ UNCHANGED answer
    /\ UNCHANGED <<registered, resources, request, params, seen, calls, returned, out>>

(* authorize_client and board_for_client; Sessions.tla says for whom.      *)
Authorize ==
    /\ pc = "authorize"
    /\ \/ ~request.authorized /\ SendError(Unauthorized)
       \/ request.authorized /\ ~request.known /\ SendError(Forbidden)
       \/ request.authorized /\ request.known /\ pc' = "call" /\ UNCHANGED answer
    /\ UNCHANGED <<registered, resources, request, params, paramsBytes, seen, calls,
                   returned, out>>

(* simple_handler_adapter and board_handler_adapter.                       *)
CallHandler ==
    LET loaded == Load(paramsBytes)
        readable == loaded.ok /\ loaded.value.type = "map"
    IN
    /\ pc = "call"
    /\ seen' = IF readable THEN loaded.value ELSE seen
    /\ calls' = IF readable THEN calls + 1 ELSE calls
    /\ pc' = IF readable THEN "handler" ELSE "unwrap"
    /\ UNCHANGED <<registered, resources, request, params, paramsBytes, returned, out, answer>>

(* The handler returns; what it throws is a result as well.                *)
HandlerReturns ==
    /\ pc = "handler"
    /\ returned' \in Results \cup {[ok |-> FALSE, code |-> InternalServerError, message |-> <<>>]}
    /\ pc' = "reply"
    /\ UNCHANGED <<registered, resources, request, params, paramsBytes, seen, calls, out, answer>>

HandlerToWire(result) ==
    IF result.ok
    THEN Envelope([ok |-> Bool(TRUE), body |-> Map(result.body)])
    ELSE Envelope([ok |-> Bool(FALSE), code |-> Int64(result.code),
                   message |-> Text(result.message)])

(* One buffer of one size, whatever the handler has done by now.           *)
Reply ==
    /\ pc = "reply"
    /\ out' = Store(HandlerToWire(returned), OutputCapacity)
    /\ pc' = "unwrap"
    /\ UNCHANGED <<registered, resources, request, params, paramsBytes, seen, calls,
                   returned, answer>>

(* Mutant: a result that did not fit is asked for again.                   *)
UnwrapRetried ==
    LET envelope == Load(out)
        m == envelope.value.value
    IN
    /\ pc = "unwrap"
    /\ \/ ~envelope.ok /\ calls < 2 /\ pc' = "call" /\ UNCHANGED answer
       \/ ~envelope.ok /\ calls = 2 /\ SendError(InternalServerError)
       \/ envelope.ok /\ m[Key.ok].value /\ Send(OK, m[Key.body])
       \/ envelope.ok /\ ~m[Key.ok].value /\ Send(m[Key.code].value, m[Key.message])
    /\ UNCHANGED <<registered, resources, request, params, paramsBytes, seen, calls,
                   returned, out>>

(* unwrap_handler_output, handler_wire::from_wire, and the answer.  What    *)
(* loads is an envelope: the adapters write nothing else.                  *)
Unwrap ==
    LET envelope == Load(out)
        m == envelope.value.value
    IN
    /\ pc = "unwrap"
    /\ \/ ~envelope.ok /\ SendError(InternalServerError)
       \/ envelope.ok /\ m[Key.ok].value /\ Send(OK, m[Key.body])
       \/ envelope.ok /\ ~m[Key.ok].value /\ Send(m[Key.code].value, m[Key.message])
    /\ UNCHANGED <<registered, resources, request, params, paramsBytes, seen, calls,
                   returned, out>>

Next ==
    \/ \E r \in Resources : AddResource(r)
    \/ Publish
    \/ \E r \in DOMAIN resources : TakeRequest(r)
    \/ ParseParams
    \/ StoreParams
    \/ Authorize
    \/ CallHandler
    \/ HandlerReturns
    \/ Reply
    \/ Unwrap

Spec == Init /\ [][Next]_vars

-----------------------------------------------------------------------------
(* An unsigned number above the largest signed one comes out negative: the  *)
(* writer has one kind of integer.  Everything else comes out as it went in. *)
Normalize(inside, p) ==
    CASE p.type = "uint64" -> Int64(AsInt64(p.value))
      [] p.type = "list" -> List([i \in DOMAIN p.value |-> inside[p.value[i]]])
      [] p.type = "map" -> Map([k \in Keys(p.value) |-> inside[p.value[k]]])
      [] OTHER -> p

Normalizer[d \in 0..Nesting] ==
    [p \in Params[d] |-> Normalize(IF d = 0 THEN <<>> ELSE Normalizer[d - 1], p)]

Normal(p) == Normalizer[Nesting][p]

(* What the plugin that declared the resource may expect of a request.     *)
Expected(i) ==
    {Normal(v) : v \in Parsed(Declared[request.resource].params[i], request.raw[i])}

(* A handler is called with exactly the parameters its plugin declared,     *)
(* each of them given, parsed and in range, or its declared default: after  *)
(* the specification has crossed the boundary in one direction and the      *)
(* values in the other.                                                    *)
HandlerSeesItsParameters ==
    LET specs == Declared[request.resource].params IN
    seen # None
        => /\ Keys(seen.value) = {specs[i].name : i \in DOMAIN specs}
           /\ \A i \in DOMAIN specs : {seen.value[specs[i].name]} = Expected(i)

(* The client gets what the handler returned, its error too, or, when that  *)
(* does not fit the one buffer, a 500 and never a part of it.              *)
AnswersAreWhole ==
    pc = "sent" /\ returned # None
        => LET wire == HandlerToWire(returned) IN
           IF HeaderSize + Len(Bytes(wire)) > OutputCapacity
           THEN answer.code = InternalServerError /\ answer.content = Text(<<>>)
           ELSE IF returned.ok
           THEN answer = [code |-> OK, content |-> Normal(Map(returned.body))]
           ELSE answer = [code |-> returned.code, content |-> Text(returned.message)]

(* A handler has its effects once, and only for a request that the host had *)
(* no reason to refuse: not for a parameter that does not parse, not for a  *)
(* stranger, and not again because the answer was too long.                *)
HandledOnceIfAtAll ==
    pc = "sent"
        => LET specs == Declared[request.resource].params
               acceptable ==
                   /\ \A i \in DOMAIN specs : Expected(i) # {}
                   /\ Declared[request.resource].board => request.authorized /\ request.known
                   /\ HeaderSize + Len(Bytes(params)) <= MaxCapacity
           IN  calls = IF acceptable THEN 1 ELSE 0
=============================================================================
