----------------------------- MODULE MCDispatch ----------------------------
(* The instance of Dispatch.tla for TLC.  Bytes of 16 values and integers   *)
(* of two of them: handlers return every signed and every unsigned integer  *)
(* there is (-128..127 and 0..255), strings around the lengths at which     *)
(* their length takes another byte, nested lists and maps, and results of   *)
(* every size around the output buffer's.  One resource is too large for    *)
(* the largest buffer, and one request is.                                  *)
EXTENDS Dispatch

CONSTANTS play, create, huge

LongText(n) == [i \in 1..n |-> i % 16]

(* x, integer and required: a board's column.  The defaults are of kinds    *)
(* that a query string does not give.                                      *)
MCDeclared ==
    [r \in {play, create, huge} |->
        CASE r = play ->
               [board |-> TRUE,
                params |-> <<[name |-> <<1>>, type |-> "integer", required |-> TRUE,
                              default |-> Text(<<>>)],
                             [name |-> <<2>>, type |-> "boolean", required |-> FALSE,
                              default |-> UInt64(200)]>>]
          [] r = create ->
               [board |-> FALSE,
                params |-> <<[name |-> <<1>>, type |-> "string", required |-> FALSE,
                              default |-> List(<<Int64(-128), Bool(FALSE)>>)]>>]
          [] r = huge ->
               [board |-> FALSE,
                params |-> <<[name |-> <<1>>, type |-> "string", required |-> FALSE,
                              default |-> Text(LongText(70))]>>]]

Raw(text, integer, boolean) == [text |-> text, integer |-> integer, boolean |-> boolean]

(* Nothing, "1", "-8" (the least int), a number that is no int, "true",     *)
(* and two long texts, the second of them too long for any buffer.         *)
MCRawValues ==
    {Raw(<<>>, {}, {}), Raw(<<1>>, {1}, {TRUE}), Raw(<<2, 8>>, {-8}, {}),
     Raw(<<9, 9, 9>>, {}, {}), Raw(<<3>>, {}, {TRUE}),
     Raw(LongText(17), {}, {}), Raw(LongText(70), {}, {})}

MCNames == {<<n>> : n \in 1..9}

Body(v) == [ok |-> TRUE, body |-> <<1>> :> v]

MCResults ==
    {Body(Int64(n)) : n \in -128..127} \cup {Body(UInt64(n)) : n \in 0..255}
        \cup {Body(Text(LongText(n))) : n \in 0..32}
        \cup {Body(List([i \in 1..n |-> Map(<<i>> :> Bool(TRUE))])) : n \in 0..5}
        \cup {[ok |-> TRUE, body |-> <<>>],
              [ok |-> TRUE, body |-> <<1>> :> Bool(FALSE) @@ <<2>> :> Int64(-1)]}
        \cup {[ok |-> FALSE, code |-> BadRequest, message |-> LongText(n)] : n \in 10..30}
=============================================================================
