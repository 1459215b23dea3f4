---------------------------------- MODULE MCFraming ----------------------------------
(***************************************************************************)
(* Calls and answers of every kind: numbers at the edges of their width,   *)
(* containers, strings where they are written and where they are lost.     *)
(***************************************************************************)
EXTENDS Framing

a == <<97>>
ab == <<97, 98>>

ManyRequests == {
    [name |-> ab, types |-> <<Num("int16"), Num("uint8")>>, values |-> <<-1, 255>>],
    [name |-> a, types |-> <<VectorOf(Num("int16"))>>, values |-> << <<-32768, 300>> >>],
    [name |-> a, types |-> <<MapOf(Num("uint8"), Num("int32"))>>,
                 values |-> << << <<7, 1>>, <<200, 65536>> >> >>],
    \* the argument is not written, the server finds no size
    [name |-> a, types |-> <<Str>>, values |-> <<ab>>],
    \* two strings arrive, both empty
    [name |-> a, types |-> <<VectorOf(Str)>>, values |-> << <<ab, a>> >>],
    \* the number is read as the size of the string, the size of the vector as the number
    [name |-> a, types |-> <<Str, Num("int64"), VectorOf(Num("int8"))>>,
                 values |-> <<ab, 0, <<0, 0, 0, 0, 0, 0, 0, 0>> >>]}

ManyAnswers == {
    [types |-> <<Num("uint16")>>, values |-> <<65535>>],
    [types |-> <<Str>>, values |-> <<ab>>],
    [types |-> <<VectorOf(Num("int8"))>>, values |-> << <<>> >>],
    [types |-> <<MapOf(Num("int8"), Str)>>, values |-> << << <<-128, a>> >> >>]}

=============================================================================
