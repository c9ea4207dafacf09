------------------------------ MODULE MCFastCgi ------------------------------
(* A small instance of FastCgi for TLC: bodies of none to five chunks, and
   pages that are whole, headerless, without an end, mixed with errors, or
   that belong to another request. *)
EXTENDS FastCgi

SomeBodies == {0, 1, 3, 15}

Rec(type, content) == [type |-> type, id |-> 1, content |-> content]
Out(content) == Rec("stdout", content)
Err          == Rec("stderr", <<"text">>)
End          == Rec("end", <<>>)

SomeOutputs == {
    <<Out(<<"status", "crlf", "text">>), Out(<<"text", "lf">>), Out(<<"text">>), End>>,
    <<Out(<<"status", "odd status">>), Err, Out(<<"crlf", "text">>), End>>,
    <<Out(<<"text">>), Out(<<"text", "lf", "crlf">>)>>,
    <<Out(<<"text">>), Out(<<"text">>), [End EXCEPT !.id = 2], Out(<<"text">>)>>,
    <<Err, End>>, <<End>>, <<[Err EXCEPT !.content = <<>>], End>>,
    <<Out(<<"lf", "text">>), [Out(<<"text">>) EXCEPT !.id = 2], End>>}
=============================================================================
