---------------------------- MODULE MCLogQuery -----------------------------
(* The events TLC may let the recorder receive: plain bytes, a lone newline *)
(* or pattern, and an event that ends one line and begins the next.         *)
EXTENDS LogQuery

MCReceived ==
    {<<0, <<"x", "x">>>>, <<0, <<"n">>>>, <<0, <<"P">>>>, <<0, <<"n", "P", "n">>>>,
     <<1, <<"x">>>>}
=============================================================================
