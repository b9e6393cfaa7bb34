--------------------------- MODULE MCHostSession ----------------------------
(* Instances of HostSession for TLC.                                       *)
EXTENDS HostSession

MCNumeralValue == [n \in {"n1", "n2", "n9"} |->
                     CASE n = "n1" -> 1 [] n = "n2" -> 2 [] n = "n9" -> 9]

LF == <<"nl">>
CRLF == <<"nl", "nl">>
MCLineEndings == {LF, CRLF}

MCLines == {<<"cmd">>, <<"cmd", "eq", "n1">>, <<"blobcmd">>,
            <<"blobcmd", "eq", "n1">>,
            <<"blobcmd", "eq", "n1", "comma", "n2">>,
            <<"blobcmd", "eq", "n9">>, <<"blobcmd", "eq", "n1", "n1">>,
            <<"blobcmd", "eq", "comma", "n1">>,
            <<"n1">>, <<"n1", "n1", "n1", "n1", "n1", "n1", "n1">>,
            <<"cmd", "eq", "n1", "n1", "n1", "n1", "n1", "n1", "n1", "n1">>}
=============================================================================
