---------------------------- MODULE MCQueryConfig ----------------------------
(***************************************************************************)
(* Up to three of nineteen columns.  Names and renames make every clash     *)
(* possible: a rename onto another name, onto "le", onto a family of a     *)
(* HISTOGRAM; a reserved name, and names with characters that labels, or   *)
(* labels and metrics, may not have.                                       *)
(***************************************************************************)
EXTENDS QueryConfig

MCWords  == {"", "pg", "a", "b", "a:b", "a.b", "le", "datname", "query"} \cup Components
MCPrefix == <<"pg">>
A        == <<"a">>
B        == <<"b">>
ABucket  == <<"a", "bucket">>
Reserved == <<"", "", "a">>
Colon    == <<"a:b">>
Dot      == <<"a.b">>

Of(usage, name, rename) ==
    [usage |-> usage, name |-> name, rename |-> rename, bucket |-> <<>>, parses |-> TRUE]
Histogram(name, bucket) == [Of("HISTOGRAM", name, None) EXCEPT !.bucket = bucket]

\* A bound above all others: what the file has as .inf.
Infinity == 1000

MCEntries ==
    {Of("LABEL", A, None), Of("LABEL", B, A), Of("LABEL", B, Le), Of("LABEL", Le, B),
     Of("LABEL", Reserved, None), Of("LABEL", Colon, None),
     Of("GAUGE", A, None), Of("GAUGE", ABucket, None), Of("GAUGE", B, A), Of("GAUGE", Colon, None),
     Of("GAUGE", Dot, None),
     Histogram(A, <<1, 2>>), Histogram(ABucket, <<1>>), Histogram(B, <<2, 2>>), Histogram(B, <<>>),
     Histogram(B, <<1, Infinity>>),
     Of("DISCARD", A, None), Of("BAD", B, None),
     [Of("GAUGE", B, None) EXCEPT !.parses = FALSE]}
MCNotFinite   == {Infinity}
MCScalars     == {"GAUGE"}
MCNotInLabel  == {"a:b", "a.b"}
MCNotInMetric == {"a.b"}
MCConstLabels == {{}, {Le}, {A, QueryLabel}}
===============================================================================
