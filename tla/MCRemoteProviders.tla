------------------------- MODULE MCRemoteProviders -------------------------
(* Instances of RemoteProviders for TLC. *)
EXTENDS RemoteProviders, TLC

CONSTANTS a, b, main, note, url, one, pem, env, w1, w2, w3


Line(k, t) == [key |-> k, text |-> t]

\* A text of one line, one that ends with an empty line, and one with a line that
\* looks like another key of the batch.
TextLines == [v \in Value |-> CASE v = one -> <<Line(0, "x")>>
                                [] v = pem -> <<Line(0, "x"), Line(0, "")>>
                                [] v = env -> <<Line(0, "y"), Line(1, "z")>>]

R(scheme, path) == [scheme |-> scheme, path |-> path]
References == {R("", <<a>>), R("", <<a, note>>), R("", <<b>>), R("", <<a, "">>),
               R("uri", <<b, note>>), R("env", <<a, note>>), R("", <<a, b, main>>)}

\* Batches of up to three secrets, duplicates included.
UpToThree == UNION {[1..n -> References] : n \in 0..2}
                 \union {<<R("", <<b>>), r, s>> : r \in References, s \in References}

Make(m, n) == (main :> m) @@ (note :> n) @@ (url :> None)
SomeItems == {Absent, Make(one, None), Make(pem, one)}
SomeStores == {(a :> i) @@ (b :> j) : i \in SomeItems \union {Make(None, env)},
                                     j \in {Absent, Make(one, None)}}
Contains == [n \in Name |-> IF n = a THEN {b} ELSE {}]

Job(n, f, v) == [name |-> n, field |-> f, value |-> v]

\* Three writers: on fields of one item, on the whole item, and on another item.
SomeJobs ==
    {(w1 :> Job(a, main, one)) @@ (w2 :> Job(a, g, pem)) @@ (w3 :> Job(n, h, env)) :
        g \in {main, note}, n \in {a, b}, h \in {main, note}}
    \union {(w1 :> Job(a, note, one)) @@ (w2 :> Job(a, note, pem)) @@ (w3 :> Job(a, url, env))}
=============================================================================
