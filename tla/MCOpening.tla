------------------------------ MODULE MCOpening ------------------------------
(* Instances of Opening for TLC: small logs of the layout loggers write, and  *)
(* the ways they are wrapped, cut and damaged.                                *)
EXTENDS Opening

Block(type, links, size) ==
    [type |-> type, links |-> links, size |-> size, read |-> "all",
     records |-> 0, vlsd |-> FALSE]
CG(next, cn, records, vlsd) ==
    [Block("CG", <<next, cn, 500, 400, 0, 0>>, 104)
        EXCEPT !.records = records, !.vlsd = vlsd]

\* One or two data groups with n and m channel groups that share their source;
\* `var': the second channel group has the variable-length data of the first;
\* `data' is the type of the first data block, `note' that of the comment.
Log(n, m, var, data, note) ==
    (64 :> Block("HD", <<1500, 200, 0, 0, 0, 300>>, 104))
    @@ (200 :> Block("FH", <<0, 300>>, 56))
    @@ (300 :> Block(note, <<>>, 37))
    @@ (400 :> Block("SI", <<500, 0, 600>>, 56))
    @@ (500 :> Block("TX", <<>>, 40))
    @@ (600 :> Block("MD", <<>>, 48))
    @@ (700 :> Block("CN", <<0, 800, 500, 400, 0, IF var THEN 1100 ELSE 0, 0, 0>>, 160))
    @@ (800 :> Block("CN", <<0, 0, 500, 0, 0, 0, 0, 0>>, 160))
    @@ (1000 :> CG(IF n > 1 THEN 1100 ELSE 0, 700, 32, FALSE))
    @@ (1100 :> CG(IF n > 2 THEN 1200 ELSE 0, 0, 21, var))
    @@ (1200 :> CG(0, 800, 16, FALSE))
    @@ (1300 :> CG(0, 0, 24, FALSE))
    @@ (1500 :> Block("DG", <<IF m > 0 THEN 1600 ELSE 0,
                              IF n > 0 THEN 1000 ELSE 0, 1700, 0>>, 64))
    @@ (1600 :> Block("DG", <<0, 1300, 2000, 300>>, 64))
    @@ (1700 :> Block(data, <<>>, 24 + 69))
    @@ (2000 :> Block("DT", <<>>, 24 + 24))

WholeLogs ==
    {Log(n, m, n > 1 /\ var, "DT", note) :
        n \in 0..3, m \in 0..1, var \in BOOLEAN, note \in {"MD", "AT"}}

Cut(log, a, read) == [log EXCEPT ![a].read = read]
DamagedLogs ==
    {Cut(Log(n, 1, FALSE, "DT", "MD"), a, read) : n \in 1..2,
        a \in {64, 200, 300, 400, 1000, 1500, 1600, 1700, 2000},
        read \in {"none", "header", "links"}}
    \cup {[Log(2, 0, FALSE, "DT", "MD") EXCEPT ![a].links = @ \o <<b>>] :
            a \in {200, 800}, b \in {64, 700}}
    \cup {Log(n, 1, FALSE, "DL", "MD") : n \in 0..2}
    \cup {[Log(1, 0, FALSE, "DT", "MD") EXCEPT ![1500].links[3] = 0],
          [Log(1, 0, FALSE, "DT", "MD") EXCEPT ![64].type = "??"],
          [Log(1, 0, FALSE, "DT", "MD") EXCEPT ![1000].links[3] = 550]}

SmallLog == (64 :> Block("HD", <<0, 0, 0, 0, 0, 300>>, 104))
            @@ (300 :> Block("MD", <<>>, 37))

Plain == [open |-> TRUE, layers |-> <<>>, device |-> "none", default |-> "none",
          tag |-> TRUE, id |-> "mdf", metadata |-> TRUE]
Layers(kinds) ==
    {[i \in DOMAIN kinds |-> [kind |-> kinds[i], valid |-> valid, small |-> small]] :
        valid \in BOOLEAN, small \in BOOLEAN}
Wrapped ==
    {[Plain EXCEPT !.layers = ls, !.device = d, !.default = f, !.tag = tag] :
        ls \in UNION {Layers(k) : k \in {<<"aes">>, <<"aes", "hs">>, <<"hs", "aes">>,
                                         <<"aes", "aes">>}},
        d \in Passwords, f \in Passwords, tag \in BOOLEAN}
    \cup {[Plain EXCEPT !.layers = ls] : ls \in UNION {Layers(<<"hs">>), Layers(<<"hs", "hs">>)}}
    \cup {[Plain EXCEPT !.open = FALSE], [Plain EXCEPT !.id = "other"],
          [Plain EXCEPT !.id = "short"], [Plain EXCEPT !.metadata = FALSE]}

MCInputs ==
    {[source |-> Plain, disk |-> d] : d \in WholeLogs \cup DamagedLogs}
    \cup {[source |-> s, disk |-> SmallLog] : s \in Wrapped}
MCGarbage == {0, 1650}

ASSUME MCDataAssumption ==
    \A input \in MCInputs :
        DataOnce(input.disk) /\ EvenHeader(input.disk) /\ RoomForAll(input.disk)
=============================================================================
