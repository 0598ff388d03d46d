---------------------------- MODULE MCUnitFiles ----------------------------
(* Instances of UnitFiles for TLC. *)
EXTENDS UnitFiles

Symbols == {"%", "i", "I", "p", "m", "v", "n", "name", "@", "/", ".", " ", "tab", ",", "_", "root",
            "a", "b", "t", "x", "y", ".ini", ".rules", ".txt", "class=", "tty", "mount",
            "units", "rules", "cfg", "services", "simple", "oneshot", "library", "never",
            "no", "always", "on-failure", "s", "0", "-1", "7"}

\* What dmini_get_int() reads.
Read == (<<"0">> :> 0) @@ (<<"-1">> :> 0 - 1) @@ (<<"7">> :> 7)

TextsUpTo(n, S) == UNION {[1 .. k -> S] : k \in 0 .. n}

File(name) == [name |-> name, dir |-> FALSE]
Dir(name)  == [name |-> name, dir |-> TRUE]

Added(name, value)   == [class |-> <<"tty">>, name |-> name, value |-> value, what |-> "added"]
Removed(name, value) == [class |-> <<"tty">>, name |-> name, value |-> value, what |-> "removed"]

Rule(class, start, remove) == [name |-> <<"class=">> \o class, start |-> start, remove |-> remove]

At(source, sub) == IF source = NONE THEN sub ELSE JoinPath(JoinPath(source, <<"cfg">>), sub)

Units(source) == IF source = NONE THEN <<"units">> ELSE At(source, <<"services">>)

\* Every short text as the arguments of a plain unit, of an instance that has
\* them from its template, and of two instances made on demand.
Texts ==
    {LET u == Units(source)
         r == At(source, <<"rules">>)
         in(name) == JoinPath(u, name)
     IN [source |-> source, scanned |-> TRUE,
         tree |-> (u :> <<File(<<"a", ".ini">>), File(<<"t", "@", ".ini">>), File(<<"t", "@", "x", ".ini">>)>>)
                  @@ (r :> <<File(<<"a", ".rules">>)>>),
         files |-> (in(<<"a", ".ini">>) :> [exec |-> <<"%", "m", "/", "a">>, args |-> text])
                   @@ (in(<<"t", "@", ".ini">>) :> [exec |-> <<"b">>, args |-> text])
                   @@ (in(<<"t", "@", "x", ".ini">>) :> [type |-> <<"oneshot">>]),
         sections |-> JoinPath(r, <<"a", ".rules">>) :>
                         <<Rule(<<"tty">>, <<"t", "@", "%", "name">>, NONE)>>,
         reports |-> <<Added(<<"i">>, NONE)>>] :
       text \in TextsUpTo(4, {"%", "i", "m", " "}), source \in {NONE, <<"/", "s", "/">>}}

\* Every short target of a rule, and devices whose names look like one.
Targets ==
    {[source |-> NONE, scanned |-> TRUE,
      tree |-> (<<"units">> :> <<File(<<"t", ".ini">>), File(<<"t", "@", ".ini">>)>>)
               @@ (<<"rules">> :> <<File(<<"a", ".ini">>)>>),
      files |-> (<<"units", "/", "t", ".ini">> :> [exec |-> <<"a">>])
                @@ (<<"units", "/", "t", "@", ".ini">> :>
                      [exec |-> <<"b">>, args |-> <<"%", "v", " ", "%", "i">>]),
      sections |-> <<"rules", "/", "a", ".ini">> :> <<Rule(<<"tty">>, text, <<"t">>)>>,
      reports |-> <<Added(name, <<"a", "tab", "b">>), Added(name, NONE),
                    Removed(name, <<"a", "tab", "b">>)>>] :
       text \in TextsUpTo(4, {"%", "name", "@", "t"}) ,
       name \in {<<"y">>, <<"y", "@", "x">>, <<"%", "name">>}}

\* Directories in directories, names that are almost right, files that are not,
\* and templates that are elsewhere.
Trees ==
    {[source |-> source, scanned |-> TRUE,
      tree |-> (Units(source) :> <<Dir(<<".">>), Dir(<<".", ".">>), File(<<"a", ".txt">>), File(<<".ini">>),
                             File(first), Dir(<<"s">>), Dir(<<"x">>), File(<<"t", "@", "x", ".ini">>)>>)
               @@ (JoinPath(Units(source), <<"s">>) :>
                     <<File(<<"t", "@", ".ini">>), File(second), Dir(<<"s">>)>>)
               @@ (JoinPath(Units(source), <<"s", "/", "s">>) :> <<File(<<"b", ".ini">>)>>)
               @@ (At(source, <<"rules">>) :> <<File(<<".rules">>), Dir(<<"s">>), File(<<"a", ".rules">>)>>)
               @@ (At(source, <<"rules", "/", "s">>) :> <<File(<<"b", ".ini">>), File(<<"b", ".txt">>)>>),
      files |-> (JoinPath(Units(source), first) :> one)
                @@ (JoinPath(Units(source), <<"t", "@", "x", ".ini">>) :>
                      [exec |-> <<"b">>, stdlog |-> <<"/", "x">>, stdin |-> <<"%", "i">>])
                @@ (JoinPath(Units(source), <<"s", "/", "t", "@", ".ini">>) :>
                      [exec |-> <<"a">>, args |-> <<"%", "n">>, stop_timeout_ms |-> <<"%", "v">>,
                       requires |-> <<"a", ",", " ", "%", "i", ",">>])
                @@ (JoinPath(Units(source), <<"s", "/">> \o second) :> one)
                @@ (JoinPath(Units(source), <<"s", "/", "s", "/", "b", ".ini">>) :>
                      [exec |-> <<"%", "m", "/", "b">>, type |-> <<"never">>, restart |-> <<"always">>]),
      sections |-> (At(source, <<"rules", "/", "a", ".rules">>) :>
                      <<Rule(<<"tty">>, <<"t", "@", "%", "name">>, NONE), Rule(<<>>, <<"b">>, NONE),
                        Rule(<<"tty">>, NONE, NONE), Rule(<<"mount">>, <<"t", "@", "%", "name">>, NONE)>>)
                @@ (At(source, <<"rules", "/", "s", "/", "b", ".ini">>) :>
                      <<Rule(<<"mount">>, <<"b">>, <<"a">>), Rule(<<"tty">>, <<"@", "x">>, <<"x">>)>>),
      reports |-> <<Added(<<"x">>, NONE), Added(<<"a", "@", "b">>, <<"x">>),
                    Removed(<<"x">>, NONE)>>] :
       source \in {NONE, <<"/">>, <<"/", "s", "/", "x">>},
       first \in {<<"a", ".ini">>, <<"t", "@", ".ini">>, <<"@", "x", ".ini">>, <<"@", ".ini">>},
       second \in {<<"a", ".ini">>, <<"t", "@", "x", "@", "y", ".ini">>, <<"t", "@", "@", ".ini">>},
       one \in {NONE, [k \in {} |-> <<>>],
                [exec |-> <<"a">>, stop_timeout_ms |-> <<"0">>, after |-> <<",", "b">>],
                [restart |-> <<"never">>, args |-> <<"tab", "%">>]}}

\* Directories that are not there.
Missing ==
    {[source |-> source, scanned |-> TRUE,
      tree |-> IF units THEN Units(source) :> <<File(<<"a", ".ini">>)>> ELSE At(source, <<"rules">>) :> <<>>,
      files |-> JoinPath(Units(source), <<"a", ".ini">>) :> [exec |-> <<"a">>],
      sections |-> [f \in {} |-> NONE],
      reports |-> <<Added(<<"x">>, NONE)>>] :
       source \in {NONE, <<"/">>}, units \in BOOLEAN}

\* A unit of a mount point that is no instance, with a `%%` in it.
Percent ==
    {[source |-> <<"/", "s", "/">>, scanned |-> FALSE,
      tree |-> Units(<<"/", "s", "/">>) :> <<File(<<"a", ".ini">>)>>,
      files |-> JoinPath(Units(<<"/", "s", "/">>), <<"a", ".ini">>) :> [exec |-> <<"a">>, args |-> text],
      sections |-> [f \in {} |-> NONE],
      reports |-> <<>>] : text \in TextsUpTo(3, {"%", "m"})}

\* A device that comes back under another value, and the instances made for it
\* and for its removal, of libraries and others.
Returns ==
    {LET source == at.source IN
     [source |-> source, scanned |-> at.scanned,
      tree |-> (Units(source) :> <<File(<<"t", "@", ".ini">>), File(<<"b", "@", ".ini">>),
                                   File(<<"t", "@", "y", ".ini">>)>>)
               @@ (At(source, <<"rules">>) :> <<File(<<"a", ".ini">>)>>),
      files |-> (JoinPath(Units(source), <<"t", "@", ".ini">>) :>
                   [exec |-> <<"a">>, type |-> type, args |-> <<"%", "v", " ", "%", "i">>,
                    stop_timeout_ms |-> <<"%", "v">>])
                @@ (JoinPath(Units(source), <<"b", "@", ".ini">>) :>
                      [exec |-> <<"b">>, type |-> <<"library">>, args |-> <<"%", "v">>])
                @@ (JoinPath(Units(source), <<"t", "@", "y", ".ini">>) :> [type |-> <<"library">>]),
      sections |-> JoinPath(At(source, <<"rules">>), <<"a", ".ini">>) :>
                      <<Rule(<<"tty">>, <<"t", "@", "%", "name">>, <<"b", "@", "%", "name">>),
                        Rule(<<"tty">>, <<"t", "@", "x">>, NONE)>>,
      reports |-> <<Added(name, first), Added(name, <<"a">>), Removed(name, first),
                    Added(name, second), Removed(name, second)>>] :
       at \in {[source |-> NONE, scanned |-> TRUE]} \cup [source : {<<"/", "s">>}, scanned : BOOLEAN],
       type \in {<<"library">>, <<"%", "v">>}, name \in {<<"x">>, <<"y">>},
       first \in {NONE, <<"7">>, <<"library">>}, second \in {NONE, <<"-1">>}}

All == Texts \cup Targets \cup Trees \cup Missing \cup Returns
=============================================================================
