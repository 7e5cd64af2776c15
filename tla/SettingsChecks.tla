--------------------------- MODULE SettingsChecks ---------------------------
(***************************************************************************)
(* Settings against what its layers promise, over every config of a small  *)
(* shape: a plain key, an optional table that is null unless somebody sets *)
(* it, a key inside it, and one key nobody declares.                       *)
(***************************************************************************)
LOCAL INSTANCE Settings

Number(k) == [is |-> "integer", n |-> k]
Text == [is |-> "string", text |-> "text"]
Unbounded == [min |-> -1000, max |-> 1000]
Setting(key, kind, default, optional, bounds) ==
    [key |-> key, kind |-> kind, default |-> default, optional |-> optional,
     min |-> bounds.min, max |-> bounds.max]

PushSpecs(push) ==
    <<Setting(<<"push">>, "table", push, TRUE, Unbounded),
      Setting(<<"push", "depth">>, "integer", Number(1), TRUE, [min |-> 0, max |-> 3]),
      Setting(<<"size">>, "number", Number(2), FALSE, [min |-> 1, max |-> 3])>>

Declarations == {PushSpecs(Null), PushSpecs(Empty)}
Declared(specs) == {specs[i].key : i \in DOMAIN specs}
Paths == {<<"push">>, <<"push", "depth">>, <<"push", "name">>, <<"size">>, <<"name">>}

Depths == {Null, Text} \cup {Number(k) : k \in {0, 4}}
Pushes == {Null, Number(1), Empty, Table([name |-> Text])} \cup {Table([depth |-> d]) : d \in Depths}
Sizes == {Null, Number(0), Number(3)}
Configs ==
    {Empty, Table([name |-> Text])}
        \cup {Table([push |-> p]) : p \in Pushes}
        \cup {Table([size |-> s]) : s \in Sizes}
        \cup {Table([push |-> p, size |-> s]) : p \in Pushes, s \in Sizes}

Leaf(value) == value # Missing /\ value # Null /\ ~IsTable(value)
(* Something at, around or inside a key is written in a config. *)
Touches(config, key) ==
    Get(config, key) # Missing
        \/ \E outer \in Enclosing(key) : Get(config, outer) # Missing /\ ~IsTable(Get(config, outer))

(* A key that the upper layer does not touch keeps what the lower one     *)
(* says, and a value it writes is what comes out.  settings.rs:126-145.    *)
ASSUME MergedFieldByField ==
    \A low, high \in Configs, key \in Paths :
        LET merged == Merge(low, high)
        IN /\ ~Touches(high, key) => Get(merged, key) = Get(low, key)
           /\ Leaf(Get(high, key)) => Get(merged, key) = Get(high, key)
           /\ Get(high, key) = Null /\ Get(low, key) # Missing => Get(merged, key) = Missing

(* What apply accepts conforms to every declaration that is not inside an *)
(* absent table, and holds every value the config wrote.                   *)
ASSUME AppliedConforms ==
    \A specs \in Declarations, config \in Configs :
        LET out == Apply(specs, config)
        IN out # Refused =>
            /\ \A i \in DOMAIN specs :
                 ~AbsentIn(specs, specs[i].key, out) => Conforms(specs[i], Get(out, specs[i].key))
            /\ \A key \in Paths : Leaf(Get(config, key)) => Get(out, key) = Get(config, key)

(* It refuses only for a written value that breaks a declaration.  A null *)
(* inside a table that is null by default is such a value: it is laid over *)
(* nothing and stays, and only an optional key may hold it.                *)
ASSUME RefusedForAValue ==
    \A specs \in Declarations, config \in Configs :
        Apply(specs, config) = Refused =>
            \E i \in DOMAIN specs : LET value == Get(config, specs[i].key)
                                    IN value \notin {Missing, Null} /\ ~Conforms(specs[i], value)

(* What was settled once settles to itself: the plan merges the defaults  *)
(* twice (plan.rs:213-231, settings.rs:205-207).                           *)
ASSUME AppliedTwiceIsOnce ==
    \A specs \in Declarations, config \in Configs :
        LET once == Apply(specs, config)
        IN once # Refused => Apply(specs, once) = once

(* A config whose only author writes a null gets the default back.        *)
ASSUME NullIsTheDefault ==
    \A specs \in Declarations, config \in Configs, i \in 1 .. 3 :
        LET out == Apply(specs, config)
        IN Len(specs[i].key) = 1 /\ Get(config, specs[i].key) = Null /\ out # Refused
            => Get(out, specs[i].key) = Get(Defaults(specs), specs[i].key)

(* Laying the two config.lua files over each other first is the same as   *)
(* laying them over the entry in turn, as long as they write no null and   *)
(* lay no scalar over a table.  entries.rs:76-98.                          *)
Simple ==
    {c \in Configs : /\ \A key \in Paths : Get(c, key) # Null
                     /\ Get(c, <<"push">>) = Missing \/ IsTable(Get(c, <<"push">>))}
ASSUME LayeredInTurn ==
    \A entry, global, project \in Simple :
        EntryConfig(entry, global, project) = Merge(Merge(entry, global), project)

(* A null of the project's file is consumed by the machine's: the author's *)
(* value stands where the layers in turn would give the default.           *)
ASSUME NullOfTheProjectStopsAtTheMachine ==
    LET size(v) == Table([size |-> v])
    IN EntryConfig(size(Number(1)), size(Number(3)), size(Null)) = size(Number(1))

(* Undeclared keys are the uppermost paths that lead to no declaration.   *)
ASSUME UndeclaredAreUppermost ==
    \A specs \in {SubSeq(PushSpecs(Null), n, 3) : n \in 1 .. 3}, config \in Configs :
        Undeclared(specs, config) =
            {key \in Paths :
                /\ Get(config, key) # Missing
                /\ key \notin Declared(specs) /\ Enclosing(key) \cap Declared(specs) = {}
                /\ ~(IsTable(Get(config, key)) /\ DeclaresUnder(specs, key))
                /\ \A outer \in Enclosing(key) : DeclaresUnder(specs, outer)}

(* The host always runs on settings of its own declaration, whatever the  *)
(* files hold: they count together or not at all.  settings/host.rs:60-91 *)
HostSpecs == <<Setting(<<"queue">>, "integer", Number(2), FALSE, [min |-> 1, max |-> 3]),
               Setting(<<"size">>, "integer", Number(3), FALSE, [min |-> 1, max |-> 3])>>
HostTables == {Null, Number(1), Empty, Table([name |-> Text])}
                 \cup {Table([queue |-> q, size |-> s]) : q \in Sizes, s \in Sizes}
HostFiles == {NoFile, Text, Unreadable, Empty} \cup {Table([host |-> t]) : t \in HostTables}

ASSUME HostConforms ==
    \A global, project \in HostFiles :
        LET out == HostSettled(HostSpecs, global, project)
        IN /\ DOMAIN out.of = {"queue", "size"}
           /\ \A i \in DOMAIN HostSpecs : Conforms(HostSpecs[i], Get(out, HostSpecs[i].key))
           /\ ReadLayer(global) = Unreadable => out = Defaults(HostSpecs)

(* With yolo on, whatever declares `yolo` runs with it on, and nothing    *)
(* else changes.                                                           *)
YoloSpecs == <<Setting(<<"size">>, "integer", Number(2), FALSE, [min |-> 1, max |-> 3]),
               Setting(<<"yolo">>, "boolean", [is |-> "boolean", on |-> FALSE], FALSE, Unbounded)>>
ASSUME YoloWins ==
    \A size \in Sizes \ {Number(0)}, on \in BOOLEAN :
        LET config == Table([size |-> size, yolo |-> [is |-> "boolean", on |-> on]])
            out    == SettleConfig(YoloSpecs, Null, config, TRUE)
        IN /\ Get(out, <<"yolo">>).on
           /\ Get(out, <<"size">>) = Get(SettleConfig(YoloSpecs, Null, config, FALSE), <<"size">>)
           /\ SettleConfig(<<>>, Null, Null, TRUE) = Null
=============================================================================
