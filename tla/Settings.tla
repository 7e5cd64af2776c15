------------------------------ MODULE Settings ------------------------------
(***************************************************************************)
(* How the declared settings of a cartridge and of the host are settled    *)
(* from their layers (src/transport/settings.rs, src/settings/*.rs and     *)
(* what the loader and the plan do with them).  A JSON value is a record   *)
(* tagged with what it is; a key is the sequence of the steps its dots     *)
(* separate; declarations are a sequence in the order of their names, so   *)
(* that a table comes before the keys inside it.  An undeclared bound is   *)
(* a bound no value reaches.                                               *)
(***************************************************************************)
EXTENDS Integers, Sequences, SequencesExt, TLC

Null == [is |-> "null"]
Table(of) == [is |-> "table", of |-> of]
Empty == Table(<<>>)
Missing == [is |-> "nothing"]
Refused == [is |-> "refused"]

IsTable(value) == value.is = "table"

(* Spec::check: an optional key may be null, a number has its bounds. *)
Holds(kind, value) ==
    value.is = kind \/ (kind = "number" /\ value.is = "integer")

Conforms(spec, value) ==
    \/ spec.optional /\ value = Null
    \/ /\ Holds(spec.kind, value)
       /\ value.is = "integer" => value.n \in spec.min .. spec.max

(* A null takes the key away where there is a table to take it from; what  *)
(* has nothing under it goes in as it is, the nulls inside it included.    *)
RECURSIVE Merge(_, _)
Merge(base, over) ==
    IF ~(IsTable(base) /\ IsTable(over)) THEN over
    ELSE LET removed == {k \in DOMAIN over.of : over.of[k] = Null}
             both    == DOMAIN base.of \cap DOMAIN over.of
         IN Table([k \in (DOMAIN base.of \cup DOMAIN over.of) \ removed |->
                     IF k \in both THEN Merge(base.of[k], over.of[k])
                     ELSE IF k \in DOMAIN base.of THEN base.of[k] ELSE over.of[k]])

At(value, step) ==
    IF IsTable(value) /\ step \in DOMAIN value.of THEN value.of[step] ELSE Missing

Get(value, key) == FoldLeft(At, value, key)

(* Whatever stands on the way and is no table becomes one. *)
RECURSIVE Put(_, _, _)
Put(value, key, leaf) ==
    LET map == IF IsTable(value) THEN value.of ELSE <<>>
        low == IF Len(key) = 1 THEN leaf ELSE Put(At(Table(map), Head(key)), Tail(key), leaf)
    IN Table((Head(key) :> low) @@ map)

Enclosing(key) == {SubSeq(key, 1, n) : n \in 1 .. Len(key) - 1}

OptionalAround(specs, key) ==
    {specs[i] : i \in {j \in DOMAIN specs : specs[j].key \in Enclosing(key) /\ specs[j].optional}}

(* A key is absent with the optional table around it: by default ... *)
AbsentByDefault(specs, key) == \E outer \in OptionalAround(specs, key) : outer.default = Null

(* ... or in what the layers left. *)
AbsentIn(specs, key, out) ==
    \E outer \in OptionalAround(specs, key) : Get(out, outer.key) \in {Missing, Null}

Defaults(specs) ==
    FoldLeft(LAMBDA out, spec : IF AbsentByDefault(specs, spec.key) THEN out
                                ELSE Put(out, spec.key, spec.default),
             Empty, specs)

Filled(out, spec) ==
    IF Get(out, spec.key) = Missing THEN Put(out, spec.key, spec.default) ELSE out

SettleKey(specs, out, spec) ==
    IF out = Refused \/ AbsentIn(specs, spec.key, out) THEN out
    ELSE LET filled == Filled(out, spec)
         IN IF Conforms(spec, Get(filled, spec.key)) THEN filled ELSE Refused

Apply(specs, config) ==
    FoldLeft(LAMBDA out, spec : SettleKey(specs, out, spec), Merge(Defaults(specs), config), specs)

(* With CARTRIDGE_YOLO set, `yolo` is on wherever it is declared. *)
ApplyYolo(specs, config, yolo) ==
    IF yolo /\ \E i \in DOMAIN specs : specs[i].key = <<"yolo">>
    THEN Apply(specs, Merge(config, Table([yolo |-> [is |-> "boolean", on |-> TRUE]])))
    ELSE Apply(specs, config)

(* The keys of a config that nothing declares: a table is entered only     *)
(* when something inside it is declared.                                   *)
DeclaresUnder(specs, key) == \E i \in DOMAIN specs : key \in Enclosing(specs[i].key)
DeclaresKey(specs, key)   == \E i \in DOMAIN specs : specs[i].key = key

RECURSIVE Walk(_, _, _)
Walk(specs, value, prefix) ==
    IF ~IsTable(value) THEN {}
    ELSE UNION {LET dotted == Append(prefix, k)
                IN IF DeclaresKey(specs, dotted) THEN {}
                   ELSE IF IsTable(value.of[k]) /\ DeclaresUnder(specs, dotted)
                   THEN Walk(specs, value.of[k], dotted)
                   ELSE {dotted}
                : k \in DOMAIN value.of}

Undeclared(specs, config) == Walk(specs, config, <<>>)

(***************************************************************************)
(* The layers of one cartridge.  The two config.lua files are laid over    *)
(* each other per entry, and the result over the config of the entry.      *)
(***************************************************************************)
Overrides(global, project) ==
    IF global = Missing THEN project ELSE IF project = Missing THEN global ELSE Merge(global, project)

EntryConfig(entry, global, project) ==
    LET over == Overrides(global, project)
    IN IF over = Missing THEN entry ELSE Merge(entry, over)

Layer(out, layer) == IF layer = Null THEN out ELSE Merge(out, layer)

SettleConfig(specs, author, config, yolo) ==
    IF specs = <<>> /\ author = Null /\ config = Null THEN Null
    ELSE ApplyYolo(specs, FoldLeft(Layer, Defaults(specs), <<author, config>>), yolo)

(* What `cartridge settings` says of a key, and of the keys nobody declared. *)
Shown(specs, author, config) == FoldLeft(Layer, Defaults(specs), <<author, config>>)

SourceOf(key, global, project, settled, declared) ==
    IF Get(project, key) # Missing THEN "project"
    ELSE IF Get(global, key) # Missing THEN "global"
    ELSE IF settled # declared THEN "descriptor" ELSE "default"

(***************************************************************************)
(* The settings of the host: a file that cannot be read, a value out of    *)
(* its bounds and a key nobody declared all fall back to every default.    *)
(***************************************************************************)
Unreadable == [is |-> "unreadable"]
NoFile == [is |-> "missing"]

ReadLayer(file) ==
    IF file = NoFile THEN Empty ELSE IF IsTable(file) THEN file ELSE Unreadable

HostLayers(global, project) ==
    IF Unreadable \in {ReadLayer(global), ReadLayer(project)} THEN Unreadable
    ELSE Merge(ReadLayer(global), ReadLayer(project))

Typed(specs, settled) ==
    IF DOMAIN settled.of = {specs[i].key[1] : i \in DOMAIN specs} THEN settled ELSE Defaults(specs)

HostSettled(specs, global, project) ==
    LET files      == HostLayers(global, project)
        configured == IF files = Unreadable \/ Get(files, <<"host">>) = Missing
                      THEN Empty ELSE Get(files, <<"host">>)
        settled    == Apply(specs, configured)
    IN Typed(specs, IF settled = Refused THEN Defaults(specs) ELSE settled)
=============================================================================
