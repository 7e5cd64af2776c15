-------------------------------- MODULE Uses --------------------------------
(***************************************************************************)
(* The uses the base retains for viewers that join late                    *)
(* (src/asp/activity.rs): records, entities and edges, each up to Retained. *)
(* Entities are ordered by Before; a path is a sequence of steps.          *)
(***************************************************************************)
EXTENDS Integers, Sequences, SequencesExt, FiniteSets, FiniteSetsExt, TLC

CONSTANTS Retained, Before(_, _)

NoUses == [serial |-> 0, records |-> <<>>, nodes |-> {}, edges |-> <<>>]

Newest(list) == SubSeq(list, IF Len(list) > Retained THEN Len(list) - Retained + 1 ELSE 1, Len(list))

Referenced(records) == UNION {records[i].entities : i \in DOMAIN records}

(* Over the bound, an entity no retained record names goes first, then the *)
(* smallest.                                                               *)
Pruned(nodes, records) ==
    IF Cardinality(nodes) <= Retained THEN nodes
    ELSE LET kept == nodes \cap Referenced(records)
             above(n) == {m \in kept : Before(n, m)}
         IN {n \in kept : Cardinality(above(n)) < Retained}

Record(uses, operation, entities, nodes, edges) ==
    LET serial  == uses.serial + 1
        records == Newest(Append(uses.records, [seq |-> serial, operation |-> operation, entities |-> entities]))
        added   == FoldLeft(LAMBDA list, e : IF Contains(list, e) THEN list ELSE Append(list, e),
                            uses.edges, edges)
    IN [serial |-> serial, records |-> records, edges |-> Newest(added),
        nodes |-> Pruned(uses.nodes \cup nodes, records)]

(* What a lookup is observed as, unless the caller asks not to be.         *)
Observed(op, observe) == observe /\ op \in {"search", "expand", "actions", "act"}

(***************************************************************************)
(* A dispatched event is recorded with the file and the entity it names.   *)
(***************************************************************************)
Clean(path) ==
    FoldLeft(LAMBDA clean, step : CASE step = ".." -> IF clean = <<>> THEN clean ELSE Front(clean)
                                    [] step = "."  -> clean
                                    [] OTHER       -> Append(clean, step),
             <<>>, path)

FileEntity(root, cwd, path, absolute) ==
    LET clean == Clean(IF absolute THEN path ELSE cwd \o path)
    IN IF path = <<>> \/ ~IsPrefix(root, clean) THEN {}
       ELSE {<<"file", SubSeq(clean, Len(root) + 1, Len(clean))>>}

(* What only watches, or feeds the watchers, is no use.                    *)
Watching(request) ==
    \/ request.family \in {"trace", "scope.detail", "asp"}
    \/ request.op \in {"describe", "status", "health", "ready"}
    \/ request.name = "memory" /\ request.op = "trace" /\ request.action \in {"cycles", "status"}

Dispatch(uses, root, request) ==
    IF Watching(request) THEN uses
    ELSE Record(uses, "dispatch",
                {<<"event", request.name>>} \cup FileEntity(root, request.cwd, request.path, request.absolute)
                  \cup request.entity,
                {}, <<>>)
=============================================================================
