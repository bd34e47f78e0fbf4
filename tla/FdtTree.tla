------------------------------ MODULE FdtTree ------------------------------
(***************************************************************************)
(* What libfdt promises of a device tree: nodes known by their paths,      *)
(* properties by their node and name, and a list of reserved regions.  A   *)
(* call changes what it names and nothing else, or fails and changes       *)
(* nothing.                                                                *)
(***************************************************************************)
EXTENDS Integers, Sequences

CONSTANTS
    Names,      \* of nodes and of properties
    Values,     \* of properties, as sequences
    Sizes       \* of reserved regions; one of size 0 ends the list

Root == << <<>> >>      \* the path of the node without a name

VARIABLES
    nodes, props, rsv,
    call,           \* the last one: what was asked, and with which arguments
    answer          \* to it: done, or why not
tree == <<nodes, props, rsv>>
vars == <<nodes, props, rsv, call, answer>>

Parent(path) == SubSeq(path, 1, Len(path) - 1)
Below(top) == {n \in nodes : Len(n) >= Len(top) /\ SubSeq(n, 1, Len(top)) = top}

Init ==
    /\ Root \in nodes
    /\ \A n \in nodes \ {Root} : Parent(n) \in nodes
    /\ DOMAIN props \subseteq nodes \X Names
    /\ call = <<"resize">> /\ answer = "resized"

Put(key, value) == [k \in DOMAIN props \cup {key} |-> IF k = key THEN value ELSE props[k]]
Without(keys) == [k \in DOMAIN props \ keys |-> props[k]]

Asked(what) == call' = what
Succeeds == answer' = "ok"
Fails(because) == answer' = because /\ UNCHANGED tree
OrNoSpace(Done) == Done \/ Fails("nospace")

Setprop(n, p, v) ==
    /\ Asked(<<"setprop", n, p, v>>)
    /\ OrNoSpace(/\ Succeeds
                 /\ props' = Put(<<n, p>>, v)
                 /\ UNCHANGED <<nodes, rsv>>)

Appendprop(n, p, v) ==
    LET old == IF <<n, p>> \in DOMAIN props THEN props[<<n, p>>] ELSE <<>>
    IN  /\ Asked(<<"appendprop", n, p, v>>)
        /\ OrNoSpace(/\ Succeeds
                     /\ props' = Put(<<n, p>>, old \o v)
                     /\ UNCHANGED <<nodes, rsv>>)

Delprop(n, p) ==
    /\ Asked(<<"delprop", n, p>>)
    /\ IF <<n, p>> \notin DOMAIN props THEN Fails("notfound")
       ELSE /\ Succeeds
            /\ props' = Without({<<n, p>>})
            /\ UNCHANGED <<nodes, rsv>>

AddSubnode(n, name) ==
    /\ Asked(<<"add_subnode", n, name>>)
    /\ IF Append(n, name) \in nodes THEN Fails("exists")
       ELSE OrNoSpace(/\ Succeeds
                      /\ nodes' = nodes \cup {Append(n, name)}
                      /\ UNCHANGED <<props, rsv>>)

DelNode(n) ==
    /\ Asked(<<"del_node", n>>)
    /\ Succeeds
    /\ nodes' = nodes \ Below(n)
    /\ props' = Without({k \in DOMAIN props : k[1] \in Below(n)})
    /\ UNCHANGED rsv

SetName(n, name) ==
    LET Renamed(m) == IF m \in Below(n) THEN Append(Parent(n), name) \o SubSeq(m, Len(n) + 1, Len(m))
                      ELSE m
    IN  /\ Asked(<<"set_name", n, name>>)
        /\ OrNoSpace(/\ Succeeds
                     /\ nodes' = {Renamed(m) : m \in nodes}
                     /\ DOMAIN props' = {<<Renamed(k[1]), k[2]>> : k \in DOMAIN props}
                     /\ \A k \in DOMAIN props : props'[<<Renamed(k[1]), k[2]>>] = props[k]
                     /\ UNCHANGED rsv)

AddMemRsv(size) ==
    /\ Asked(<<"add_mem_rsv", size>>)
    /\ OrNoSpace(/\ Succeeds
                 /\ rsv' = IF size = 0 THEN rsv ELSE Append(rsv, size)
                 /\ UNCHANGED <<nodes, props>>)

DelMemRsv(i) ==
    /\ Asked(<<"del_mem_rsv", i>>)
    /\ Succeeds
    /\ rsv' = SubSeq(rsv, 1, i - 1) \o SubSeq(rsv, i + 1, Len(rsv))
    /\ UNCHANGED <<nodes, props>>

(* The missing nodes of a path, then a property.                           *)
CreatePath(path, p, v) ==
    /\ Asked(<<"create_path", path, p, v>>)
    /\ Succeeds
    /\ nodes' = nodes \cup {SubSeq(path, 1, k) : k \in 1 .. Len(path)}
    /\ props' = Put(<<path, p>>, v)
    /\ UNCHANGED rsv

(* Making the blob smaller or larger.                                      *)
Resize == Asked(<<"resize">>) /\ answer' = "resized" /\ UNCHANGED tree

Next ==
    \/ \E n \in nodes, p \in Names, v \in Values : Setprop(n, p, v) \/ Appendprop(n, p, v)
    \/ \E n \in nodes, p \in Names : Delprop(n, p)
    \/ \E n \in nodes, name \in Names : AddSubnode(n, name)
    \/ \E n \in nodes \ {Root} : DelNode(n)
    \/ \E n \in nodes \ {Root}, name \in Names :
           Append(Parent(n), name) \notin nodes /\ SetName(n, name)
    \/ \E size \in Sizes : AddMemRsv(size)
    \/ \E i \in 1 .. Len(rsv) : DelMemRsv(i)
    \/ \E n \in nodes, x, y, p \in Names, v \in Values : CreatePath(n \o <<x, y>>, p, v)
    \/ Resize

Spec == Init /\ [][Next]_vars

============================================================================
