----------------------------- MODULE MCConversions -----------------------------
(* Model-checking instance of Conversions: objects with missing, additional   *)
(* and misspelt fields, with values of another type, and with numbers that    *)
(* are no descriptors.                                                        *)
EXTENDS Conversions

CONSTANT path

MCAddresses ==
    {[value |-> Number(2)], [type |-> String("socket_fd")],
     [type |-> Number(0), value |-> Number(2)],
     [type |-> String("hostname"), value |-> Number(2)],
     [type |-> String("socket_fd"), value |-> String("2")],
     [type |-> String("socket_fd"), value |-> Number(2), comment |-> String("x")]}
    \cup {[type |-> String("socket_fd"), value |-> Number(n)] : n \in -3 .. 2 * IntMax + 3}

MCParameters ==
    {[address |-> Object(a)] : a \in MCAddresses}
    \cup {<< >>, [address |-> String("socket_fd")]}
    \cup {[inputs |-> i, outputs |-> o] :
            i \in {Object(<< >>), Object([p1 |-> String(path)]),
                   Object([p1 |-> Array(<<String(path)>>)]), Array(<< >>)},
            o \in {Object(<< >>), Object([p1 |-> Array(<<String(path), String(path)>>)]),
                   Object([p1 |-> String(path)]), Object([p1 |-> Array(<<Number(2)>>)]),
                   Array(<< >>)}}

MCRawObjects ==
    {<< >>, [operational_mode |-> String("standalone")],
     [operational_mode |-> String("standalone"), parameters |-> Number(0)]}
    \cup {[operational_mode |-> m, parameters |-> Object(p)] :
            m \in {String("connected_to_host"), String("standalone"), String("peer"), Number(0)},
            p \in MCParameters}
================================================================================
