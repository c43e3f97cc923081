------------------------------- MODULE Conversions -----------------------------
(***************************************************************************)
(* The startup configuration of a client, the information about an         *)
(* application and log items: one side turns a value into a JSON object,   *)
(* the other side, a process with its own descriptors, turns the object    *)
(* back. Objects from elsewhere (a command line typed by hand) reach that  *)
(* side as well.                                                           *)
(*                                                                         *)
(* A number is given in halves, so that there are numbers between the      *)
(* integers; IntMax stands for 2147483647. A configuration in the mode     *)
(* "connected_to_host" is [mode, fd], in the mode "standalone"             *)
(* [mode, inputs, outputs].                                                *)
(***************************************************************************)
EXTENDS LogItem, FiniteSetsExt

CONSTANTS
    IntMax,
    Ports, Paths,
    MaxPaths,      \* bound on the files of an output port
    ContentTypes,
    RawObjects     \* objects that do not come from to_jopp_object

ASSUME IntMaxAssumption == IntMax \in Nat \ {0}

\* A raw object is one of jopp's, as deep as the conversions look into it.
ASSUME RawObjectsAssumption ==
    LET parameters == FieldsOf(RawObjects)
        groups == PartsOf(parameters)
        entries == PartsOf(groups)
    IN  /\ \A obj \in RawObjects : IsFunction(obj)
        /\ \A v \in parameters \cup groups \cup entries \cup PartsOf(entries) : IsValue(v)

VARIABLES
    kind,      \* what is sent: "startup", "info", "items" or "raw"
    sent,      \* the value; two log items in the order they were logged; the raw object
    files,     \* open descriptors of the receiver: what they refer to
    at,        \* how far it has come: "sender", "wire", "receiver"
    wire,      \* the object on the way
    received   \* the result of the receiver: {} if it threw

vars == <<kind, sent, files, at, wire, received>>

Descriptors == 0 .. IntMax
FileMaps(domain, contents) == UNION {[p -> contents] : p \in SUBSET domain}
PathLists == UNION {[1 .. n -> Paths] : n \in 0 .. MaxPaths}

HostInfos == [mode : {"connected_to_host"}, fd : Descriptors]
StandaloneConfigs == [mode : {"standalone"},
                      inputs : FileMaps(Ports, Paths),
                      outputs : FileMaps(Ports, PathLists)]
StartupConfigs == HostInfos \cup StandaloneConfigs

ApplicationInfos == [display_name : ContentTypes,
                     inputs : FileMaps(Ports, ContentTypes),
                     outputs : FileMaps(Ports, ContentTypes)]

--------------------------------------------------------------------------------
(* startup_config.hpp *)

host_address_to_object(fd) == [type |-> String("socket_fd"), value |-> Number(2 * fd)]

input_map_to_object(m) == [p \in DOMAIN m |-> String(m[p])]

output_map_to_object(m) ==
    [p \in DOMAIN m |-> Array([i \in DOMAIN m[p] |-> String(m[p][i])])]

parameters_to_object(cfg) ==
    IF cfg.mode = "connected_to_host"
    THEN [address |-> Object(host_address_to_object(cfg.fd))]
    ELSE [inputs |-> Object(input_map_to_object(cfg.inputs)),
          outputs |-> Object(output_map_to_object(cfg.outputs))]

startup_config_to_object(cfg) ==
    [operational_mode |-> String(cfg.mode), parameters |-> Object(parameters_to_object(cfg))]

\* Mutated forms of make_socket_fd_ref: the fraction is cut off; it is not looked
\* at what the descriptor refers to.
make_socket_fd_ref_Truncates(value) ==
    LET fd_val == value \div 2
    IN  IF value < 0 \/ value > 2 * IntMax \/ fd_val \notin DOMAIN files THEN {}
        ELSE IF files[fd_val] # "socket" THEN {} ELSE {fd_val}
make_socket_fd_ref_NoStat(value) ==
    IF value < 0 \/ value > 2 * IntMax \/ value % 2 # 0 THEN {} ELSE {value \div 2}

make_socket_fd_ref(value) ==
    LET fd_val == value \div 2
    IN  IF value < 0 \/ value > 2 * IntMax \/ 2 * fd_val # value THEN {}
        ELSE IF fd_val \notin DOMAIN files THEN {}
        ELSE IF files[fd_val] # "socket" THEN {} ELSE {fd_val}

make_host_address(obj) ==
    UNION {IF type = "socket_fd"
           THEN UNION {make_socket_fd_ref(n) : n \in GetField(obj, "value", "number")}
           ELSE {} : type \in GetField(obj, "type", "string")}

make_host_info(obj) ==
    {[mode |-> "connected_to_host", fd |-> fd] :
        fd \in UNION {make_host_address(a) : a \in GetField(obj, "address", "object")}}

\* A loop that converts each element of an object or an array: it throws when the
\* conversion of any of them does.
ForEach(results) ==
    IF \E e \in DOMAIN results : results[e] = {} THEN {}
    ELSE {[e \in DOMAIN results |-> CHOOSE v \in results[e] : TRUE]}

Strings(elements) == ForEach([e \in DOMAIN elements |-> Get(elements[e], "string")])

make_input_port_file_map(obj) == Strings(obj)

make_output_port_file_map(obj) ==
    ForEach([p \in DOMAIN obj |-> UNION {Strings(a) : a \in Get(obj[p], "array")}])

\* Mutated form of make_standalone_config: the maps are mixed up.
make_standalone_config_Swapped(obj) ==
    {[mode |-> "standalone", inputs |-> i, outputs |-> o] :
        i \in UNION {make_input_port_file_map(m) : m \in GetField(obj, "outputs", "object")},
        o \in UNION {make_output_port_file_map(m) : m \in GetField(obj, "inputs", "object")}}

make_standalone_config(obj) ==
    {[mode |-> "standalone", inputs |-> i, outputs |-> o] :
        i \in UNION {make_input_port_file_map(m) : m \in GetField(obj, "inputs", "object")},
        o \in UNION {make_output_port_file_map(m) : m \in GetField(obj, "outputs", "object")}}

make_startup_config(obj) ==
    UNION {CASE mode = "connected_to_host" ->
                    UNION {make_host_info(p) : p \in GetField(obj, "parameters", "object")}
             [] mode = "standalone" ->
                    UNION {make_standalone_config(p) : p \in GetField(obj, "parameters", "object")}
             [] OTHER -> {} : mode \in GetField(obj, "operational_mode", "string")}

--------------------------------------------------------------------------------
(* client_application_info.hpp *)

port_info_map_to_object(m) ==
    [p \in DOMAIN m |-> Object([stream_content_type |-> String(m[p])])]

info_to_object(info) == [display_name |-> String(info.display_name),
                         inputs |-> Object(port_info_map_to_object(info.inputs)),
                         outputs |-> Object(port_info_map_to_object(info.outputs))]

make_port_info(v) ==
    UNION {GetField(o, "stream_content_type", "string") : o \in Get(v, "object")}

make_port_info_map(obj) == ForEach([p \in DOMAIN obj |-> make_port_info(obj[p])])

make_client_application_info(obj) ==
    {[display_name |-> n, inputs |-> i, outputs |-> o] :
        n \in GetField(obj, "display_name", "string"),
        i \in UNION {make_port_info_map(m) : m \in GetField(obj, "inputs", "object")},
        o \in UNION {make_port_info_map(m) : m \in GetField(obj, "output", "object")}}

--------------------------------------------------------------------------------
\* The descriptors of the receiver matter to a host address only.
Init == /\ \/ kind = "startup" /\ sent \in StartupConfigs
           \/ kind = "info" /\ sent \in ApplicationInfos
           \/ /\ kind = "items" /\ sent \in {<<a, b>> : a \in Items, b \in Items}
              /\ sent[1].when <= sent[2].when
           \/ kind = "raw" /\ sent \in RawObjects
        /\ IF kind = "raw" \/ (kind = "startup" /\ sent \in HostInfos)
           THEN files \in FileMaps(Descriptors, {"socket", "other"})
           ELSE files = << >>
        /\ at = "sender" /\ wire = << >> /\ received = {}

Send == /\ at = "sender" /\ at' = "wire"
        /\ wire' = CASE kind = "startup" -> startup_config_to_object(sent)
                     [] kind = "info" -> info_to_object(sent)
                     [] kind = "items" -> [i \in 1 .. 2 |-> item_to_object(sent[i])]
                     [] kind = "raw" -> sent
        /\ UNCHANGED <<kind, sent, files, received>>

Receive == /\ at = "wire" /\ at' = "receiver"
           /\ received' = CASE kind = "info" -> make_client_application_info(wire)
                            [] kind = "items" -> ForEach([i \in 1 .. 2 |-> make_log_item(wire[i])])
                            [] OTHER -> make_startup_config(wire)
           /\ UNCHANGED <<kind, sent, files, wire>>

Next == Send \/ Receive

Spec == Init /\ [][Next]_vars

--------------------------------------------------------------------------------
\* A startup configuration arrives as it was sent, with all ports and the files of
\* each port in their order, unless its descriptor is no open socket of the receiver.
StartupRoundTrip ==
    at = "receiver" /\ kind = "startup" =>
        LET usable == sent \in HostInfos =>
                          sent.fd \in DOMAIN files /\ files[sent.fd] = "socket"
        IN  received = IF usable THEN {sent} ELSE {}

\* Whatever object arrives, a configuration made from it refers to an open socket.
OnlySockets == \A cfg \in received :
    kind \in {"startup", "raw"} /\ cfg \in HostInfos =>
        cfg.fd \in DOMAIN files /\ files[cfg.fd] = "socket"

Within(a, b) == \A f \in DOMAIN a : f \in DOMAIN b /\ a[f] = b[f]

\* Whatever object arrives, a configuration made from it says what the object says:
\* nothing is rounded, made up or taken from another field. Unknown fields are ignored.
AcceptedIsMeant ==
    kind = "raw" => \A cfg \in received :
        LET meant == startup_config_to_object(cfg)
            given == wire.parameters.val
        IN  /\ wire.operational_mode = meant.operational_mode
            /\ IF cfg \in HostInfos
               THEN Within(meant.parameters.val.address.val, given.address.val)
               ELSE Within(meant.parameters.val, given)

\* Whatever the clock loses in a double, a receiver that sorts by time stamps never
\* swaps two messages.
OrderIsKept == kind = "items" => \A items \in received : items[1].when <= items[2].when

\* Apart from the time stamp a log item arrives as it was logged; the time stamp is
\* off by half a step of each of the two roundings at most.
ItemsArrive ==
    kind = "items" /\ at = "receiver" => \E items \in received : \A i \in 1 .. 2 :
        /\ [items[i] EXCEPT !.when = 0] = [sent[i] EXCEPT !.when = 0]
        /\ LET drift == items[i].when - sent[i].when
           IN  2 * StepsPerSecond * Max({drift, -drift})
                   <= TicksPerSecond + Coarse * StepsPerSecond

\* "Converts a jopp::object to a client_application_info": what to_jopp_object made
\* of it is turned back into it.
InfoRoundTrip == at = "receiver" /\ kind = "info" => received = {sent}
================================================================================
