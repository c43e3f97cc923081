--------------------------- MODULE ConversionsProofs ---------------------------
(***************************************************************************)
(* Proofs about the startup configuration, for every set of ports and of   *)
(* files, every range of descriptors, every table of them and every object *)
(* that may come from elsewhere.                                           *)
(***************************************************************************)
EXTENDS Conversions, TLAPS

--------------------------------------------------------------------------------
(* Only sockets.                                                             *)

LEMMA SocketsOnly ==
    ASSUME NEW obj, NEW cfg \in make_startup_config(obj), cfg \in HostInfos
    PROVE  cfg.fd \in DOMAIN files /\ files[cfg.fd] = "socket"
<1>1. PICK mode \in GetField(obj, "operational_mode", "string") :
        cfg \in CASE mode = "connected_to_host" ->
                        UNION {make_host_info(p) : p \in GetField(obj, "parameters", "object")}
                  [] mode = "standalone" ->
                        UNION {make_standalone_config(p) : p \in GetField(obj, "parameters", "object")}
                  [] OTHER -> {}
  BY Zenon DEF make_startup_config
<1>2. cfg.mode = "connected_to_host"
  BY DEF HostInfos
<1>3. ASSUME NEW p, cfg \in make_standalone_config(p) PROVE FALSE
  BY <1>2, <1>3 DEF make_standalone_config
<1>4. PICK p : cfg \in make_host_info(p)
  <2>1. CASE mode = "connected_to_host"
    BY <1>1, <2>1
  <2>2. CASE mode = "standalone"
    BY <1>1, <1>3, <2>2
  <2>3. CASE mode \notin {"connected_to_host", "standalone"}
    BY <1>1, <2>3
  <2> QED
    BY <2>1, <2>2, <2>3
<1>5. PICK a : cfg.fd \in make_host_address(a)
  BY <1>4 DEF make_host_info
<1>6. PICK n : cfg.fd \in make_socket_fd_ref(n)
  BY <1>5 DEF make_host_address
<1> QED
  BY <1>6 DEF make_socket_fd_ref

OnlySocketsInv == OnlySockets /\ (at # "receiver" => received = {})

\* Whatever the object, the fields and numbers in it and the descriptors of the
\* receiver are, the descriptor that is accepted is an open socket.
THEOREM AcceptsOnlySockets == Spec => []OnlySockets
<1>1. Init => OnlySocketsInv
  BY DEF Init, OnlySocketsInv, OnlySockets
<1>2. OnlySocketsInv /\ [Next]_vars => OnlySocketsInv'
  <2> SUFFICES ASSUME OnlySocketsInv, [Next]_vars PROVE OnlySocketsInv'
    OBVIOUS
  <2>1. CASE Send
    BY <2>1 DEF Send, OnlySocketsInv, OnlySockets
  <2>2. CASE Receive
    <3> SUFFICES ASSUME NEW cfg \in received', kind' \in {"startup", "raw"}, cfg \in HostInfos
                 PROVE  cfg.fd \in DOMAIN files' /\ files'[cfg.fd] = "socket"
      BY <2>2 DEF Receive, OnlySocketsInv, OnlySockets
    <3>1. received' = make_startup_config(wire) /\ files' = files
      BY <2>2 DEF Receive
    <3> QED
      BY <3>1, SocketsOnly
  <2>3. CASE UNCHANGED vars
    BY <2>3 DEF vars, OnlySocketsInv, OnlySockets
  <2> QED
    BY <2>1, <2>2, <2>3 DEF Next
<1> QED
  BY <1>1, <1>2, PTL DEF Spec, OnlySocketsInv

--------------------------------------------------------------------------------
(* The round trip.                                                           *)

LEMMA GetsValue ==
    ASSUME NEW v
    PROVE  /\ Get(Number(v), "number") = {v} /\ Get(String(v), "string") = {v}
           /\ Get(Array(v), "array") = {v} /\ Get(Object(v), "object") = {v}
  BY DEF Get, Number, String, Array, Object

\* A loop whose conversions all return one value returns them all.
LEMMA ForEachReturns ==
    ASSUME NEW results, NEW f, DOMAIN f = DOMAIN results, f = [e \in DOMAIN f |-> f[e]],
           \A e \in DOMAIN results : results[e] = {f[e]}
    PROVE  ForEach(results) = {f}
<1>1. \A e \in DOMAIN results : (CHOOSE v \in results[e] : TRUE) = f[e]
  OBVIOUS
<1>2. [e \in DOMAIN results |-> CHOOSE v \in results[e] : TRUE] = f
  BY <1>1
<1> QED
  BY <1>2 DEF ForEach

LEMMA StringsReturn ==
    ASSUME NEW f, f = [e \in DOMAIN f |-> f[e]]
    PROVE  Strings([e \in DOMAIN f |-> String(f[e])]) = {f}
<1> DEFINE results == [e \in DOMAIN f |-> Get(String(f[e]), "string")]
<1>1. DOMAIN results = DOMAIN f /\ \A e \in DOMAIN results : results[e] = {f[e]}
  BY GetsValue
<1>2. ForEach(results) = {f}
  <2> HIDE DEF results
  <2> QED
    BY <1>1, ForEachReturns
<1> QED
  BY <1>2 DEF Strings

LEMMA InputsReturn ==
    ASSUME NEW m \in FileMaps(Ports, Paths)
    PROVE  make_input_port_file_map(input_map_to_object(m)) = {m}
<1>1. m = [p \in DOMAIN m |-> m[p]]
  BY DEF FileMaps
<1> QED
  BY <1>1, StringsReturn DEF make_input_port_file_map, input_map_to_object

LEMMA OutputsReturn ==
    ASSUME NEW m \in FileMaps(Ports, PathLists)
    PROVE  make_output_port_file_map(output_map_to_object(m)) = {m}
<1> DEFINE obj == output_map_to_object(m)
           results == [p \in DOMAIN obj |-> UNION {Strings(a) : a \in Get(obj[p], "array")}]
<1>1. m = [p \in DOMAIN m |-> m[p]] /\ \A p \in DOMAIN m : m[p] \in PathLists
  BY DEF FileMaps
<1>2. DOMAIN results = DOMAIN m
  BY DEF output_map_to_object
<1>3. ASSUME NEW p \in DOMAIN m PROVE results[p] = {m[p]}
  <2> DEFINE list == [i \in DOMAIN m[p] |-> String(m[p][i])]
  <2>1. obj[p] = Array(list)
    BY DEF output_map_to_object
  <2>2. Get(obj[p], "array") = {list}
    BY <2>1, GetsValue
  <2>3. m[p] = [i \in DOMAIN m[p] |-> m[p][i]]
    BY <1>1 DEF PathLists
  <2>4. Strings(list) = {m[p]}
    BY <2>3, StringsReturn
  <2>5. results[p] = UNION {Strings(a) : a \in Get(obj[p], "array")}
    BY <1>2
  <2> HIDE DEF list, results, obj
  <2> QED
    BY <2>2, <2>4, <2>5
<1>4. ForEach(results) = {m}
  <2> HIDE DEF results
  <2> QED
    BY <1>1, <1>2, <1>3, ForEachReturns
<1> QED
  BY <1>4 DEF make_output_port_file_map

\* The one descriptor of a table that is sent: the receiver takes it if it is an
\* open socket, for then it is within the range, a whole number and known.
LEMMA AddressReturns ==
    ASSUME NEW fd \in Descriptors
    PROVE  make_host_address(host_address_to_object(fd)) =
               IF fd \in DOMAIN files /\ files[fd] = "socket" THEN {fd} ELSE {}
<1> DEFINE obj == host_address_to_object(fd)
<1>1. GetField(obj, "type", "string") = {"socket_fd"} /\ GetField(obj, "value", "number") = {2 * fd}
  BY GetsValue DEF host_address_to_object, GetField
<1>2. make_host_address(obj) = make_socket_fd_ref(2 * fd)
  <2> HIDE DEF obj
  <2> QED
    BY <1>1 DEF make_host_address
<1>3. /\ (2 * fd) \div 2 = fd /\ ~(2 * fd < 0) /\ ~(2 * fd > 2 * IntMax)
      /\ 2 * ((2 * fd) \div 2) = 2 * fd
  BY IntMaxAssumption DEF Descriptors
<1>4. make_socket_fd_ref(2 * fd) =
          IF fd \in DOMAIN files /\ files[fd] = "socket" THEN {fd} ELSE {}
  BY <1>3 DEF make_socket_fd_ref
<1> QED
  BY <1>2, <1>4

Usable(cfg) == cfg \in HostInfos => cfg.fd \in DOMAIN files /\ files[cfg.fd] = "socket"

LEMMA ConfigReturns ==
    ASSUME NEW cfg \in StartupConfigs
    PROVE  make_startup_config(startup_config_to_object(cfg)) = IF Usable(cfg) THEN {cfg} ELSE {}
<1> DEFINE obj == startup_config_to_object(cfg)
           params == parameters_to_object(cfg)
<1>1. /\ GetField(obj, "operational_mode", "string") = {cfg.mode}
      /\ GetField(obj, "parameters", "object") = {params}
  BY GetsValue DEF startup_config_to_object, GetField
<1>2. CASE cfg \in HostInfos
  <2>1. cfg.mode = "connected_to_host" /\ cfg.fd \in Descriptors
        /\ cfg = [mode |-> "connected_to_host", fd |-> cfg.fd]
    BY <1>2 DEF HostInfos
  <2>2. make_startup_config(obj) = make_host_info(params)
    <3> HIDE DEF obj, params
    <3> QED
      BY <1>1, <2>1 DEF make_startup_config
  <2>3. GetField(params, "address", "object") = {host_address_to_object(cfg.fd)}
    BY <2>1, GetsValue DEF parameters_to_object, GetField
  <2>4. make_host_info(params) =
            {[mode |-> "connected_to_host", fd |-> fd] :
                fd \in make_host_address(host_address_to_object(cfg.fd))}
    <3> HIDE DEF params
    <3> QED
      BY <2>3 DEF make_host_info
  <2>5. make_host_info(params) = IF Usable(cfg) THEN {cfg} ELSE {}
    BY <1>2, <2>1, <2>4, AddressReturns DEF Usable
  <2> QED
    BY <2>2, <2>5
<1>3. CASE cfg \in StandaloneConfigs
  <2>1. /\ cfg.mode = "standalone" /\ cfg \notin HostInfos
        /\ cfg.inputs \in FileMaps(Ports, Paths) /\ cfg.outputs \in FileMaps(Ports, PathLists)
        /\ cfg = [mode |-> "standalone", inputs |-> cfg.inputs, outputs |-> cfg.outputs]
    BY <1>3 DEF StandaloneConfigs, HostInfos
  <2>2. make_startup_config(obj) = make_standalone_config(params)
    <3> HIDE DEF obj, params
    <3> QED
      BY <1>1, <2>1 DEF make_startup_config
  <2>3. /\ GetField(params, "inputs", "object") = {input_map_to_object(cfg.inputs)}
        /\ GetField(params, "outputs", "object") = {output_map_to_object(cfg.outputs)}
    BY <2>1, GetsValue DEF parameters_to_object, GetField
  <2>4. /\ UNION {make_input_port_file_map(m) : m \in GetField(params, "inputs", "object")}
              = {cfg.inputs}
        /\ UNION {make_output_port_file_map(m) : m \in GetField(params, "outputs", "object")}
              = {cfg.outputs}
    <3> HIDE DEF params
    <3> QED
      BY <2>1, <2>3, InputsReturn, OutputsReturn
  <2>5. make_standalone_config(params) = {cfg}
    <3> HIDE DEF params
    <3> QED
      BY <2>1, <2>4 DEF make_standalone_config
  <2> QED
    BY <2>1, <2>2, <2>5 DEF Usable
<1> QED
  BY <1>2, <1>3 DEF StartupConfigs

RoundTripInv ==
    /\ at \in {"sender", "wire", "receiver"}
    /\ kind = "startup" => /\ sent \in StartupConfigs
                           /\ at = "wire" => wire = startup_config_to_object(sent)
    /\ StartupRoundTrip

\* Every startup configuration, with any number of ports and files, arrives as it
\* was sent, unless its descriptor is no open socket of the receiver.
THEOREM ConfigSurvives == Spec => []StartupRoundTrip
<1>1. Init => RoundTripInv
  BY DEF Init, RoundTripInv, StartupRoundTrip
<1>2. RoundTripInv /\ [Next]_vars => RoundTripInv'
  <2> SUFFICES ASSUME RoundTripInv, [Next]_vars PROVE RoundTripInv'
    OBVIOUS
  <2>1. CASE Send
    BY <2>1 DEF Send, RoundTripInv, StartupRoundTrip
  <2>2. CASE Receive
    <3>1. /\ at = "wire" /\ at' = "receiver" /\ UNCHANGED <<kind, sent, files>>
          /\ kind = "startup" => received' = make_startup_config(wire)
      BY <2>2 DEF Receive
    <3>2. kind = "startup" => received' = IF Usable(sent) THEN {sent} ELSE {}
      BY <3>1, ConfigReturns DEF RoundTripInv
    <3> QED
      BY <3>1, <3>2 DEF RoundTripInv, StartupRoundTrip, Usable
  <2>3. CASE UNCHANGED vars
    BY <2>3 DEF vars, RoundTripInv, StartupRoundTrip
  <2> QED
    BY <2>1, <2>2, <2>3 DEF Next
<1> QED
  BY <1>1, <1>2, PTL DEF Spec, RoundTripInv
--------------------------------------------------------------------------------
(* The order of log items. Both roundings are monotonic.                     *)

LEMMA Division ==
    ASSUME NEW n \in Nat, NEW d \in Nat \ {0}
    PROVE  /\ n \div d \in Nat /\ n % d \in 0 .. d - 1
           /\ n = d * (n \div d) + (n % d)
<1>1. n \div d \in Nat /\ n % d \in 0 .. d - 1
  OBVIOUS
<1>2. n = d * (n \div d) + (n % d)
  BY SMT
<1> QED
  BY <1>1, <1>2

LEMMA ProductsKeepOrder ==
    ASSUME NEW a \in Nat, NEW b \in Nat, NEW d \in Nat
    PROVE  /\ a * d \in Nat /\ d * a \in Nat
           /\ a <= b => a * d <= b * d /\ d * a <= d * b
           /\ d * (a + 1) = d * a + d
  BY Z3

LEMMA NearestKeepsOrder ==
    ASSUME NEW a \in Nat, NEW b \in Nat, NEW d \in Nat \ {0}, a <= b
    PROVE  /\ Nearest(a, d) \in Nat
           /\ Nearest(a, d) <= Nearest(b, d)
<1> DEFINE p == a \div d
           q == b \div d
           r == a % d
           s == b % d
<1>1. /\ p \in Nat /\ r \in 0 .. d - 1 /\ a = d * p + r
      /\ q \in Nat /\ s \in 0 .. d - 1 /\ b = d * q + s
  BY Division
<1>2. p <= q
  <2> SUFFICES ASSUME q + 1 <= p PROVE FALSE
    BY <1>1
  <2> HIDE DEF p, q, r, s
  <2>1. d * (q + 1) <= d * p /\ d * (q + 1) = d * q + d /\ d * p \in Nat /\ d * q \in Nat
    BY <1>1, ProductsKeepOrder
  <2> QED
    BY <1>1, <2>1
<1>3. /\ Nearest(a, d) = IF 2 * r > d \/ (2 * r = d /\ p % 2 = 1) THEN p + 1 ELSE p
      /\ Nearest(b, d) = IF 2 * s > d \/ (2 * s = d /\ q % 2 = 1) THEN q + 1 ELSE q
  BY DEF Nearest
<1> HIDE DEF p, q, r, s
<1>4. CASE p < q
  BY <1>1, <1>3, <1>4
<1>5. CASE p = q
  <2>1. r <= s
    <3>1. d * p \in Nat /\ d * q = d * p
      BY <1>1, <1>5, ProductsKeepOrder
    <3> QED
      BY <1>1, <3>1
  <2> QED
    BY <1>1, <1>3, <1>5, <2>1
<1> QED
  BY <1>1, <1>2, <1>4, <1>5

LEMMA TimesKeepOrder ==
    ASSUME NEW a \in Nat, NEW b \in Nat, a <= b
    PROVE  FromSeconds(ToSeconds(a)) <= FromSeconds(ToSeconds(b))
<1>1. /\ TicksPerSecond \in Nat \ {0} /\ StepsPerSecond \in Nat \ {0} /\ Coarse \in Nat \ {0}
      /\ StepsPerSecond * Coarse \in Nat \ {0}
  BY ClockAssumption, Z3
<1>2. ToSeconds(a) \in Nat /\ ToSeconds(b) \in Nat /\ ToSeconds(a) <= ToSeconds(b)
  <2>1. /\ a * StepsPerSecond \in Nat /\ b * StepsPerSecond \in Nat
        /\ a * StepsPerSecond <= b * StepsPerSecond
    BY <1>1, ProductsKeepOrder
  <2> QED
    BY <1>1, <2>1, NearestKeepsOrder DEF ToSeconds
<1> DEFINE m == ToSeconds(a) * TicksPerSecond
           n == ToSeconds(b) * TicksPerSecond
           d == StepsPerSecond * Coarse
<1>3. m \in Nat /\ n \in Nat /\ m <= n
  BY <1>1, <1>2, ProductsKeepOrder
<1>4. Nearest(m, d) \in Nat /\ Nearest(n, d) \in Nat /\ Nearest(m, d) <= Nearest(n, d)
  <2> HIDE DEF m, n, d
  <2>1. d \in Nat \ {0}
    BY <1>1 DEF d
  <2> QED
    BY <1>3, <2>1, NearestKeepsOrder
<1>5. Coarse * Nearest(m, d) <= Coarse * Nearest(n, d)
  <2> HIDE DEF m, n, d
  <2> QED
    BY <1>1, <1>4, ProductsKeepOrder
<1> QED
  BY <1>5 DEF FromSeconds

LEMMA ItemReturns ==
    ASSUME NEW item, NEW v \in make_log_item(item_to_object(item))
    PROVE  v.when = FromSeconds(ToSeconds(item.when))
<1>1. GetField(item_to_object(item), "when", "number") = {ToSeconds(item.when)}
  BY GetsValue DEF item_to_object, GetField
<1> QED
  BY <1>1 DEF make_log_item

OrderInv ==
    /\ at \in {"sender", "wire", "receiver"}
    /\ at # "receiver" => received = {}
    /\ kind = "items" =>
          /\ sent[1].when \in Nat /\ sent[2].when \in Nat /\ sent[1].when <= sent[2].when
          /\ at = "wire" => wire = [i \in 1 .. 2 |-> item_to_object(sent[i])]
    /\ OrderIsKept

\* A receiver that sorts by time stamps never swaps two messages, for every
\* resolution of the clock and of the doubles.
THEOREM OrderSurvives == Spec => []OrderIsKept
<1>1. Init => OrderInv
  BY DEF Init, OrderInv, OrderIsKept, Items
<1>2. OrderInv /\ [Next]_vars => OrderInv'
  <2> SUFFICES ASSUME OrderInv, [Next]_vars PROVE OrderInv'
    OBVIOUS
  <2>1. CASE Send
    BY <2>1 DEF Send, OrderInv, OrderIsKept
  <2>2. CASE Receive
    <3>1. at = "wire" /\ at' = "receiver" /\ UNCHANGED <<kind, sent>>
      BY <2>2 DEF Receive
    <3>2. ASSUME kind = "items", NEW items \in received' PROVE items[1].when <= items[2].when
      <4> DEFINE results == [i \in 1 .. 2 |-> make_log_item(wire[i])]
      <4>1. received' = ForEach(results)
        BY <2>2, <3>2 DEF Receive
      <4>2. /\ results[1] # {} /\ results[2] # {}
            /\ items = [e \in 1 .. 2 |-> CHOOSE v \in results[e] : TRUE]
        BY <3>2, <4>1 DEF ForEach
      <4>3. wire[1] = item_to_object(sent[1]) /\ wire[2] = item_to_object(sent[2])
        BY <3>1, <3>2 DEF OrderInv
      <4>4. /\ items[1] \in make_log_item(item_to_object(sent[1]))
            /\ items[2] \in make_log_item(item_to_object(sent[2]))
        <5>1. results[1] = make_log_item(wire[1]) /\ results[2] = make_log_item(wire[2])
          OBVIOUS
        <5> HIDE DEF results
        <5> QED
          BY <4>2, <4>3, <5>1
      <4>5. /\ items[1].when = FromSeconds(ToSeconds(sent[1].when))
            /\ items[2].when = FromSeconds(ToSeconds(sent[2].when))
        BY <4>4, ItemReturns
      <4> QED
        BY <3>2, <4>5, TimesKeepOrder DEF OrderInv
    <3> QED
      BY <3>1, <3>2 DEF OrderInv, OrderIsKept
  <2>3. CASE UNCHANGED vars
    BY <2>3 DEF vars, OrderInv, OrderIsKept
  <2> QED
    BY <2>1, <2>2, <2>3 DEF Next
<1> QED
  BY <1>1, <1>2, PTL DEF Spec, OrderInv

--------------------------------------------------------------------------------
(* What is left of a log item. Each rounding is off by half a step at most.  *)

LEMMA NearestIsNear ==
    ASSUME NEW n \in Nat, NEW d \in Nat \ {0}
    PROVE  /\ Nearest(n, d) \in Nat /\ d * Nearest(n, d) \in Nat
           /\ 2 * (d * Nearest(n, d) - n) <= d /\ 2 * (n - d * Nearest(n, d)) <= d
<1> DEFINE p == n \div d
           r == n % d
<1>1. p \in Nat /\ r \in 0 .. d - 1 /\ n = d * p + r
  BY Division
<1>2. Nearest(n, d) = IF 2 * r > d \/ (2 * r = d /\ p % 2 = 1) THEN p + 1 ELSE p
  BY DEF Nearest
<1> HIDE DEF p, r
<1>3. d * p \in Nat /\ d * (p + 1) = d * p + d
  BY <1>1, ProductsKeepOrder
<1>4. CASE Nearest(n, d) = p + 1 /\ 2 * r >= d
  BY <1>1, <1>3, <1>4
<1>5. CASE Nearest(n, d) = p /\ 2 * r <= d
  BY <1>1, <1>3, <1>5
<1> QED
  BY <1>1, <1>2, <1>4, <1>5

LEMMA DriftIsSmall ==
    ASSUME NEW w \in Nat
    PROVE  LET drift == FromSeconds(ToSeconds(w)) - w
               bound == TicksPerSecond + Coarse * StepsPerSecond
           IN  /\ drift \in Int
               /\ 2 * StepsPerSecond * drift <= bound
               /\ 2 * StepsPerSecond * (-drift) <= bound
<1> DEFINE T == TicksPerSecond
           S == StepsPerSecond
           C == Coarse
           n == ToSeconds(w)
           q == Nearest(n * T, S * C)
           f == FromSeconds(n)
<1>1. T \in Nat \ {0} /\ S \in Nat \ {0} /\ C \in Nat \ {0} /\ S * C \in Nat \ {0}
  BY ClockAssumption, Z3
<1>2. n = Nearest(w * S, T) /\ f = C * q
  BY DEF ToSeconds, FromSeconds
<1> HIDE DEF T, S, C, n, q, f
<1>3. w * S \in Nat
  BY <1>1, ProductsKeepOrder
<1>4. n \in Nat /\ T * n \in Nat /\ 2 * (T * n - w * S) <= T /\ 2 * (w * S - T * n) <= T
  BY <1>1, <1>2, <1>3, NearestIsNear
<1>5. n * T = T * n /\ n * T \in Nat
  BY <1>1, <1>4, Z3
<1>6. /\ q \in Nat /\ (S * C) * q \in Nat
      /\ 2 * ((S * C) * q - n * T) <= S * C /\ 2 * (n * T - (S * C) * q) <= S * C
  BY <1>1, <1>5, NearestIsNear DEF q
<1>7. f \in Nat /\ S * f = (S * C) * q /\ C * S = S * C
  BY <1>1, <1>2, <1>6, Z3
<1>8. /\ 2 * S * (f - w) = 2 * (S * f - w * S)
      /\ 2 * S * (-(f - w)) = 2 * (w * S - S * f)
  BY <1>1, <1>7, Z3
<1>9. /\ 2 * (S * f - w * S) <= T + C * S
      /\ 2 * (w * S - S * f) <= T + C * S
  BY <1>1, <1>3, <1>4, <1>5, <1>6, <1>7
<1>10. f - w \in Int /\ 2 * S * (f - w) <= T + C * S /\ 2 * S * (-(f - w)) <= T + C * S
  BY <1>7, <1>8, <1>9
<1> QED
  BY <1>10 DEF T, S, C, f, n

LEMMA ItemKeeps ==
    ASSUME NEW item \in Items
    PROVE  make_log_item(item_to_object(item)) =
               {[when |-> FromSeconds(ToSeconds(item.when)),
                 severity |-> item.severity, message |-> item.message]}
<1> DEFINE obj == item_to_object(item)
<1>1. /\ GetField(obj, "when", "number") = {ToSeconds(item.when)}
      /\ GetField(obj, "severity", "string") = {item.severity}
      /\ GetField(obj, "message", "string") = {item.message}
  BY GetsValue DEF item_to_object, GetField
<1>2. make_severity_with_fallback(item.severity, "info") = item.severity
  BY DEF make_severity_with_fallback, Items
<1> HIDE DEF obj
<1>3. make_log_item(obj) = {[when |-> FromSeconds(ToSeconds(item.when)),
                             severity |-> item.severity, message |-> item.message]}
  BY <1>1, <1>2 DEF make_log_item
<1> QED
  BY <1>3 DEF obj

ItemsInv ==
    /\ at \in {"sender", "wire", "receiver"}
    /\ kind = "items" =>
          /\ sent[1] \in Items /\ sent[2] \in Items
          /\ at = "wire" => wire = [i \in 1 .. 2 |-> item_to_object(sent[i])]
    /\ ItemsArrive

\* Every log item arrives with its severity and its text, and with a time stamp that
\* is off by half a step of each rounding at most, whatever the resolutions are.
THEOREM ItemsSurvive == Spec => []ItemsArrive
<1>1. Init => ItemsInv
  BY DEF Init, ItemsInv, ItemsArrive
<1>2. ItemsInv /\ [Next]_vars => ItemsInv'
  <2> SUFFICES ASSUME ItemsInv, [Next]_vars PROVE ItemsInv'
    OBVIOUS
  <2>1. CASE Send
    BY <2>1 DEF Send, ItemsInv, ItemsArrive
  <2>2. CASE Receive
    <3>1. at = "wire" /\ at' = "receiver" /\ UNCHANGED <<kind, sent, wire>>
      BY <2>2 DEF Receive
    <3>2. ASSUME kind = "items" PROVE ItemsArrive'
      <4> DEFINE results == [i \in 1 .. 2 |-> make_log_item(wire[i])]
                 item(i) == [when |-> FromSeconds(ToSeconds(sent[i].when)),
                             severity |-> sent[i].severity, message |-> sent[i].message]
                 items == [i \in 1 .. 2 |-> item(i)]
      <4>1. received' = ForEach(results)
        BY <2>2, <3>2 DEF Receive
      <4>2. \A i \in 1 .. 2 : sent[i] \in Items /\ wire[i] = item_to_object(sent[i])
        BY <3>1, <3>2 DEF ItemsInv
      <4>3. \A i \in 1 .. 2 : results[i] = {items[i]}
        BY <4>2, ItemKeeps
      <4>4. received' = {items}
        <5>1. DOMAIN items = DOMAIN results /\ DOMAIN results = 1 .. 2
              /\ items = [i \in DOMAIN items |-> items[i]]
          OBVIOUS
        <5> HIDE DEF items, results
        <5> QED
          BY <4>1, <4>3, <5>1, ForEachReturns
      <4>5. ASSUME NEW i \in 1 .. 2
            PROVE  /\ [items[i] EXCEPT !.when = 0] = [sent[i] EXCEPT !.when = 0]
                   /\ LET drift == items[i].when - sent[i].when
                      IN  2 * StepsPerSecond * Max({drift, -drift})
                              <= TicksPerSecond + Coarse * StepsPerSecond
        <5>1. items[i] = item(i) /\ sent[i] \in Items
          BY <4>2
        <5>2. [items[i] EXCEPT !.when = 0] = [sent[i] EXCEPT !.when = 0]
          BY <5>1 DEF Items
        <5> DEFINE drift == items[i].when - sent[i].when
        <5>3. /\ drift \in Int
              /\ 2 * StepsPerSecond * drift <= TicksPerSecond + Coarse * StepsPerSecond
              /\ 2 * StepsPerSecond * (-drift) <= TicksPerSecond + Coarse * StepsPerSecond
          BY <5>1, DriftIsSmall DEF Items
        <5>4. drift \in Int => Max({drift, -drift}) \in {drift, -drift}
          <6> HIDE DEF drift
          <6> QED
            BY DEF Max
        <5> HIDE DEF drift
        <5>5. 2 * StepsPerSecond * Max({drift, -drift}) <= TicksPerSecond + Coarse * StepsPerSecond
          BY <5>3, <5>4
        <5> QED
          BY <5>2, <5>5 DEF drift
      <4> HIDE DEF items
      <4> QED
        BY <3>1, <4>4, <4>5 DEF ItemsArrive
    <3> QED
      BY <3>1, <3>2 DEF ItemsInv, ItemsArrive
  <2>3. CASE UNCHANGED vars
    BY <2>3 DEF vars, ItemsInv, ItemsArrive
  <2> QED
    BY <2>1, <2>2, <2>3 DEF Next
<1> QED
  BY <1>1, <1>2, PTL DEF Spec, ItemsInv

--------------------------------------------------------------------------------
(* Nothing is made up.                                                       *)

LEMMA ValueIsMeant ==
    ASSUME NEW v, IsValue(v), NEW type, NEW x \in Get(v, type)
    PROVE  /\ v = [type |-> type, val |-> x]
           /\ type = "number" => x \in Int
           /\ type \in {"array", "object"} => IsFunction(x)
<1>1. v.type = type /\ x = v.val
  BY DEF Get
<1> QED
  BY <1>1 DEF IsValue

LEMMA FieldIsMeant ==
    ASSUME NEW obj, \A f \in DOMAIN obj : IsValue(obj[f]),
           NEW field, NEW type, NEW x \in GetField(obj, field, type)
    PROVE  /\ field \in DOMAIN obj /\ obj[field] = [type |-> type, val |-> x]
           /\ type = "number" => x \in Int
           /\ type \in {"array", "object"} => IsFunction(x)
<1>1. field \in DOMAIN obj /\ x \in Get(obj[field], type)
  BY DEF GetField
<1> QED
  BY <1>1, ValueIsMeant

\* Raw objects are made of values as deep as anything is read from them.
LEMMA PartsAreValues ==
    ASSUME NEW values, NEW v \in values, v.type \in {"array", "object"}, NEW f \in DOMAIN v.val
    PROVE  v.val[f] \in PartsOf(values)
BY DEF PartsOf, FieldsOf

LEMMA RawAreValues ==
    ASSUME NEW obj \in RawObjects
    PROVE  /\ \A f \in DOMAIN obj : IsValue(obj[f])
           /\ \A p \in GetField(obj, "parameters", "object") :
                 /\ \A f \in DOMAIN p : IsValue(p[f])
                 /\ \A field : \A g \in GetField(p, field, "object") :
                       /\ \A f \in DOMAIN g : IsValue(g[f])
                       /\ \A f \in DOMAIN g : \A a \in Get(g[f], "array") :
                             \A i \in DOMAIN a : IsValue(a[i])
<1> DEFINE parameters == FieldsOf(RawObjects)
           groups == PartsOf(parameters)
           entries == PartsOf(groups)
<1>1. \A v \in parameters \cup groups \cup entries \cup PartsOf(entries) : IsValue(v)
  BY RawObjectsAssumption
<1>2. \A f \in DOMAIN obj : obj[f] \in parameters
  BY DEF FieldsOf
<1> HIDE DEF parameters
<1>3. ASSUME NEW p \in GetField(obj, "parameters", "object"), NEW f \in DOMAIN p
      PROVE  p[f] \in groups
  <2>1. obj["parameters"] \in parameters /\ obj["parameters"].type = "object" /\ obj["parameters"].val = p
    BY <1>2 DEF GetField, Get
  <2> QED
    BY <1>3, <2>1, PartsAreValues
<1> HIDE DEF groups
<1>4. ASSUME NEW p \in GetField(obj, "parameters", "object"), NEW field,
             NEW g \in GetField(p, field, "object"), NEW f \in DOMAIN g
      PROVE  g[f] \in entries
  <2>1. p[field] \in groups /\ p[field].type = "object" /\ p[field].val = g
    BY <1>3 DEF GetField, Get
  <2> QED
    BY <1>4, <2>1, PartsAreValues
<1> HIDE DEF entries
<1>5. ASSUME NEW p \in GetField(obj, "parameters", "object"), NEW field,
             NEW g \in GetField(p, field, "object"), NEW f \in DOMAIN g,
             NEW a \in Get(g[f], "array"), NEW i \in DOMAIN a
      PROVE  a[i] \in PartsOf(entries)
  <2>1. g[f] \in entries /\ g[f].type = "array" /\ g[f].val = a
    BY <1>4 DEF Get
  <2> QED
    BY <1>5, <2>1, PartsAreValues
<1> QED
  BY <1>1, <1>2, <1>3, <1>4, <1>5

LEMMA ForEachIsMeant ==
    ASSUME NEW results, NEW f \in ForEach(results)
    PROVE  /\ IsFunction(f) /\ DOMAIN f = DOMAIN results
           /\ \A e \in DOMAIN f : f[e] \in results[e]
<1>1. /\ \A e \in DOMAIN results : results[e] # {}
      /\ f = [e \in DOMAIN results |-> CHOOSE v \in results[e] : TRUE]
  BY DEF ForEach
<1>2. ASSUME NEW e \in DOMAIN results PROVE (CHOOSE v \in results[e] : TRUE) \in results[e]
  BY <1>1
<1> QED
  BY <1>1, <1>2 DEF IsFunction

LEMMA StringsAreMeant ==
    ASSUME NEW elements, IsFunction(elements), \A e \in DOMAIN elements : IsValue(elements[e]),
           NEW f \in Strings(elements)
    PROVE  [e \in DOMAIN f |-> String(f[e])] = elements
<1> DEFINE results == [e \in DOMAIN elements |-> Get(elements[e], "string")]
<1>1. f \in ForEach(results)
  BY DEF Strings
<1>2. DOMAIN results = DOMAIN elements /\ \A e \in DOMAIN elements : results[e] = Get(elements[e], "string")
  OBVIOUS
<1> HIDE DEF results
<1>3. DOMAIN f = DOMAIN elements /\ \A e \in DOMAIN f : f[e] \in Get(elements[e], "string")
  BY <1>1, <1>2, ForEachIsMeant
<1>4. \A e \in DOMAIN elements : String(f[e]) = elements[e]
  BY <1>3, ValueIsMeant DEF String
<1> QED
  BY <1>3, <1>4 DEF IsFunction

LEMMA OutputsAreMeant ==
    ASSUME NEW obj, IsFunction(obj), \A p \in DOMAIN obj : IsValue(obj[p]),
           \A p \in DOMAIN obj : \A a \in Get(obj[p], "array") : \A i \in DOMAIN a : IsValue(a[i]),
           NEW f \in make_output_port_file_map(obj)
    PROVE  output_map_to_object(f) = obj
<1> DEFINE results == [p \in DOMAIN obj |-> UNION {Strings(a) : a \in Get(obj[p], "array")}]
<1>1. f \in ForEach(results)
  BY DEF make_output_port_file_map
<1>2. /\ DOMAIN results = DOMAIN obj
      /\ \A p \in DOMAIN obj : results[p] = UNION {Strings(a) : a \in Get(obj[p], "array")}
  OBVIOUS
<1> HIDE DEF results
<1>3. DOMAIN f = DOMAIN obj /\ \A p \in DOMAIN f : f[p] \in results[p]
  BY <1>1, <1>2, ForEachIsMeant
<1>4. ASSUME NEW p \in DOMAIN obj PROVE Array([i \in DOMAIN f[p] |-> String(f[p][i])]) = obj[p]
  <2>1. PICK a \in Get(obj[p], "array") : f[p] \in Strings(a)
    BY <1>2, <1>3
  <2>2. IsValue(obj[p])
    OBVIOUS
  <2>3. obj[p] = [type |-> "array", val |-> a] /\ IsFunction(a)
    BY <2>1, <2>2, ValueIsMeant
  <2>4. \A i \in DOMAIN a : IsValue(a[i])
    BY <2>1
  <2>5. [i \in DOMAIN f[p] |-> String(f[p][i])] = a
    BY <2>1, <2>3, <2>4, StringsAreMeant
  <2> QED
    BY <2>3, <2>5 DEF Array
<1> QED
  BY <1>3, <1>4 DEF output_map_to_object, IsFunction

IsMeant(obj, cfg) ==
    LET meant == startup_config_to_object(cfg)
        given == obj.parameters.val
    IN  /\ obj.operational_mode = meant.operational_mode
        /\ IF cfg \in HostInfos
           THEN Within(meant.parameters.val.address.val, given.address.val)
           ELSE Within(meant.parameters.val, given)

LEMMA HostInfoIsMeant ==
    ASSUME NEW obj \in RawObjects, NEW p \in GetField(obj, "parameters", "object"),
           NEW cfg \in make_host_info(p)
    PROVE  /\ cfg \in HostInfos /\ cfg.mode = "connected_to_host"
           /\ Within(host_address_to_object(cfg.fd), p.address.val)
<1>1. PICK a \in GetField(p, "address", "object") :
          cfg.fd \in make_host_address(a) /\ cfg = [mode |-> "connected_to_host", fd |-> cfg.fd]
  BY DEF make_host_info
<1>2. PICK fd : fd = cfg.fd
  OBVIOUS
<1>3. /\ \A f \in DOMAIN p : IsValue(p[f])
      /\ \A f \in DOMAIN a : IsValue(a[f])
  BY RawAreValues
<1>4. p.address.val = a
  <2>1. p["address"] = [type |-> "object", val |-> a]
    BY <1>3, FieldIsMeant
  <2> QED
    BY <2>1
<1>5. "socket_fd" \in GetField(a, "type", "string")
  BY <1>1 DEF make_host_address
<1>6. PICK n \in GetField(a, "value", "number") : fd \in make_socket_fd_ref(n)
  BY <1>1, <1>2 DEF make_host_address
<1>7. /\ "type" \in DOMAIN a /\ a["type"] = [type |-> "string", val |-> "socket_fd"]
      /\ "value" \in DOMAIN a /\ a["value"] = [type |-> "number", val |-> n] /\ n \in Int
  BY <1>3, <1>5, <1>6, FieldIsMeant
<1>8. fd = n \div 2 /\ 0 <= n /\ n <= 2 * IntMax /\ 2 * fd = n
  BY <1>6, <1>7, IntMaxAssumption DEF make_socket_fd_ref
<1>9. fd \in Descriptors
  BY <1>7, <1>8, IntMaxAssumption DEF Descriptors
<1>10. Within(host_address_to_object(fd), a)
  <2>1. /\ DOMAIN host_address_to_object(fd) = {"type", "value"}
        /\ host_address_to_object(fd)["type"] = [type |-> "string", val |-> "socket_fd"]
        /\ host_address_to_object(fd)["value"] = [type |-> "number", val |-> n]
    BY <1>8 DEF host_address_to_object, String, Number
  <2> QED
    BY <1>7, <2>1 DEF Within
<1> QED
  BY <1>1, <1>2, <1>4, <1>9, <1>10 DEF HostInfos

LEMMA StandaloneIsMeant ==
    ASSUME NEW obj \in RawObjects, NEW p \in GetField(obj, "parameters", "object"),
           NEW cfg \in make_standalone_config(p)
    PROVE  /\ cfg \notin HostInfos /\ cfg.mode = "standalone"
           /\ Within(parameters_to_object(cfg), p)
<1>1. PICK i, o : /\ \E m \in GetField(p, "inputs", "object") : i \in make_input_port_file_map(m)
                  /\ \E m \in GetField(p, "outputs", "object") : o \in make_output_port_file_map(m)
                  /\ cfg = [mode |-> "standalone", inputs |-> i, outputs |-> o]
  BY DEF make_standalone_config
<1>2. PICK a \in GetField(p, "inputs", "object") : i \in make_input_port_file_map(a)
  BY <1>1
<1>3. PICK b \in GetField(p, "outputs", "object") : o \in make_output_port_file_map(b)
  BY <1>1
<1>4. /\ \A f \in DOMAIN p : IsValue(p[f])
      /\ \A f \in DOMAIN a : IsValue(a[f])
      /\ \A f \in DOMAIN b : IsValue(b[f])
      /\ \A f \in DOMAIN b : \A l \in Get(b[f], "array") : \A k \in DOMAIN l : IsValue(l[k])
  BY <1>2, <1>3, RawAreValues
<1>5. /\ "inputs" \in DOMAIN p /\ p["inputs"] = [type |-> "object", val |-> a] /\ IsFunction(a)
      /\ "outputs" \in DOMAIN p /\ p["outputs"] = [type |-> "object", val |-> b] /\ IsFunction(b)
  BY <1>2, <1>3, <1>4, FieldIsMeant
<1>6. input_map_to_object(i) = a
  BY <1>2, <1>4, <1>5, StringsAreMeant DEF make_input_port_file_map, input_map_to_object
<1>7. output_map_to_object(o) = b
  BY <1>3, <1>4, <1>5, OutputsAreMeant
<1>8. parameters_to_object(cfg) = [inputs |-> Object(a), outputs |-> Object(b)]
  BY <1>1, <1>6, <1>7 DEF parameters_to_object
<1>9. Within(parameters_to_object(cfg), p)
  <2>1. /\ DOMAIN parameters_to_object(cfg) = {"inputs", "outputs"}
        /\ parameters_to_object(cfg)["inputs"] = p["inputs"]
        /\ parameters_to_object(cfg)["outputs"] = p["outputs"]
    BY <1>5, <1>8 DEF Object
  <2> QED
    BY <1>5, <2>1 DEF Within
<1> QED
  BY <1>1, <1>9 DEF HostInfos

LEMMA RawIsMeant ==
    ASSUME NEW obj \in RawObjects, NEW cfg \in make_startup_config(obj)
    PROVE  IsMeant(obj, cfg)
<1>1. PICK mode \in GetField(obj, "operational_mode", "string") :
        cfg \in CASE mode = "connected_to_host" ->
                        UNION {make_host_info(p) : p \in GetField(obj, "parameters", "object")}
                  [] mode = "standalone" ->
                        UNION {make_standalone_config(p) : p \in GetField(obj, "parameters", "object")}
                  [] OTHER -> {}
  BY Zenon DEF make_startup_config
<1>2. \A f \in DOMAIN obj : IsValue(obj[f])
  BY RawAreValues
<1>3. obj.operational_mode = String(mode)
  BY <1>2, FieldIsMeant DEF String
<1>4. /\ startup_config_to_object(cfg).operational_mode = String(cfg.mode)
      /\ startup_config_to_object(cfg).parameters.val = parameters_to_object(cfg)
  BY DEF startup_config_to_object, Object
<1>5. ASSUME NEW p \in GetField(obj, "parameters", "object") PROVE obj.parameters.val = p
  <2>1. obj["parameters"] = [type |-> "object", val |-> p]
    BY <1>2, <1>5, FieldIsMeant
  <2> QED
    BY <2>1
<1>6. CASE mode = "connected_to_host"
  <2>1. PICK p \in GetField(obj, "parameters", "object") : cfg \in make_host_info(p)
    BY <1>1, <1>6
  <2>2. /\ cfg \in HostInfos /\ cfg.mode = "connected_to_host"
        /\ Within(host_address_to_object(cfg.fd), p.address.val)
    BY <2>1, HostInfoIsMeant
  <2>3. parameters_to_object(cfg).address.val = host_address_to_object(cfg.fd)
    BY <2>2 DEF parameters_to_object, Object
  <2> QED
    BY <1>3, <1>4, <1>5, <1>6, <2>2, <2>3 DEF IsMeant
<1>7. CASE mode = "standalone"
  <2>1. PICK p \in GetField(obj, "parameters", "object") : cfg \in make_standalone_config(p)
    BY <1>1, <1>7
  <2>2. cfg \notin HostInfos /\ cfg.mode = "standalone" /\ Within(parameters_to_object(cfg), p)
    BY <2>1, StandaloneIsMeant
  <2> QED
    BY <1>3, <1>4, <1>5, <1>7, <2>2 DEF IsMeant
<1>8. CASE mode \notin {"connected_to_host", "standalone"}
  BY <1>1, <1>8
<1> QED
  BY <1>6, <1>7, <1>8

AcceptedInv == /\ AcceptedIsMeant
               /\ kind = "raw" => sent \in RawObjects
               /\ at # "sender" /\ kind = "raw" => wire = sent
               /\ at # "receiver" => received = {}

\* Whatever object arrives, provided that it is made of jopp's values, what is
\* accepted of it is what it says.
THEOREM NothingIsMadeUp == Spec => []AcceptedIsMeant
<1>1. Init => AcceptedInv
  BY DEF Init, AcceptedInv, AcceptedIsMeant
<1>2. AcceptedInv /\ [Next]_vars => AcceptedInv'
  <2> SUFFICES ASSUME AcceptedInv, [Next]_vars PROVE AcceptedInv'
    OBVIOUS
  <2>1. CASE Send
    BY <2>1 DEF Send, AcceptedInv, AcceptedIsMeant
  <2>2. CASE Receive
    <3>1. UNCHANGED <<kind, sent, wire>> /\ at = "wire" /\ at' = "receiver"
      BY <2>2 DEF Receive
    <3>2. ASSUME kind = "raw", NEW cfg \in received' PROVE IsMeant(wire, cfg)
      <4>1. received' = make_startup_config(wire) /\ wire \in RawObjects
        BY <2>2, <3>1, <3>2 DEF Receive, AcceptedInv
      <4> QED
        BY <3>2, <4>1, RawIsMeant
    <3>3. AcceptedIsMeant'
      BY <3>1, <3>2 DEF AcceptedIsMeant, IsMeant
    <3> QED
      BY <3>1, <3>3 DEF AcceptedInv
  <2>3. CASE UNCHANGED vars
    BY <2>3 DEF vars, AcceptedInv, AcceptedIsMeant
  <2> QED
    BY <2>1, <2>2, <2>3 DEF Next
<1>3. AcceptedInv => AcceptedIsMeant
  BY DEF AcceptedInv
<1> QED
  BY <1>1, <1>2, <1>3, PTL DEF Spec
================================================================================
