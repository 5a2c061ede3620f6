----------------------------- MODULE MCSmallParts ------------------------------
(* Eight parts that share nothing, in one run: `part` says which of them moves.
   The validator: a section with a number, a string and a map, a map at the top,
   an array and a debug section.  The port: a limit of one second and of one
   error.  The intervals: up to two, at and around midnight, noon and the minute.
   The monitor's client: a queue for one message, LOGs three deep.  The pool: two
   entries for three threads.  The synchronous server: two clients.  The
   asynchronous client: two outages of its server.  The log file: one line (lines do
   not meet), three days, two starts, the clock set back once.                   *)
EXTENDS ConfigValidator, ComPort, ConnectionPool, WsServerSync, WorkIntervals, LogRotation,
        WsClientAsync

CONSTANTS Capacity, StackDepth

VARIABLES part, at, call, depth, logger, m_mtxDeque, size, broker, died

Clock(h, m, s) == [h |-> h, m |-> m, s |-> s]
Times == {Clock(0, 0, 0), Clock(12, 75, 0), Clock(11, 59, 59), Clock(12, 0, 0),
          Clock(24, 0, 0), Clock(24, 0, 1), Clock(-1, -1, -1), Clock(12, 0, 75)}
Few == {[begin |-> Clock(0, 0, 0), end |-> Clock(0, 0, 59)],
        [begin |-> Clock(0, 0, 59), end |-> Clock(12, 0, 0)],
        [begin |-> Clock(12, 0, 0), end |-> Clock(24, 0, 0)],
        [begin |-> Clock(12, 0, 0), end |-> Clock(0, 0, 59)]}
MCLists == {<<>>} \cup {<<i>> : i \in [begin : Times, end : Times]} \cup [1..2 -> Few]
MCMoments == {Clock(0, 0, 0), Clock(0, 0, 58), Clock(0, 0, 59), Clock(0, 1, 0),
            Clock(11, 59, 58), Clock(11, 59, 59), Clock(12, 0, 0), Clock(23, 59, 59)}

Monitor == INSTANCE ModMonClient

monVars == <<at, call, depth, logger, m_mtxDeque, size, broker, died>>
allVars == <<part, inForce, portVars, timesVars, monVars, poolVars, wsVars, asyncVars,
             rotVars>>

PartsInit ==
    /\ part \in {"validator", "port", "intervals", "monitor", "pool", "server", "async",
                "rotation"}
    /\ Init /\ PortInit /\ TimesInit /\ Monitor!MonInit
    /\ PoolInit /\ WsInit /\ AsyncInit /\ RotInit

\* The variables of the other parts.
Rest(p, its) == IF part = p THEN TRUE ELSE UNCHANGED its

PartsNext ==
    /\ UNCHANGED part
    /\ \/ part = "validator" /\ Next
       \/ part = "port" /\ PortNext
       \/ part = "intervals" /\ TimesNext
       \/ part = "monitor" /\ Monitor!MonNext
       \/ part = "pool" /\ PoolNext
       \/ part = "server" /\ WsNext
       \/ part = "async" /\ AsyncNext
       \/ part = "rotation" /\ RotNext
    /\ Rest("validator", inForce) /\ Rest("port", portVars)
    /\ Rest("intervals", timesVars) /\ Rest("monitor", monVars)
    /\ Rest("pool", poolVars) /\ Rest("server", wsVars) /\ Rest("async", asyncVars)
    /\ Rest("rotation", rotVars)

\* One disjunct per part: TLC's tableau grows with their sum, not their product.
PartsFairness ==
    \/ part \in {"validator", "intervals", "rotation"}
    \/ part = "port" /\ PortFairness
    \/ part = "monitor" /\ Monitor!MonFairness
    \/ part = "pool" /\ PoolFairness
    \/ part = "server" /\ WsFairness
    \/ part = "async" /\ AsyncFairness

PartsSpec == PartsInit /\ [][PartsNext]_allVars /\ PartsFairness

\* In the states of the validator: a load, in any order, takes over what is right
\* and nothing else (validateAndReplaceConfig(), anyParamProc(); see LoadIsRight).
ConfigIsRight == part = "validator" => LoadIsRight

\* In the states of the validator: loading the configuration in force again
\* changes nothing (validateAndReplaceConfig(); see ReloadIsStable).
ReloadChangesNothing == part = "validator" => ReloadIsStable

\* A LOG whose message goes to the monitor returns (ModMonClient::open(), send()).
LogReturns == Monitor!LogReturns

\* In the states of the asynchronous client: it connects again (on_connect(), ping();
\* see ComesBack).
ClientComesBack == part = "async" => ComesBack

--------------------------------------------------------------------------------
(* The constraint file and the configurations *)

Num(n) == [t |-> "int", v |-> n]
Str(x) == [t |-> "string", v |-> x]
Arr(e) == [t |-> "array", e |-> e]
Obj(f) == [t |-> "object", m |-> f]
Param(type, default, min, max) ==
    [Type |-> type, Default |-> default, Min |-> min, Max |-> max, Enum |-> {}]

MCKeys == <<"A", "E", "ForDebug", "M", "N", "P", "S", "a", "b", "c", "d", "x", "y">>

MCConstraint ==
    (<<"A">> :> Param("array.int", Null, 0, 3)) @@
    (<<"M">> :> Param("map.object", Null, 1, 2)) @@
    (<<"M", "x">> :> Param("int", Num(1), 1, 2)) @@
    (<<"S">> :> Param("object", Null, 0, 0)) @@
    (<<"S", "P">> :> Param("int", Null, 1, 2)) @@
    (<<"S", "E">> :> [Param("string", Str("on"), 0, 0) EXCEPT !.Enum = {"on", "off"}]) @@
    (<<"S", "N">> :> Param("map.object", Null, 1, 3)) @@
    (<<"S", "N", "x">> :> Param("int", Num(1), 1, 2))

Entry(n) == Obj("x" :> Num(n))
Entries(keys, n) == Obj([k \in keys |-> Entry(n)])

\* good maps; empty, too large, with a bad member or a scalar for an entry; the
\* template of the default configuration
SomeMaps(large) ==
    {Null, Obj(<<>>), Entries({"a"}, 1), Entries({"a"}, 2), Entries({"a", "b"}, 1),
     Entries(large, 1), Entries({"a"}, 9), Obj(("a" :> Entry(2)) @@ ("b" :> Entry(9))),
     Obj(("a" :> Entry(9)) @@ ("b" :> Entry(2))), Obj(("a" :> Num(1)) @@ ("b" :> Entry(1))),
     Entry(1)}

\* arrays and null for a map, for its entries and for a member
OddMaps ==
    {EmptyArray, Obj("a" :> Arr(<<Obj(<<>>), Null>>)), Obj("a" :> Obj("x" :> EmptyArray)),
     Obj(("a" :> Arr(<<Num(1)>>)) @@ ("b" :> Entry(2))), Obj("a" :> Arr(<<Entry(1)>>)),
     Arr(<<Entry(1)>>)}
OddNested ==
    {Obj([k \in {"a", "b", "c", "d"} |-> EmptyArray]), Obj(("a" :> Arr(<<Null, Num(1)>>)) @@ ("b" :> Null))}

FewMaps == {Null, Entries({"a", "b"}, 1), Entries({"a"}, 9)}

Config(p, e, n, m, a) ==
    Obj(("A" :> a) @@ ("M" :> m) @@ ("S" :> Obj(("P" :> p) @@ ("E" :> e) @@ ("N" :> n))))

Plain(p, n, m) == Config(p, Str("off"), n, m, EmptyArray)

\* every map in one place beside a good, a bad and no map in the other; every kind of
\* value for the other parameters; an unknown member and an object in an entry; a lost
\* section; an array and an object in the debug section
MCConfigs ==
    {Plain(p, n, m) : p \in {Num(2), Num(9)}, n \in SomeMaps({"a", "b", "c", "d"}), m \in FewMaps}
    \cup {Plain(Num(2), n, m) : n \in FewMaps, m \in SomeMaps({"a", "b", "c"})}
    \cup {Plain(Num(9), n, Null) : n \in OddNested} \cup {Plain(Num(2), Null, m) : m \in OddMaps}
    \cup {Config(p, e, Null, Entry(1), a) :
            p \in {Num(0), Str("on"), Null}, e \in {Str("on"), Str("odd"), Num(1)},
            a \in {EmptyArray, Arr(<<Num(1)>>)}}
    \cup {Config(EmptyArray, Str("on"), Null, Null, a) : a \in {EmptyArray, Num(1)}}
    \cup {Plain(Num(2), Null, Obj("a" :> Obj("y" :> Num(1)))),
          Plain(Num(2), Null, Obj("a" :> Obj("x" :> Entry(1)))),
          Obj("M" :> Entry(1))}
    \cup {Obj(("ForDebug" :> debug) @@ Plain(Num(2), Null, Null).m) :
            debug \in {Obj("y" :> Num(1)), Obj("y" :> Arr(<<Num(1), Arr(<<>>)>>)),
                      Obj("y" :> Arr(<<Entry(1)>>)), Arr(<<Num(1)>>)}}

================================================================================
